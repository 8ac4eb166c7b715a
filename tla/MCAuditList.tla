---------------------------- MODULE MCAuditList ----------------------------
(* Small instances of AuditList.                                           *)
EXTENDS AuditList
=============================================================================
