------------------------------ MODULE MCLabels ------------------------------
(* Small instances of Labels.                                              *)
EXTENDS Labels
=============================================================================
