--------------------------- MODULE MCInboundSync ---------------------------
(* Small instances of InboundSync for TLC.                                 *)
EXTENDS InboundSync, TLC

Reads == Permutations(Readers)
=============================================================================
