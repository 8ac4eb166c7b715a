---------------------------- MODULE MCReadFace ----------------------------
(* Small instances of ReadFace for TLC.                                    *)
EXTENDS ReadFace
=============================================================================
