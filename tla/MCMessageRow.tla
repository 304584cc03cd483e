---------------------------- MODULE MCMessageRow ----------------------------
(* Small instances of MessageRow for TLC. *)
EXTENDS MessageRow

CONSTANTS a1, a2
=============================================================================
