--------------------------- MODULE MCSwarmPolling ---------------------------
(* A small instance of SwarmPolling for TLC. *)
EXTENDS SwarmPolling

CONSTANTS m1, s1, s2, p1, p2
=============================================================================
