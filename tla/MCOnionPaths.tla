--------------------------- MODULE MCOnionPaths ---------------------------
(* A small instance of OnionPaths for TLC. *)
EXTENDS OnionPaths

CONSTANTS n1, n2, n3, r1, r2
=============================================================================
