--------------------------- MODULE MCOpenGroups ---------------------------
(* Small instances of OpenGroups for TLC. *)
EXTENDS OpenGroups

CONSTANTS r1, r2, m1, m2, p1, p2

\* every message is of the first room
InFirstRoom == [m \in Messages |-> r1]
=============================================================================
