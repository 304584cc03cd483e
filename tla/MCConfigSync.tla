---------------------------- MODULE MCConfigSync ----------------------------
(* Small instances of ConfigSync for TLC. *)
EXTENDS ConfigSync

CONSTANTS c1, c2, c3, p1, p2

TwoOfTheUser == <<"UserConfig", "ContactsConfig">>
OneOfTheUser == <<"UserConfig">>

\* pushes are interchangeable (safety runs only)
Alike == Permutations(Pushes)
=============================================================================
