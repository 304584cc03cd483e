---------------------------- MODULE MCJobRunner ----------------------------
(***************************************************************************)
(* Instances of JobRunner for TLC.                                         *)
(***************************************************************************)
EXTENDS JobRunner

CONSTANTS j1, j2, j3, a, b

\* j1 and j2 are two jobs of one group, as GroupSyncJob makes them
MCIdOf == [j \in Job |-> IF j = j3 THEN b ELSE a]

MCSubject == [j \in Job |-> {MCIdOf[j]}]
=============================================================================
