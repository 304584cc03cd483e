----------------------------- MODULE Libsession -----------------------------
(***************************************************************************)
(* One configuration object of the native library libsession, which is not *)
(* in this repository: what its calls do, as the code in src/ relies on    *)
(* them (UserGenericWrapperActions, MetaGroupWrapperActions).              *)
(*                                                                         *)
(* A configuration is a set of changes and a sequence number.  Its content *)
(* is encrypted into one or more messages (the parts of a push), the same  *)
(* content always into the same ones, so a message is its own hash.        *)
(***************************************************************************)
EXTENDS Integers, FiniteSets, Sequences, SequencesExt, FiniteSetsExt

CONSTANT
    Parts           \* messages a configuration is split into

ASSUME PartsAssumption == Parts \in Nat \ {0}

\* the messages of a configuration in the namespace ns; gen is the generation
\* of the group's keys they are encrypted with
Content(ns, seqno, changes, gen) ==
    [part \in 1..Parts |->
        [ns |-> ns, seqno |-> seqno, changes |-> changes, gen |-> gen, part |-> part]]

Empty == [seqno |-> 0, changes |-> {}, state |-> "clean", hashes |-> {}, old |-> {}]

needsPush(c) == c.state # "clean"

\* A change of content starts a new version, and the messages of the last one
\* that was confirmed are obsolete.
MarkDirty(c) ==
    IF c.state = "dirty"
    THEN c
    ELSE [c EXCEPT !.seqno = @ + 1, !.state = "dirty",
                   !.old = @ \cup c.hashes, !.hashes = {}]

set(c, change) == [MarkDirty(c) EXCEPT !.changes = @ \cup {change}]

\* push: the obsolete hashes are handed out with the content, once
Pushed(c) == [c EXCEPT !.state = "waiting", !.old = {}]

\* confirmPushed: of no effect when the content changed since
confirmPushed(c, seqno, hashes) ==
    IF c.state = "waiting" /\ seqno = c.seqno
    THEN [c EXCEPT !.state = "clean", !.hashes = hashes]
    ELSE c

\* merge: versions is a set of [seqno, changes, hashes] not seen before.  The
\* newest one is adopted when it has all of the others; what is older than ours
\* and in it is obsolete; anything else makes a new version of all of them.
merge(c, versions) ==
    LET all == c.changes \cup UNION {v.changes : v \in versions}
        newest == {v \in versions :
                      /\ v.changes = all
                      /\ v.seqno > c.seqno
                      /\ \A u \in versions \ {v} : u.seqno < v.seqno}
        hashes == UNION {v.hashes : v \in versions}
    IN  IF newest # {}
        THEN LET v == CHOOSE v \in newest : TRUE
             IN  [seqno |-> v.seqno, changes |-> all, state |-> "clean",
                  hashes |-> v.hashes, old |-> (c.old \cup c.hashes \cup hashes) \ v.hashes]
        ELSE IF all = c.changes /\ \A v \in versions : v.seqno < c.seqno
        THEN [c EXCEPT !.old = @ \cup hashes]
        ELSE [seqno |-> Max({c.seqno} \cup {v.seqno : v \in versions}) + 1,
              changes |-> all, state |-> "dirty",
              hashes |-> {}, old |-> c.old \cup c.hashes \cup hashes]
=============================================================================
