------------------------------- MODULE Outbox -------------------------------
(***************************************************************************)
(* What the message queue promises its callers, without jobs, saves and    *)
(* replies: destinations whose messages leave in the order they came in,   *)
(* and a promise, once a message is on the disk, that it stays pending,    *)
(* behind the same promised messages, until it had an outcome, through     *)
(* every end of the process.  A load that fails ends what is promised of   *)
(* restarts; it never lets a message overtake an older one.                *)
(***************************************************************************)
EXTENDS Integers, Sequences, SequencesExt

CONSTANTS Device, Identifier

VARIABLES
    pending,    \* the messages of a device that wait for an outcome, oldest first
    promised,   \* those process() resolved for
    failed      \* a load failed

vars == <<pending, promised, failed>>

Init ==
    /\ pending = [d \in Device |-> <<>>]
    /\ promised = {}
    /\ failed = FALSE

Accept(d, id) ==
    /\ id \notin ToSet(pending[d])
    /\ pending' = [pending EXCEPT ![d] = Append(@, id)]
    /\ UNCHANGED <<promised, failed>>

Promise(d, id) ==
    /\ id \in ToSet(pending[d])
    /\ promised' = promised \cup {<<d, id>>}
    /\ UNCHANGED <<pending, failed>>

\* only the oldest message of a destination has an outcome
Settle(d) ==
    /\ pending[d] # <<>>
    /\ pending' = [pending EXCEPT ![d] = Tail(@)]
    /\ promised' = promised \ {<<d, Head(pending[d])>>}
    /\ UNCHANGED failed

Before(s, a, b) == \E i, j \in DOMAIN s : i < j /\ s[i] = a /\ s[j] = b

\* what is pending when the process ends is pending when the next one starts if it
\* was promised, in its order; what was not promised may be lost, or come back
Restart ==
    /\ pending' \in [Device -> Seq(Identifier)]
    /\ \A d \in Device : IsInjective(pending'[d])
    /\ ~failed => \A m, n \in promised :
        /\ m[2] \in ToSet(pending'[m[1]])
        /\ m[1] = n[1] /\ Before(pending[m[1]], m[2], n[2]) =>
            Before(pending'[m[1]], m[2], n[2])
    /\ UNCHANGED <<promised, failed>>

LoadFails ==
    /\ failed' = TRUE
    /\ pending' \in {pending, [d \in Device |-> <<>>]}
    /\ UNCHANGED promised

Next ==
    \/ \E d \in Device, id \in Identifier : Accept(d, id)
    \/ \E d \in Device, id \in Identifier : Promise(d, id)
    \/ \E d \in Device : Settle(d)
    \/ Restart
    \/ LoadFails

Spec == Init /\ [][Next]_vars
=============================================================================
