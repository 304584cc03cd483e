---------------------------- MODULE MessageTable ----------------------------
(***************************************************************************)
(* The row of one message in the database, and the channel all statements  *)
(* go through (data/dataInit.ts, node/sql_channel.ts): the main process    *)
(* runs them in the order they were issued and answers in that order.  A   *)
(* statement is therefore run, and what awaited it goes on, in one step.   *)
(*                                                                         *)
(* Whoever changes a message reads the whole row, and writes the whole row *)
(* later.  Also here: the timer that destroys the messages that expired    *)
(* (session/disappearing_messages/index.ts).                               *)
(***************************************************************************)
EXTENDS Integers, Sequences, FiniteSets

CONSTANT
    MaxFaults       \* bound: failures, ends of the process, other interferences

ASSUME FaultsAssumption == MaxFaults \in Nat

VARIABLES
    row,            \* the row, or NoRow
    ipc,            \* statements issued and not run yet
    expiry,         \* whether a check is due, whether the timer is armed
    faults          \* failures so far

table == <<row, ipc, expiry, faults>>

NoRow == [kind |-> "none"]

Exists(r) == r.kind # "none"

Statement(by, op, arg) == [by |-> by, op |-> op, arg |-> arg]
Read(by) == Statement(by, "read", NoRow)
Save(by, r) == Statement(by, "save", r)
Delete(by) == Statement(by, "delete", NoRow)

\* the statement that is run next
Turn(by, op) == ipc # <<>> /\ Head(ipc).by = by /\ Head(ipc).op = op

\* statements are issued, by who awaited the head or by somebody else
IssueAfterHead(statements) == ipc' = Tail(ipc) \o statements
Issue(statements) == ipc' = ipc \o statements

Fault == faults < MaxFaults /\ faults' = faults + 1

\* The constructor of a message that has started to expire sets the time it
\* expires at, and saves that without anybody waiting for it.
Model(r) == IF Exists(r) THEN [r EXCEPT !.expires = @ \/ r.start] ELSE r

SavedByModel(r) == IF Exists(r) /\ Model(r) # r THEN <<Save("model", Model(r))>> ELSE <<>>

Expiring(r) == Exists(r) /\ r.expires

\* saveMessage is INSERT OR REPLACE, and asks for a check of what expires; one
\* that would find nothing is left out
saveMessage(r) ==
    /\ row' = r
    /\ expiry' = [expiry EXCEPT !.check = @ \/ Expiring(r)]

\* a save nobody awaits
ModelSaved ==
    /\ Turn("model", "save")
    /\ saveMessage(Head(ipc).arg)
    /\ IssueAfterHead(<<>>)
    /\ UNCHANGED faults

\* the user deletes the message, or its sender unsends it
removeMessage ==
    /\ Fault /\ Exists(row)
    /\ Issue(<<Delete("user")>>)
    /\ UNCHANGED <<row, expiry>>

Removed ==
    /\ Turn("user", "delete")
    /\ row' = NoRow
    /\ IssueAfterHead(<<>>)
    /\ UNCHANGED <<expiry, faults>>

\* seeded fault: no timer is set for what has expired already
Arms_future(r, due) == Expiring(r) /\ ~due

\* whether the timer is set; due is whether the message has expired by then
Arms(r, due) == Expiring(r)

\* Some time after it is asked for (throttledCheckExpiringMessages) the next
\* expiring message is looked up; without one the timer is left alone.
checkExpiringMessages ==
    /\ expiry.check
    /\ \E due \in BOOLEAN :
         expiry' = [check |-> FALSE, armed |-> expiry.armed \/ Arms(row, due)]
    /\ UNCHANGED <<row, ipc, faults>>

\* The timer fires: the messages that expired are looked up, are read again
\* for their files, and deleted.
destroyExpiredMessages ==
    /\ expiry.armed
    /\ expiry' = [expiry EXCEPT !.armed = FALSE]
    /\ IF Expiring(row) THEN Issue(<<Read("expiry")>>) ELSE UNCHANGED ipc
    /\ UNCHANGED <<row, faults>>

CleanedUp ==
    /\ Turn("expiry", "read")
    /\ IssueAfterHead(<<Delete("expiry")>>)
    /\ UNCHANGED <<row, expiry, faults>>

Destroyed ==
    /\ Turn("expiry", "delete")
    /\ row' = NoRow
    /\ IssueAfterHead(<<>>)
    /\ UNCHANGED <<expiry, faults>>

\* An error is swallowed, and the next one is looked up all the same.
DestroyFails ==
    /\ Fault
    /\ Turn("expiry", "delete")
    /\ expiry' = [expiry EXCEPT !.check = @ \/ Expiring(row)]
    /\ IssueAfterHead(<<>>)
    /\ UNCHANGED row

ExpiryStep == checkExpiringMessages \/ destroyExpiredMessages \/ CleanedUp \/ Destroyed

TableStep == ModelSaved \/ Removed \/ ExpiryStep

TableNext == TableStep \/ removeMessage \/ DestroyFails

TableInit(r) ==
    /\ row = r
    /\ ipc = <<>>
    /\ expiry = [check |-> FALSE, armed |-> FALSE]
    /\ faults = 0

-----------------------------------------------------------------------------
\* A message that has a time to expire at is destroyed, whatever is written
\* over its row meanwhile and though a deletion fails: the check after a save
\* and the check after a deletion set the timer again.
ExpiringIsDestroyed == Expiring(row) ~> ~Expiring(row)
=============================================================================
