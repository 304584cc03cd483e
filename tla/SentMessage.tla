----------------------------- MODULE SentMessage -----------------------------
(***************************************************************************)
(* What becomes of a message we send to a private conversation: the upload *)
(* that comes first (sendMessageJob, retrySend), MessageSender's attempts, *)
(* MessageSentHandler, and the copy of the message that is synced to our   *)
(* own swarm.  The send, the send of the copy and a retry of the user each *)
(* read the row, await, and write the row they have.                       *)
(*                                                                         *)
(* MessageQueue is here the set of sends that are saved and not ended yet. *)
(***************************************************************************)
EXTENDS MessageTable

CONSTANTS
    Attempts,       \* times a request is tried
    MaxRetries      \* bound: retries of the user

ASSUME SentMessageAssumption == Attempts \in Nat \ {0} /\ MaxRetries \in Nat

VARIABLES
    queued,         \* sends in the queue: to "them", to "us"
    stored,         \* swarms that have the message
    writer,         \* the sends, and the user's send or retry: where each is
    retries         \* retries so far

sending == <<queued, stored, writer, retries>>

Sends == {"them", "us"}

Unsent(timer) ==
    [kind |-> "outgoing", sent |-> FALSE, sentSync |-> FALSE, synced |-> FALSE,
     errors |-> FALSE, timer |-> timer, start |-> FALSE, expires |-> FALSE]

At(w, pc) == writer[w].pc = pc

Idle == [pc |-> "idle", copy |-> NoRow, failed |-> 0]

Goto(w, pc) == writer' = [writer EXCEPT ![w].pc = pc]

\* w goes on with r as its message, saves it and waits for that
Commit(w, r, pc) ==
    /\ writer' = [writer EXCEPT ![w].pc = pc, ![w].copy = r]
    /\ IssueAfterHead(SavedByModel(row) \o <<Save(w, r)>>)

\* the save w waits for is done
Committed(w, pc) ==
    /\ At(w, pc) /\ Turn(w, "save")
    /\ saveMessage(Head(ipc).arg)

SentInit ==
    /\ \E timer \in BOOLEAN : TableInit(Unsent(timer))
    /\ queued = {} /\ stored = {} /\ retries = 0
    /\ writer = [w \in Sends \cup {"user"} |->
                   IF w = "user" THEN [Idle EXCEPT !.pc = "load", !.copy = row] ELSE Idle]

-----------------------------------------------------------------------------
(* The user sends, or sends again *)

\* seeded fault: it is shown as sent again before it is
Cleared_stillSent(r) == [r EXCEPT !.errors = FALSE]

\* what retrySend starts with
Cleared(r) == [r EXCEPT !.errors = FALSE, !.sent = FALSE]

\* resendMessage, which a message with errors offers
resendMessage ==
    /\ At("user", "idle") /\ retries < MaxRetries
    /\ Exists(row) /\ row.errors
    /\ retries' = retries + 1
    /\ Goto("user", "found") /\ Issue(<<Read("user")>>)
    /\ UNCHANGED <<row, expiry, faults, queued, stored>>

retrySend ==
    /\ At("user", "found") /\ Turn("user", "read")
    /\ IF Exists(row) THEN Commit("user", Cleared(Model(row)), "cleared")
       ELSE Goto("user", "idle") /\ IssueAfterHead(<<>>)
    /\ UNCHANGED <<row, expiry, faults, queued, stored, retries>>

RetrySaved ==
    /\ Committed("user", "cleared")
    /\ Goto("user", "load") /\ IssueAfterHead(<<>>)
    /\ UNCHANGED <<faults, queued, stored, retries>>

\* uploadData: the attachments are loaded, the message is saved, and they are
\* uploaded
uploadData ==
    /\ At("user", "load")
    /\ Goto("user", "loaded") /\ Issue(<<Save("user", writer["user"].copy)>>)
    /\ UNCHANGED <<row, expiry, faults, queued, stored, retries>>

LoadedSaved ==
    /\ Committed("user", "loaded")
    /\ Goto("user", "upload") /\ IssueAfterHead(<<>>)
    /\ UNCHANGED <<faults, queued, stored, retries>>

\* sendToPubKey; a send that is in the queue still is not added again
Uploaded ==
    /\ At("user", "upload")
    /\ queued' = queued \cup {"them"}
    /\ Goto("user", "idle")
    /\ UNCHANGED <<table, stored, retries>>

UploadFails ==
    /\ Fault /\ At("user", "upload")
    /\ LET r == [writer["user"].copy EXCEPT !.errors = TRUE]
       IN  Goto("user", "notUploaded") /\ Issue(<<Save("user", r)>>)
    /\ UNCHANGED <<row, expiry, queued, stored, retries>>

ErrorSaved ==
    /\ Committed("user", "notUploaded")
    /\ Goto("user", "idle") /\ IssueAfterHead(<<>>)
    /\ UNCHANGED <<faults, queued, stored, retries>>

UserStep ==
    \/ retrySend \/ RetrySaved \/ uploadData \/ LoadedSaved \/ Uploaded \/ ErrorSaved

-----------------------------------------------------------------------------
(* sendSingleMessage *)

StartSend(d) ==
    /\ At(d, "idle") /\ d \in queued
    /\ writer' = [writer EXCEPT ![d] = [Idle EXCEPT !.pc = "found"]]
    /\ Issue(<<Read(d)>>)
    /\ UNCHANGED <<row, expiry, faults, queued, stored, retries>>

\* sent_at is set before each attempt, unless a copy is being synced
SetSentAt(d) ==
    /\ At(d, "found") /\ Turn(d, "read")
    /\ IF Exists(row) /\ ~row.sentSync THEN Commit(d, Model(row), "stamped")
       ELSE Goto(d, "request") /\ IssueAfterHead(SavedByModel(row))
    /\ UNCHANGED <<row, expiry, faults, queued, stored, retries>>

SentAtSaved(d) ==
    /\ Committed(d, "stamped")
    /\ Goto(d, "request") /\ IssueAfterHead(<<>>)
    /\ UNCHANGED <<faults, queued, stored, retries>>

StoreSucceeds(d) ==
    /\ At(d, "request")
    /\ stored' = stored \cup {d}
    /\ Goto(d, "success") /\ Issue(<<Read(d)>>)
    /\ UNCHANGED <<row, expiry, faults, queued, retries>>

\* a result of code 400 is neither a success nor an error
StoreRefused(d) ==
    /\ Fault /\ At(d, "request")
    /\ Goto(d, "ended")
    /\ UNCHANGED <<row, ipc, expiry, queued, stored, retries>>

\* no answer, or an error; the message may have been stored all the same
StoreFails(d) ==
    /\ Fault /\ At(d, "request")
    /\ stored' \in {stored, stored \cup {d}}
    /\ writer' = [writer EXCEPT ![d].failed = @ + 1,
                    ![d].pc = IF writer[d].failed + 1 < Attempts THEN "found" ELSE "failure"]
    /\ Issue(<<Read(d)>>)
    /\ UNCHANGED <<row, expiry, queued, retries>>

-----------------------------------------------------------------------------
(* MessageSentHandler *)

\* the message once it was sent to d; checkForExpiringOutgoingMessage
SentTo(r, d) ==
    [r EXCEPT !.synced = @ \/ (d = "us" /\ r.sentSync), !.sent = TRUE, !.errors = FALSE,
              !.start = @ \/ r.timer]

shouldTriggerSyncMessage(r, d) == d # "us" /\ ~r.synced /\ ~r.sentSync

handleSwarmMessageSentSuccess(d) ==
    /\ At(d, "success") /\ Turn(d, "read")
    /\ \/ /\ ~Exists(row)
          /\ Goto(d, "ended") /\ IssueAfterHead(<<>>)
       \/ /\ Exists(row) /\ shouldTriggerSyncMessage(row, d)
          /\ writer' = [writer EXCEPT ![d].pc = "sync", ![d].copy = Model(row)]
          /\ IssueAfterHead(SavedByModel(row))
       \/ /\ Exists(row) /\ ~shouldTriggerSyncMessage(row, d)
          /\ Commit(d, SentTo(Model(row), d), "saving")
    /\ UNCHANGED <<row, expiry, faults, queued, stored, retries>>

\* sendSyncMessage: the copy is in the queue, and the message is saved as such
sendSyncMessage ==
    /\ At("them", "sync")
    /\ queued' = queued \cup {"us"}
    /\ LET r == [writer["them"].copy EXCEPT !.sentSync = TRUE]
       IN  Goto("them", "synced") /\ Issue(<<Save("them", r)>>)
    /\ UNCHANGED <<row, expiry, faults, stored, retries>>

SyncSaved ==
    /\ Committed("them", "synced")
    /\ Goto("them", "again") /\ IssueAfterHead(<<Read("them")>>)
    /\ UNCHANGED <<faults, queued, stored, retries>>

FetchedAgain ==
    /\ At("them", "again") /\ Turn("them", "read")
    /\ IF Exists(row) THEN Commit("them", SentTo(Model(row), "them"), "saving")
       ELSE Goto("them", "ended") /\ IssueAfterHead(<<>>)
    /\ UNCHANGED <<row, expiry, faults, queued, stored, retries>>

handleSwarmMessageSentFailure(d) ==
    /\ At(d, "failure") /\ Turn(d, "read")
    /\ IF Exists(row) THEN Commit(d, [Model(row) EXCEPT !.errors = TRUE], "failed")
       ELSE Goto(d, "ended") /\ IssueAfterHead(<<>>)
    /\ UNCHANGED <<row, expiry, faults, queued, stored, retries>>

\* seeded fault: its timer goes on
NotSent_expiring(r, d) ==
    [r EXCEPT !.sentSync = @ /\ d # "us", !.sent = TRUE, !.start = @ \/ r.timer]

\* the message once the send to d was given up
NotSent(r, d) ==
    [r EXCEPT !.sentSync = @ /\ d # "us", !.sent = TRUE, !.start = @ /\ ~r.timer]

FailureSaved(d) ==
    /\ Committed(d, "failed")
    /\ LET r == NotSent(writer[d].copy, d)
       IN  Goto(d, "saving") /\ IssueAfterHead(<<Save(d, r)>>)
    /\ UNCHANGED <<faults, queued, stored, retries>>

Saved(d) ==
    /\ Committed(d, "saving")
    /\ Goto(d, "ended") /\ IssueAfterHead(<<>>)
    /\ UNCHANGED <<faults, queued, stored, retries>>

\* the message leaves the queue, after the last message of the conversation
\* was updated
EndSend(d) ==
    /\ At(d, "ended")
    /\ queued' = queued \ {d}
    /\ writer' = [writer EXCEPT ![d] = Idle]
    /\ UNCHANGED <<table, stored, retries>>

SendStep(d) ==
    \/ StartSend(d) \/ SetSentAt(d) \/ SentAtSaved(d) \/ StoreSucceeds(d)
    \/ handleSwarmMessageSentSuccess(d) \/ handleSwarmMessageSentFailure(d)
    \/ FailureSaved(d) \/ Saved(d) \/ EndSend(d)

\* The process ends.  The next start deletes what should have a time to expire
\* at and has none, and sends what is in the queue.
Restart ==
    /\ Fault
    /\ row' = IF Exists(row) /\ row.timer /\ ~row.expires /\ ~row.errors THEN NoRow ELSE row
    /\ ipc' = <<>> /\ expiry' = [check |-> Expiring(row'), armed |-> FALSE]
    /\ writer' = [w \in DOMAIN writer |-> Idle]
    /\ UNCHANGED <<queued, stored, retries>>

SentNext ==
    \/ TableNext /\ UNCHANGED sending
    \/ UserStep \/ resendMessage \/ UploadFails
    \/ \E d \in Sends : SendStep(d) \/ StoreRefused(d) \/ StoreFails(d)
    \/ sendSyncMessage \/ SyncSaved \/ FetchedAgain
    \/ Restart

SentFairness ==
    /\ WF_<<table, sending>>(TableStep /\ UNCHANGED sending)
    /\ \A d \in Sends : WF_<<table, sending>>(SendStep(d))
    /\ WF_<<table, sending>>(UserStep)
    /\ WF_<<table, sending>>(sendSyncMessage \/ SyncSaved \/ FetchedAgain)

-----------------------------------------------------------------------------
(* Properties *)

Outgoing == row.kind = "outgoing"

\* A message that is shown as sent, sent and without an error
\* (getMessagePropStatus), was stored for its recipient, whatever rows the
\* sends and retries write over each other.
SentIsStored == Outgoing /\ row.sent /\ ~row.errors => "them" \in stored

\* "Disappeared messages that fail to send should not disappear"
\* (MessageSentHandler.ts:186): a message that reached nobody has no time to
\* expire at.
UnsentIsKept == Outgoing /\ stored = {} => ~row.start /\ ~row.expires
=============================================================================
