----------------------------- MODULE MessageRow -----------------------------
(***************************************************************************)
(* The row of a message and all that write it: a message we send to a      *)
(* private conversation (SentMessage), or one we received with attachments *)
(* (AttachmentDownloads).  Which of them it is stays as it is.             *)
(***************************************************************************)
EXTENDS SentMessage, AttachmentDownloads

CONSTANT
    Kinds           \* messages there are: a subset of {"outgoing", "incoming"}

ASSUME KindsAssumption == Kinds \subseteq {"outgoing", "incoming"}

VARIABLE
    kind

vars == <<kind, table, sending, downloads>>

NotSending ==
    /\ queued = {} /\ stored = {} /\ retries = 0
    /\ writer = [w \in Sends \cup {"user"} |-> Idle]

NotDownloading ==
    /\ jobs = [a \in Attachments |-> NoJob] /\ active = {}
    /\ run = [a \in Attachments |-> "idle"]
    /\ handler = [receiver |-> "done", reader |-> "done"]

Init ==
    /\ kind \in Kinds
    /\ \/ kind = "outgoing" /\ SentInit /\ NotDownloading
       \/ kind = "incoming" /\ DownloadsInit /\ NotSending

Next ==
    /\ UNCHANGED kind
    /\ \/ kind = "outgoing" /\ SentNext /\ UNCHANGED downloads
       \/ kind = "incoming" /\ DownloadsNext /\ UNCHANGED sending

Spec == Init /\ [][Next]_vars

\* The database answers, requests and downloads settle, timers fire.
FairSpec == Spec /\ SentFairness /\ DownloadsFairness

-----------------------------------------------------------------------------

\* what a row is, and no save is of anything else; no more downloads run at a
\* time than may, though several queries for jobs are under way at once
TypeOK ==
    /\ kind \in Kinds
    /\ row.kind \in {kind, "none"}
    /\ \A i \in DOMAIN ipc : ipc[i].op = "save" => ipc[i].arg.kind = kind
    /\ queued \subseteq Sends /\ stored \subseteq Sends
    /\ active \subseteq Attachments /\ Cardinality(active) <= MAX_ATTACHMENT_JOB_PARALLELISM
    /\ \A a \in Attachments : jobs[a].attempts \in -1..MaxAttempts - 1
    /\ faults \in 0..MaxFaults

-----------------------------------------------------------------------------
(* The inductive invariant: whoever wrote the row last, it was a true one *)

Issuers ==
    Attachments \cup Sends
        \cup {"user", "model", "expiry", "receiver", "reader", "starter"}

OutgoingRow ==
    [kind : {"outgoing"}, sent : BOOLEAN, sentSync : BOOLEAN, synced : BOOLEAN,
     errors : BOOLEAN, timer : BOOLEAN, start : BOOLEAN, expires : BOOLEAN]

IncomingRow ==
    [kind : {"incoming"}, att : [Attachments -> {"new", "pending", "done", "error"}],
     unread : BOOLEAN, start : BOOLEAN, expires : BOOLEAN]

Jobs == [pending : BOOLEAN, attempts : -1..MaxAttempts - 1, due : BOOLEAN]

\* the statements there are, when every save is of a row in rows
Statements(rows) ==
    [by : Issuers, op : {"read", "delete"}, arg : {NoRow}]
        \cup [by : Issuers, op : {"save"}, arg : rows]
        \cup [by : Issuers, op : {"addJob", "setPending", "saveJob", "removeJob"},
              arg : [a : Attachments, job : Jobs]]
        \cup [by : {"starter"}, op : {"nextJobs"}, arg : {Limit(busy) : busy \in SUBSET Attachments}]

\* the row, and the rows that are about to be saved
RowsIn(rows) == row \in rows \cup {NoRow} /\ ipc \in Seq(Statements(rows))

\* the rows that claim no more than what the swarms in st have
Truthful(st) ==
    {r \in OutgoingRow :
        /\ r.sent /\ ~r.errors => "them" \in st
        /\ st = {} => ~r.start /\ ~r.expires}

Writers == Sends \cup {"user"}

Places ==
    {"idle", "found", "cleared", "load", "loaded", "upload", "notUploaded", "stamped",
     "request", "success", "failure", "sync", "synced", "again", "saving", "failed", "ended"}

Writer(rows) == [pc : Places, copy : rows \cup {NoRow}, failed : Nat]

SentTypes ==
    /\ RowsIn(Truthful(stored))
    /\ queued \subseteq Sends /\ stored \subseteq Sends
    /\ writer \in [Writers -> Writer(Truthful(stored))]

\* w, at this place and with this copy, has a copy when it needs one, and is
\* right to say that the message was sent, or that it was not, when the swarms
\* in st have it.  What is sent to us is the copy of what was sent.
Justified(w, at, st) ==
    /\ at.pc \in {"cleared", "load", "loaded", "upload", "sync"} => at.copy # NoRow
    /\ at.pc = "success" => w \in st
    /\ at.pc \in {"sync", "synced", "again"} => "them" \in st
    /\ at.pc = "failed" => at.copy # NoRow /\ at.copy.errors
    /\ w = "us" /\ at.pc # "idle" => "them" \in st

SentInv ==
    /\ SentTypes
    /\ \A w \in Writers : Justified(w, writer[w], stored)
    /\ "us" \in queued => "them" \in stored

Runs == {"idle", "check", "mark", "download", "done", "error", "save", "retry", "remove"}

DownloadsInv ==
    /\ RowsIn(IncomingRow)
    /\ jobs \in [Attachments -> Jobs]
    /\ active \subseteq Attachments /\ Cardinality(active) <= MAX_ATTACHMENT_JOB_PARALLELISM
    /\ run \in [Attachments -> Runs]

RowInv ==
    /\ kind \in Kinds /\ faults \in 0..MaxFaults
    /\ kind = "outgoing" => SentInv /\ NotDownloading
    /\ kind = "incoming" => DownloadsInv /\ queued = {} /\ stored = {}
=============================================================================
