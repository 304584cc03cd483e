------------------------- MODULE AttachmentDownloads -------------------------
(***************************************************************************)
(* The downloads of the attachments of a received message                  *)
(* (session/utils/AttachmentsDownload.ts): the receiver queues a job for   *)
(* each (receiver/attachments.ts), at most MAX_ATTACHMENT_JOB_PARALLELISM  *)
(* run at a time, a failed one is tried again after its backoff, and each  *)
(* writes its result into the row of the message, which the user reading   *)
(* the message writes too.                                                 *)
(***************************************************************************)
EXTENDS MessageTable, SequencesExt

CONSTANTS
    Attachments,                        \* attachments of the message
    MAX_ATTACHMENT_JOB_PARALLELISM,
    MaxAttempts                         \* times a download is tried

ASSUME DownloadsAssumption ==
    /\ IsFiniteSet(Attachments)
    /\ MAX_ATTACHMENT_JOB_PARALLELISM \in Nat \ {0}
    /\ MaxAttempts \in Nat \ {0}

VARIABLES
    jobs,           \* the saved jobs: [pending, attempts, due], or NoJob
    active,         \* _activeAttachmentDownloadJobs
    run,            \* where the run of each job is
    handler         \* where the receiver and the reader of the message are

downloads == <<jobs, active, run, handler>>

NoJob == [pending |-> FALSE, attempts |-> -1, due |-> FALSE]

Received ==
    [kind |-> "incoming", att |-> [a \in Attachments |-> "new"], unread |-> TRUE,
     start |-> FALSE, expires |-> FALSE]

Running(a, pc) == run[a] = pc

GotoRun(a, pc) == run' = [run EXCEPT ![a] = pc]

\* a statement about the job of a attachment, of which arg is the new row
JobStatement(by, op, a, arg) == Statement(by, op, [a |-> a, job |-> arg])

DownloadsInit ==
    /\ TableInit(Received)
    /\ jobs = [a \in Attachments |-> NoJob]
    /\ active = {}
    /\ run = [a \in Attachments |-> "idle"]
    /\ handler = [receiver |-> "queue", reader |-> "idle"]

-----------------------------------------------------------------------------
(* addJob: the receiver saves the jobs, and the message with them *)

queueAttachmentDownloads ==
    /\ handler.receiver = "queue"
    /\ handler' = [handler EXCEPT !.receiver = "adding"]
    /\ LET order == SetToSeq(Attachments)
       IN  Issue([i \in DOMAIN order |->
                    JobStatement("receiver", "addJob", order[i], [NoJob EXCEPT !.attempts = 0])])
    /\ UNCHANGED <<row, expiry, faults, jobs, active, run>>

\* the places that are free
Limit(busy) == MAX_ATTACHMENT_JOB_PARALLELISM - Cardinality(busy)

\* the query of _maybeStartJob
StartQuery(busy) == IF Limit(busy) <= 0 THEN <<>> ELSE <<Statement("starter", "nextJobs", Limit(busy))>>

JobAdded ==
    /\ Turn("receiver", "addJob")
    /\ LET s == Head(ipc).arg
           last == \A i \in DOMAIN Tail(ipc) : Tail(ipc)[i].op # "addJob"
           pending == [Received EXCEPT !.att = [a \in Attachments |-> "pending"]]
       IN  /\ jobs' = [jobs EXCEPT ![s.a] = s.job]
           /\ IssueAfterHead(StartQuery(active)
                              \o IF last THEN <<Save("receiver", pending)>> ELSE <<>>)
    /\ UNCHANGED <<row, expiry, faults, active, run, handler>>

PendingSaved ==
    /\ Turn("receiver", "save")
    /\ saveMessage(Head(ipc).arg)
    /\ handler' = [handler EXCEPT !.receiver = "done"]
    /\ IssueAfterHead(<<>>)
    /\ UNCHANGED <<faults, jobs, active, run>>

-----------------------------------------------------------------------------
(* _maybeStartJob and _tick *)

\* nextJobsWithoutCurrentlyRunning
NotRunning(found, busy) == found \ busy

\* seeded fault: the places are those that were free before the query
Needed_before(limit, busy) == limit

\* "To prevent the race condition caused by two parallel database calls": the
\* places that are free are counted again, limit were free before
Needed(limit, busy) == Limit(busy)

Ready == {a \in Attachments : jobs[a] # NoJob /\ ~jobs[a].pending /\ jobs[a].due}

\* what getNextAttachmentDownloadJobs may answer; the newest come first
NextJobs(limit) == kSubset(Min({limit, Cardinality(Ready)}), Ready)

_maybeStartJob ==
    /\ Turn("starter", "nextJobs")
    /\ LET limit == Head(ipc).arg
       IN  \E found \in NextJobs(limit) :
             LET free == NotRunning(found, active)
                 needed == Max({0, Needed(limit, active)})
             IN  \E starts \in kSubset(Min({needed, Cardinality(free)}), free) :
                   /\ active' = active \cup starts
                   /\ run' = [a \in Attachments |-> IF a \in starts THEN "check" ELSE run[a]]
                   /\ IssueAfterHead(SetToSeq({Read(a) : a \in starts}))
    /\ UNCHANGED <<row, expiry, faults, jobs, handler>>

\* every minute; one that finds nothing is left out
_tick ==
    /\ Ready # {}
    /\ \A i \in DOMAIN ipc : ipc[i].op # "nextJobs"
    /\ StartQuery(active) # <<>>
    /\ Issue(StartQuery(active))
    /\ UNCHANGED <<row, expiry, faults, jobs, active, run, handler>>

\* the timestamp a job is saved with is in the past
BackoffEnds(a) ==
    /\ jobs[a] # NoJob /\ ~jobs[a].due
    /\ jobs' = [jobs EXCEPT ![a].due = TRUE]
    /\ UNCHANGED <<table, active, run, handler>>

-----------------------------------------------------------------------------
(* _runJob *)

\* A message that is gone has its job removed.
FoundMessage(a) ==
    /\ Running(a, "check") /\ Turn(a, "read")
    /\ IF Exists(row)
       THEN /\ GotoRun(a, "mark")
            /\ IssueAfterHead(SavedByModel(row)
                               \o <<JobStatement(a, "setPending", a, NoJob)>>)
       ELSE /\ GotoRun(a, "remove")
            /\ IssueAfterHead(<<JobStatement(a, "removeJob", a, NoJob)>>)
    /\ UNCHANGED <<row, expiry, faults, jobs, active, handler>>

MarkedPending(a) ==
    /\ Turn(a, "setPending")
    /\ jobs' = [jobs EXCEPT ![a] = IF @ = NoJob THEN NoJob ELSE [@ EXCEPT !.pending = TRUE]]
    /\ GotoRun(a, "download") /\ IssueAfterHead(<<>>)
    /\ UNCHANGED <<row, expiry, faults, active, handler>>

\* the file was downloaded and decrypted, or the server does not have it
Downloaded(a) ==
    /\ Running(a, "download")
    /\ \E result \in {"done", "error"} : GotoRun(a, result)
    /\ Issue(<<Read(a)>>)
    /\ UNCHANGED <<row, expiry, faults, jobs, active, handler>>

\* seeded fault: a job that failed stays marked as running
Failed_pending(job) == [job EXCEPT !.attempts = @ + 1, !.due = FALSE]

\* the job is saved again for later
Failed(job) == [pending |-> FALSE, attempts |-> job.attempts + 1, due |-> FALSE]

LastAttempt(job) == job.attempts + 1 >= MaxAttempts

\* anything else: the last attempt is marked as an error in the message
DownloadFails(a) ==
    /\ Running(a, "download")
    /\ IF LastAttempt(jobs[a])
       THEN GotoRun(a, "error") /\ Issue(<<Read(a)>>)
       ELSE GotoRun(a, "retry") /\ Issue(<<JobStatement(a, "saveJob", a, Failed(jobs[a]))>>)
    /\ UNCHANGED <<row, expiry, faults, jobs, active, handler>>

\* _addAttachmentToMessage: the message is read again right before it is saved
AddAttachmentToMessage(a) ==
    /\ run[a] \in {"done", "error"} /\ Turn(a, "read")
    /\ IF Exists(row)
       THEN /\ GotoRun(a, "save")
            /\ IssueAfterHead(SavedByModel(row)
                               \o <<Save(a, [Model(row) EXCEPT !.att[a] = run[a]])>>)
       ELSE /\ GotoRun(a, "remove")
            /\ IssueAfterHead(<<JobStatement(a, "removeJob", a, NoJob)>>)
    /\ UNCHANGED <<row, expiry, faults, jobs, active, handler>>

\* _finishJob
FinishJob(a) ==
    /\ Running(a, "save") /\ Turn(a, "save")
    /\ saveMessage(Head(ipc).arg)
    /\ GotoRun(a, "remove")
    /\ IssueAfterHead(<<JobStatement(a, "removeJob", a, NoJob)>>)
    /\ UNCHANGED <<faults, jobs, active, handler>>

\* the job is saved or removed, and makes room for another one
RunEnds(a) ==
    /\ Turn(a, "removeJob") \/ Turn(a, "saveJob")
    /\ jobs' = [jobs EXCEPT ![a] = Head(ipc).arg.job]
    /\ active' = active \ {a}
    /\ GotoRun(a, "idle")
    /\ IssueAfterHead(StartQuery(active \ {a}))
    /\ UNCHANGED <<row, expiry, faults, handler>>

RunStep(a) ==
    \/ FoundMessage(a) \/ MarkedPending(a) \/ AddAttachmentToMessage(a)
    \/ FinishJob(a) \/ RunEnds(a)

-----------------------------------------------------------------------------
(* The user reads the message, the process ends *)

\* markConversationReadBouncy: a read of the unread messages, and a save of all
\* of them, which asks for no check of what expires; the message has no timer to start
markRead ==
    /\ handler.reader = "idle" /\ Exists(row) /\ row.unread
    /\ handler' = [handler EXCEPT !.reader = "found"]
    /\ Issue(<<Read("reader")>>)
    /\ UNCHANGED <<row, expiry, faults, jobs, active, run>>

MarkedRead ==
    /\ Turn("reader", "read")
    /\ IF Exists(row)
       THEN /\ handler' = [handler EXCEPT !.reader = "saving"]
            /\ IssueAfterHead(SavedByModel(row) \o
                 <<Save("reader", [Model(row) EXCEPT !.unread = FALSE])>>)
       ELSE /\ handler' = [handler EXCEPT !.reader = "done"]
            /\ IssueAfterHead(<<>>)
    /\ UNCHANGED <<row, expiry, faults, jobs, active, run>>

ReadSaved ==
    /\ Turn("reader", "save")
    /\ row' = Head(ipc).arg
    /\ handler' = [handler EXCEPT !.reader = "done"]
    /\ IssueAfterHead(<<>>)
    /\ UNCHANGED <<expiry, faults, jobs, active, run>>

\* resetAttachmentDownloadPending
Reset(job) == [job EXCEPT !.pending = FALSE]

\* The process ends; start() resets the jobs before anything else runs.
RestartDownloads ==
    /\ Fault
    /\ jobs' = [a \in Attachments |-> Reset(jobs[a])]
    /\ active' = {} /\ run' = [a \in Attachments |-> "idle"]
    /\ ipc' = <<>> /\ expiry' = [check |-> Expiring(row), armed |-> FALSE]
    /\ handler' = [receiver |-> "done", reader |-> "idle"]
    /\ UNCHANGED row

DownloadsStep ==
    \/ JobAdded \/ PendingSaved \/ _maybeStartJob
    \/ \E a \in Attachments : RunStep(a)
    \/ MarkedRead \/ ReadSaved

DownloadsNext ==
    \/ TableNext /\ UNCHANGED downloads
    \/ queueAttachmentDownloads \/ _tick \/ markRead
    \/ DownloadsStep
    \/ \E a \in Attachments : BackoffEnds(a) \/ Downloaded(a) \/ DownloadFails(a)
    \/ RestartDownloads

DownloadsFairness ==
    /\ WF_<<table, downloads>>((TableStep /\ UNCHANGED downloads) \/ DownloadsStep)
    /\ WF_<<table, downloads>>(_tick)
    /\ \A a \in Attachments :
         /\ WF_<<table, downloads>>(BackoffEnds(a))
         /\ WF_<<table, downloads>>(Downloaded(a) \/ DownloadFails(a))

-----------------------------------------------------------------------------
(* Properties *)

\* Every job ends, with a file or with an error, after as many attempts as it
\* has, whatever runs at the same time.
EveryJobEnds == \A a \in Attachments : jobs[a] # NoJob ~> jobs[a] = NoJob

\* "This is to avoid race condition where multiple attachments in a single
\* message get downloaded at the same time, and tries to update the same
\* message" (AttachmentsDownload.ts:197): a result, once it is in the message,
\* stays in it.
DownloadIsKept ==
    [][\A a \in Attachments :
        row.kind = "incoming" /\ row.att[a] = "done" /\ row'.kind = "incoming" =>
            row'.att[a] = "done"]_row
=============================================================================
