------------------------------ MODULE Receiver ------------------------------
(***************************************************************************)
(* What happens to a message of a swarm once a poll has handed it over:    *)
(* the incoming message cache (receiver/cache.ts, the table "unprocessed"),*)
(* the envelope queue (receiver/receiver.ts), the handling of an envelope  *)
(* (contentMessage.ts, dataMessage.ts) and the queue of the conversation   *)
(* whose job stores the message (queuedJob.ts, models/conversation.ts).    *)
(*                                                                         *)
(* An envelope is a message and a copy: each handleRequest makes an        *)
(* envelope of its own, two of one message are two copies.  All messages   *)
(* go to one conversation, the case with most contention.  A row of the    *)
(* cache exists for the messages of our own swarm only.  Late tasks and    *)
(* overdue jobs of one envelope count as one while they are at the same    *)
(* point.  SwarmPolling extends this module with the polls and the Next of *)
(* both.                                                                   *)
(***************************************************************************)
EXTENDS Naturals, FiniteSets, Sequences, SequencesExt

CONSTANTS
    Messages,      \* the messages that may reach the swarm
    Copies,        \* bound: envelopes of one message that exist at a time
    MaxAttempts,   \* attempts a row gets: 10 in the code
    CacheLimit,    \* rows above which the cache is emptied: 1500 in the code
    MaxFaults      \* bound: failures, timeouts, crashes and removals

ASSUME ReceiverAssumption ==
    /\ IsFiniteSet(Messages)
    /\ Copies \subseteq Nat
    /\ 1 \in Copies
    /\ MaxAttempts \in Nat \ {0}
    /\ CacheLimit \in Nat
    /\ MaxFaults \in Nat

VARIABLES
    unprocessed,    \* the rows [env, attempts], oldest first
    adding,         \* envelopes whose saveUnprocessed has not answered
    envelopeQueue,  \* EnvelopeQueue: envelopes whose task has not started
    late,           \* envelopes whose task goes on after its time was over
    pendingJobs,    \* conversation.pending: envelopes whose job has not started
    job,            \* the job of the conversation that runs: none or one
    overdue,        \* jobs that go on after their three minutes
    replayed,       \* queueAllCached ran in this process
    stored,         \* how many rows of "messages" a message has
    consumed,       \* messages handled without a row of "messages"
    \* What follows is history: the program does not keep it.
    erred,          \* messages a handler of which threw, or was blocked
    lost,           \* messages that were dropped before an outcome
    exposed,        \* how often the duplicate check of a message was undone
    faults

queues == <<adding, envelopeQueue, late>>
conversation == <<pendingJobs, job, overdue>>
outcomes == <<stored, consumed, erred, lost, exposed>>
receiverVars ==
    <<unprocessed, queues, conversation, replayed, outcomes, faults>>

Envelope == Messages \X Copies
Message(env) == env[1]
Job == [env : Envelope, phase : {"checked", "stored"}]

Fault == faults < MaxFaults /\ faults' = faults + 1

ReceiverTypeOK ==
    /\ unprocessed \in Seq([env : Envelope, attempts : 1..MaxAttempts])
    /\ adding \in Seq(Envelope)
    /\ envelopeQueue \in Seq(Envelope)
    /\ late \subseteq Envelope
    /\ pendingJobs \in Seq(Envelope)
    /\ job \subseteq Job /\ Cardinality(job) <= 1
    /\ overdue \subseteq Job
    /\ replayed \in BOOLEAN
    /\ stored \in [Messages -> Nat]
    /\ consumed \subseteq Messages
    /\ erred \subseteq Messages
    /\ lost \subseteq Messages
    /\ exposed \in [Messages -> Nat]
    /\ faults \in 0..MaxFaults

ReceiverInit ==
    /\ unprocessed = <<>>
    /\ adding = <<>> /\ envelopeQueue = <<>> /\ late = {}
    /\ pendingJobs = <<>> /\ job = {} /\ overdue = {}
    /\ replayed = FALSE
    /\ stored = [m \in Messages |-> 0] /\ consumed = {}
    /\ erred = {} /\ lost = {} /\ exposed = [m \in Messages |-> 0]
    /\ faults = 0

-----------------------------------------------------------------------------
(* Where a message is *)

Running == overdue \cup job

\* the envelopes that have their row, or need none, and some code still handles
Handed ==
    ToSet(envelopeQueue) \cup late \cup ToSet(pendingJobs) \cup {j.env : j \in Running}

\* the envelopes some code still has to handle in this process
InMemory == ToSet(adding) \cup Handed

Rows == {unprocessed[i].env : i \in DOMAIN unprocessed}

Known == InMemory \cup Rows

\* a uuid that no envelope has
Unused(m) == {c \in Copies : <<m, c>> \notin Known}

MessagesOf(envs) == {Message(env) : env \in envs}

-----------------------------------------------------------------------------
(* The cache *)

\* s without the elements of drop, in its order
Without(s, drop) ==
    LET kept == {i \in DOMAIN s : s[i] \notin drop}
        Place(i) == Cardinality({j \in kept : j <= i})
    IN  [n \in 1..Cardinality(kept) |-> s[CHOOSE i \in kept : Place(i) = n]]

removeFromCache(env) ==
    unprocessed' = Without(unprocessed, {row \in ToSet(unprocessed) : row.env = env})

\* Receiver.handleRequest for each of ms: the writes of addToCache are issued
\* in order and answered in order.
handleRequest(ms) ==
    /\ \A i \in DOMAIN ms : Unused(ms[i]) # {}
    /\ adding' = adding \o
        [i \in DOMAIN ms |-> <<ms[i], CHOOSE c \in Unused(ms[i]) : TRUE>>]

\* saveUnprocessed answered: the envelope waits for its turn.
addToCache ==
    /\ adding # <<>>
    /\ LET env == Head(adding)
       IN  /\ unprocessed' = Append(unprocessed, [env |-> env, attempts |-> 1])
           /\ envelopeQueue' = Append(envelopeQueue, env)
    /\ adding' = Tail(adding)
    /\ UNCHANGED <<late, conversation, replayed, outcomes, faults>>

\* saveUnprocessed rejected: handleRequestDetail logs the error.
addToCacheFails ==
    /\ Fault
    /\ adding # <<>>
    /\ lost' = lost \cup {Message(Head(adding))}
    /\ adding' = Tail(adding)
    /\ UNCHANGED <<unprocessed, envelopeQueue, late, conversation, replayed,
                   stored, consumed, erred, exposed>>

\* the messages of the rows with that many attempts or more
RowsOf(n) ==
    {Message(row.env) : row \in {r \in ToSet(unprocessed) : r.attempts >= n}}

\* Every row, those of this session too, is queued again, once per process;
\* a row that had its last attempt is deleted first.  Above the limit the
\* whole cache is deleted instead.
queueAllCached ==
    /\ ~replayed
    /\ replayed' = TRUE
    /\ IF Len(unprocessed) > CacheLimit
       THEN /\ unprocessed' = <<>>
            /\ lost' = lost \cup RowsOf(1)
            /\ UNCHANGED envelopeQueue
       ELSE /\ envelopeQueue' = envelopeQueue \o
                 [i \in DOMAIN unprocessed |-> unprocessed[i].env]
            /\ LET rows == [i \in DOMAIN unprocessed |->
                               [unprocessed[i] EXCEPT !.attempts = @ + 1]]
               IN  unprocessed' =
                       Without(rows, {row \in ToSet(rows) : row.attempts >= MaxAttempts})
            /\ lost' = lost \cup RowsOf(MaxAttempts - 1)
    /\ UNCHANGED <<adding, late, conversation, stored, consumed, erred, exposed, faults>>

-----------------------------------------------------------------------------
(* Handling an envelope *)

\* seeded fault: confirmed when the job is queued
DataMessage_confirms(env) ==
    /\ pendingJobs' = Append(pendingJobs, env)
    /\ removeFromCache(env)
    /\ UNCHANGED <<consumed, erred, faults>>

\* handleSwarmDataMessage: the job of the conversation is queued, not awaited
DataMessage(env) ==
    /\ pendingJobs' = Append(pendingJobs, env)
    /\ UNCHANGED <<unprocessed, consumed, erred, faults>>

\* receipts, typing, unsend, calls, updates of a group, and what cannot be
\* decrypted, is invalid, empty or of a hidden conversation
OtherContent(env) ==
    /\ consumed' = consumed \cup {Message(env)}
    /\ removeFromCache(env)
    /\ UNCHANGED <<pendingJobs, erred, faults>>

\* an error, or a blocked sender: the row stays
ContentFails(env) ==
    /\ Fault
    /\ erred' = erred \cup {Message(env)}
    /\ UNCHANGED <<unprocessed, pendingJobs, consumed>>

innerHandleSwarmContentMessage(env) ==
    /\ \/ DataMessage(env)
       \/ OtherContent(env)
       \/ ContentFails(env)
    /\ UNCHANGED <<job, overdue, stored, lost, exposed>>

\* the time of the task is over, its promise goes on
TaskTimesOut(env) ==
    /\ Fault
    /\ late' = late \cup {env}
    /\ UNCHANGED <<unprocessed, conversation, outcomes>>

queueSwarmEnvelope ==
    /\ envelopeQueue # <<>>
    /\ envelopeQueue' = Tail(envelopeQueue)
    /\ LET env == Head(envelopeQueue)
       IN  \/ innerHandleSwarmContentMessage(env) /\ UNCHANGED late
           \/ TaskTimesOut(env)
    /\ UNCHANGED <<adding, replayed>>

LateTask ==
    \E env \in late :
        /\ late' = late \ {env}
        /\ innerHandleSwarmContentMessage(env)
        /\ UNCHANGED <<adding, envelopeQueue, replayed>>

-----------------------------------------------------------------------------
(* The job of a conversation *)

\* seeded fault: the row of a duplicate is left alone
confirmDuplicate_forgets(env) == UNCHANGED unprocessed

confirmDuplicate(env) == removeFromCache(env)

\* seeded fault: only the hashes of the polls are compared
isSwarmMessageDuplicate_never(env) == FALSE

isSwarmMessageDuplicate(env) == stored[Message(env)] > 0

\* seeded fault: a job does not wait for the one before it
MayStart_always == TRUE

\* a reaction changes the message it is about and is not checked
handleMessageReaction(env) ==
    /\ consumed' = consumed \cup {Message(env)}
    /\ removeFromCache(env)

\* the promise of the job before is settled
MayStart == job = {}

StartJob ==
    /\ MayStart
    /\ pendingJobs # <<>>
    /\ pendingJobs' = Tail(pendingJobs)
    /\ LET env == Head(pendingJobs)
       IN  \/ /\ isSwarmMessageDuplicate(env)
              /\ confirmDuplicate(env)
              /\ UNCHANGED <<job, consumed>>
           \/ /\ ~isSwarmMessageDuplicate(env)
              /\ job' = job \cup {[env |-> env, phase |-> "checked"]}
              /\ UNCHANGED <<unprocessed, consumed>>
           \/ handleMessageReaction(env) /\ UNCHANGED job
    /\ UNCHANGED <<queues, overdue, replayed, stored, erred, lost, exposed, faults>>

\* the query of the check is rejected: the message counts as new
DuplicateCheckFails ==
    /\ Fault
    /\ MayStart
    /\ pendingJobs # <<>>
    /\ pendingJobs' = Tail(pendingJobs)
    /\ LET env == Head(pendingJobs)
       IN  /\ job' = job \cup {[env |-> env, phase |-> "checked"]}
           /\ exposed' = [exposed EXCEPT ![Message(env)] = @ + 1]
    /\ UNCHANGED <<unprocessed, queues, overdue, replayed, stored, consumed, erred, lost>>

\* messageModel.commit()
handleMessageJob(j) ==
    /\ j.phase = "checked"
    /\ stored' = [stored EXCEPT ![Message(j.env)] = @ + 1]
    /\ UNCHANGED <<unprocessed, consumed, erred, lost, exposed, faults>>

\* an update of the timer without its values: confirmed, not stored
InvalidUpdate(j) ==
    /\ j.phase = "checked"
    /\ consumed' = consumed \cup {Message(j.env)}
    /\ removeFromCache(j.env)
    /\ UNCHANGED <<stored, erred, lost, exposed, faults>>

\* confirm()
confirm(j) ==
    /\ j.phase = "stored"
    /\ removeFromCache(j.env)
    /\ UNCHANGED <<outcomes, faults>>

\* handleMessageJob throws, before or after the commit: it is logged
JobFails(j) ==
    /\ Fault
    /\ erred' = erred \cup {Message(j.env)}
    /\ UNCHANGED <<unprocessed, stored, consumed, lost, exposed>>

RunJob ==
    /\ \E j \in job :
         \/ handleMessageJob(j) /\ job' = (job \ {j}) \cup {[j EXCEPT !.phase = "stored"]}
         \/ InvalidUpdate(j) /\ job' = job \ {j}
         \/ confirm(j) /\ job' = job \ {j}
         \/ JobFails(j) /\ job' = job \ {j}
    /\ UNCHANGED <<queues, pendingJobs, overdue, replayed>>

\* createTaskWithTimeout rejects after three minutes: the next job may start
JobTimesOut ==
    /\ Fault
    /\ job # {}
    /\ overdue' = overdue \cup job
    /\ job' = {}
    /\ exposed' = [m \in Messages |->
         exposed[m] + Cardinality({j \in job : Message(j.env) = m})]
    /\ UNCHANGED <<unprocessed, queues, pendingJobs, replayed, stored, consumed, erred, lost>>

OverdueJob ==
    \E j \in overdue :
        /\ \/ /\ handleMessageJob(j)
              /\ overdue' = (overdue \ {j}) \cup {[j EXCEPT !.phase = "stored"]}
           \/ InvalidUpdate(j) /\ overdue' = overdue \ {j}
           \/ confirm(j) /\ overdue' = overdue \ {j}
           \/ JobFails(j) /\ overdue' = overdue \ {j}
        /\ UNCHANGED <<queues, pendingJobs, job, replayed>>

-----------------------------------------------------------------------------

ReceiverNext ==
    \/ addToCache
    \/ addToCacheFails
    \/ queueAllCached
    \/ queueSwarmEnvelope
    \/ LateTask
    \/ StartJob
    \/ DuplicateCheckFails
    \/ RunJob
    \/ JobTimesOut
    \/ OverdueJob

\* The process ends.  Envelopes with no row yet are gone, and those that are
\* never given one.
EndOfReceiver(rowless) ==
    /\ adding' = <<>> /\ envelopeQueue' = <<>> /\ late' = {}
    /\ pendingJobs' = <<>> /\ job' = {} /\ overdue' = {}
    /\ replayed' = FALSE
    /\ lost' = lost \cup MessagesOf(ToSet(adding) \cup rowless)
    /\ UNCHANGED <<unprocessed, stored, consumed, erred, exposed>>

\* Fair: the event loop goes on, and a promise of the database is settled.
ReceiverFairness ==
    /\ WF_receiverVars(addToCache)
    /\ WF_receiverVars(queueAllCached)
    /\ WF_receiverVars(queueSwarmEnvelope)
    /\ WF_receiverVars(LateTask)
    /\ WF_receiverVars(StartJob)
    /\ WF_receiverVars(RunJob)
    /\ WF_receiverVars(OverdueJob)

-----------------------------------------------------------------------------
(* Properties *)

\* A message has one row of "messages", whatever polls overlap, rows are queued
\* twice and processes end between the commit and the confirm (queuedJob.ts,
\* isSwarmMessageDuplicate); one more only for a check that failed or a job
\* that outlived its three minutes.
StoredOnce == \A m \in Messages : stored[m] <= 1 + exposed[m]

\* A row of the cache is waiting for something: an envelope in memory, the
\* queueAllCached of this process, or the next process after an error.  A row
\* that nothing will delete would be handled again at every start.
RowIsAwaited ==
    \A i \in DOMAIN unprocessed :
        \/ unprocessed[i].env \in InMemory
        \/ Message(unprocessed[i].env) \in erred
        \/ ~replayed

-----------------------------------------------------------------------------
(* The inductive invariant: what makes the properties hold *)

\* the messages that had an outcome
Concluded == {m \in Messages : stored[m] > 0} \cup consumed \cup lost \cup erred

\* the jobs among js that will commit a row of m, unless they fail
Checked(m, js) == {j \in js : j.phase = "checked" /\ Message(j.env) = m}

\* the envelopes whose message this process may yet conclude
Waiting ==
    ToSet(envelopeQueue) \cup late \cup ToSet(pendingJobs)
        \cup {j.env : j \in {k \in Running : k.phase = "checked"}}

\* the envelopes whose message will be concluded, by this process or the next
Entrusted == ToSet(adding) \cup Waiting \cup Rows

\* Every commit to come is paid for: by the check of the one job that runs, or
\* by a job that was let past its time or its check.
CommitInv ==
    /\ IsFiniteSet(overdue)
    /\ \A i, j \in job : i = j
    /\ \A m \in Messages :
         /\ Cardinality(Checked(m, overdue)) <= exposed[m]
         /\ stored[m] + Cardinality(Checked(m, overdue)) + Cardinality(Checked(m, job))
              <= 1 + exposed[m]

\* RowIsAwaited, with no help from an envelope that is only being added
AwaitInv == \A env \in Rows : env \in Handed \/ Message(env) \in erred \/ ~replayed
=============================================================================
