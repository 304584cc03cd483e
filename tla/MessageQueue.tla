---------------------------- MODULE MessageQueue ----------------------------
(***************************************************************************)
(* The durable way out of the application: MessageQueueCl                  *)
(* (session/sending/MessageQueue.ts), its PendingMessageCache and the      *)
(* JobQueue (session/utils/JobQueue.ts) of every destination.              *)
(*                                                                         *)
(* A message is a destination (device) and an identifier; its content is   *)
(* never looked at.  The cache is one array that the code only reads       *)
(* filtered by device, so it is a sequence of identifiers per device here. *)
(* An action is what runs between two awaits that leave the event loop:    *)
(* a database call, a send, a callback, the failure handler.  The awaits   *)
(* of promises already settled are inside an action, in particular the     *)
(* ones between remove() taking a message out of the cache and the         *)
(* finally of addWithId taking its job out of the map.                     *)
(***************************************************************************)
EXTENDS Integers, FiniteSets, Sequences, SequencesExt

CONSTANTS
    Device,            \* destinations: accounts and groups
    Identifier,        \* message.identifier; a synced copy has the one of its original
    Message,           \* the messages <<device, identifier>> callers pass to process
    WithCallback,      \* those passed with a sentCb
    MaxCalls,          \* bound: calls of process
    MaxCrashes,        \* bound: restarts of the process
    MaxWriteFailures,  \* bound: rejected writes of a cache that was loaded
    MaxLoadFailures    \* bound: rejected reads, or writes, of the load

ASSUME MessageQueueAssumption ==
    /\ Message \subseteq Device \X Identifier
    /\ WithCallback \subseteq Message
    /\ MaxCalls \in Nat
    /\ MaxCrashes \in Nat
    /\ MaxWriteFailures \in Nat
    /\ MaxLoadFailures \in Nat

VARIABLES
    loadPromise,    \* where loadFromDB is
    cache,          \* the identifiers pending for a device, oldest first
    callbacks,      \* the identifiers that have a callback
    disk,           \* the row 'pendingMessages'
    writes,         \* saveToDB calls whose reply has not come yet
    queue,          \* the chain of jobs of a device; the first one runs
    jobs,           \* JobQueue.jobs: the identifiers that have a job
    phase,          \* the await the first job of a device is in
    \* What follows is history: the program does not keep it.
    owed,           \* messages process() saved, no outcome of which is known
    accepted,       \* how often a message was put in the cache
    starts,         \* how often a send of it was started
    calls, crashes, writeFailures, loadFailures

memory == <<loadPromise, cache, callbacks, writes, queue, jobs, phase>>
counters == <<calls, crashes, writeFailures, loadFailures>>
vars == <<memory, disk, owed, accepted, starts, counters>>

NothingPending == [d \in Device |-> <<>>]

\* The elements of s at the indices of I, in the order of s: filter.
Where(s, I) ==
    LET Nth(k) == CHOOSE i \in I : Cardinality({j \in I : j <= i}) = k
    IN  [k \in 1..Cardinality(I) |-> s[Nth(k)]]

Loaded == loadPromise = "done"

-----------------------------------------------------------------------------
(* PendingMessageCache *)

find(d, id) == \E i \in DOMAIN cache[d] : cache[d][i] = id

\* seeded fault: saves what is pending for the device of the call
saveToDB_forDevice(by, pending) ==
    writes' = Append(writes, [by |-> by,
        pending |-> IF by[1] = "add" THEN pending[by[2]] ELSE pending])

saveToDB(by, pending) == writes' = Append(writes, [by |-> by, pending |-> pending])

\* seeded fault: filters on the identifier alone
Without_identifier(d, id) ==
    [e \in Device |-> Where(cache[e], {i \in DOMAIN cache[e] : cache[e][i] # id})]

Without(d, id) ==
    [cache EXCEPT ![d] = Where(cache[d], {i \in DOMAIN cache[d] : cache[d][i] # id})]

\* seeded faults: leaves the callback behind; the message stays in the cache
remove_keepsCallback(d, id, left) ==
    IF find(d, id)
    THEN /\ cache' = Without(d, id)
         /\ callbacks' = left
         /\ saveToDB(<<"remove">>, cache')
    ELSE callbacks' = left /\ UNCHANGED <<cache, writes>>

remove_never(d, id, left) == callbacks' = left /\ UNCHANGED <<cache, writes>>

\* remove(), when left are the callbacks the sender has left
remove(d, id, left) ==
    IF find(d, id)
    THEN /\ cache' = Without(d, id)
         /\ callbacks' = left \ {id}
         /\ saveToDB(<<"remove">>, cache')
    ELSE callbacks' = left /\ UNCHANGED <<cache, writes>>

\* add() of a message that is not in the cache, up to the await of its save
add(d, id) ==
    /\ ~find(d, id)
    /\ cache' = [cache EXCEPT ![d] = Append(@, id)]
    /\ callbacks' = callbacks \cup (IF <<d, id>> \in WithCallback THEN {id} ELSE {})
    /\ saveToDB(<<"add", d, id>>, cache')
    /\ accepted' = [accepted EXCEPT ![<<d, id>>] = @ + 1]

-----------------------------------------------------------------------------
(* JobQueue and processPending *)

\* seeded fault: only a job that has not started counts
Missing_running(d, pending) ==
    Where(pending, {i \in DOMAIN pending :
        \A p \in 2..Len(queue[d]) : queue[d][p] # pending[i]})

\* seeded fault: the newest message first
Missing_newestFirst(d, pending) ==
    Reverse(Where(pending, {i \in DOMAIN pending : pending[i] \notin jobs[d]}))

\* the pending messages of d that have no job, each of which gets one
Missing(d, pending) == Where(pending, {i \in DOMAIN pending : pending[i] \notin jobs[d]})

\* addWithId for every pending message; the first job of an idle chain runs at once
processPending(D, pending) ==
    LET new == [d \in Device |-> IF d \in D THEN Missing(d, pending[d]) ELSE <<>>] IN
    /\ queue' = [d \in Device |-> queue[d] \o new[d]]
    /\ jobs' = [d \in Device |-> jobs[d] \cup ToSet(new[d])]
    /\ phase' = [d \in Device |->
        IF queue[d] = <<>> /\ new[d] # <<>> THEN "sending" ELSE phase[d]]
    /\ starts' = [m \in Message |->
        IF queue[m[1]] = <<>> /\ new[m[1]] # <<>> /\ Head(new[m[1]]) = m[2]
        THEN starts[m] + 1 ELSE starts[m]]

\* The end of the job d runs: its finally, the finally of addWithId, the next job.
Finish(d, left) ==
    LET id == Head(queue[d])
        next == Tail(queue[d])
    IN  /\ remove(d, id, left)
        /\ queue' = [queue EXCEPT ![d] = next]
        /\ jobs' = [jobs EXCEPT ![d] = @ \ {id}]
        /\ phase' = [phase EXCEPT ![d] = IF next = <<>> THEN "idle" ELSE "sending"]
        /\ starts' = [m \in Message |->
            IF m[1] = d /\ next # <<>> /\ Head(next) = m[2]
            THEN starts[m] + 1 ELSE starts[m]]
        /\ owed' = owed \ {<<d, id>>}
        /\ UNCHANGED <<loadPromise, disk, accepted, counters>>

-----------------------------------------------------------------------------
Init ==
    /\ loadPromise = "reading"
    /\ cache = NothingPending
    /\ callbacks = {}
    /\ disk = NothingPending
    /\ writes = <<>>
    /\ queue = NothingPending
    /\ jobs = [d \in Device |-> {}]
    /\ phase = [d \in Device |-> "idle"]
    /\ owed = {}
    /\ accepted = [m \in Message |-> 0]
    /\ starts = [m \in Message |-> 0]
    /\ calls = 0
    /\ crashes = 0
    /\ writeFailures = 0
    /\ loadFailures = 0

\* getFromStorage up to its save: the constructor asks for the devices at once
getFromStorage ==
    /\ loadPromise = "reading"
    /\ loadPromise' = "saving"
    /\ saveToDB(<<"load">>, disk)
    /\ UNCHANGED <<cache, callbacks, disk, queue, jobs, phase, owed, accepted, starts,
                   counters>>

\* The read is rejected, and so is loadPromise: everything that awaits it throws.
LoadRejected ==
    /\ loadPromise = "reading"
    /\ loadFailures < MaxLoadFailures
    /\ loadFailures' = loadFailures + 1
    /\ loadPromise' = "rejected"
    /\ UNCHANGED <<cache, callbacks, disk, writes, queue, jobs, phase, owed, accepted,
                   starts, calls, crashes, writeFailures>>

\* process(), up to the await of the save or, for a message found in the cache, whole
process(d, id) ==
    /\ Loaded
    /\ calls < MaxCalls
    /\ calls' = calls + 1
    /\ \/ /\ add(d, id)
          /\ UNCHANGED <<queue, jobs, phase, starts>>
       \/ /\ find(d, id)
          /\ processPending({d}, cache)
          /\ UNCHANGED <<cache, callbacks, writes, accepted>>
    /\ UNCHANGED <<loadPromise, disk, owed, crashes, writeFailures, loadFailures>>

\* ActionsPanel asks for it once more, some time after the start
processAllPending ==
    /\ Loaded
    /\ processPending(Device, cache)
    /\ UNCHANGED <<loadPromise, cache, callbacks, disk, writes, owed, accepted, counters>>

\* the message of a save is still pending in the cache and in every later save
Standing(d, id) ==
    /\ find(d, id)
    /\ \A q \in 2..Len(writes) : id \in ToSet(writes[q].pending[d])

\* seeded fault: the constructor only loads
LoadSaved_idle ==
    /\ Head(writes).by = <<"load">>
    /\ loadPromise' = "done"
    /\ cache' = Head(writes).pending
    /\ UNCHANGED <<queue, jobs, phase, starts, owed>>

\* the load is over and processAllPending goes on
LoadSaved ==
    /\ Head(writes).by = <<"load">>
    /\ loadPromise' = "done"
    /\ cache' = Head(writes).pending
    /\ processPending(Device, Head(writes).pending)
    /\ UNCHANGED owed

AddSaved ==
    \E d \in Device, id \in Identifier :
        /\ Head(writes).by = <<"add", d, id>>
        /\ processPending({d}, cache)
        /\ owed' = IF Standing(d, id) THEN owed \cup {<<d, id>>} ELSE owed
        /\ UNCHANGED <<loadPromise, cache>>

RemoveSaved ==
    /\ Head(writes).by = <<"remove">>
    /\ UNCHANGED <<loadPromise, cache, queue, jobs, phase, starts, owed>>

\* the reply to the oldest write
WriteDone ==
    /\ writes # <<>>
    /\ disk' = Head(writes).pending
    /\ writes' = Tail(writes)
    /\ LoadSaved \/ AddSaved \/ RemoveSaved
    /\ UNCHANGED <<callbacks, accepted, counters>>

\* The oldest write is rejected.  An add throws, with the message in the cache; a
\* remove is not awaited.
WriteFailed ==
    /\ writes # <<>>
    /\ Head(writes).by # <<"load">>
    /\ writeFailures < MaxWriteFailures
    /\ writeFailures' = writeFailures + 1
    /\ writes' = Tail(writes)
    /\ UNCHANGED <<loadPromise, cache, callbacks, disk, queue, jobs, phase, owed,
                   accepted, starts, calls, crashes, loadFailures>>

\* getFromStorage catches the rejection of its save and answers with no message
LoadSaveFailed ==
    /\ writes # <<>>
    /\ Head(writes).by = <<"load">>
    /\ loadFailures < MaxLoadFailures
    /\ loadFailures' = loadFailures + 1
    /\ writes' = Tail(writes)
    /\ loadPromise' = "done"
    /\ UNCHANGED <<cache, callbacks, disk, queue, jobs, phase, owed, accepted, starts,
                   calls, crashes, writeFailures>>

-----------------------------------------------------------------------------
(* sendSingleMessageAndHandleResult of the job a device runs *)

\* sendSingleMessage resolved
SendSucceeds(d) ==
    /\ phase[d] = "sending"
    /\ \/ /\ Head(queue[d]) \in callbacks
          /\ phase' = [phase EXCEPT ![d] = "callback"]
          /\ UNCHANGED <<loadPromise, cache, callbacks, disk, writes, queue, jobs, owed,
                         accepted, starts, counters>>
       \/ /\ Head(queue[d]) \notin callbacks
          /\ Finish(d, callbacks)

\* sendSingleMessage used up its retries
SendThrows(d) ==
    /\ phase[d] = "sending"
    /\ phase' = [phase EXCEPT ![d] = "failing"]
    /\ UNCHANGED <<loadPromise, cache, callbacks, disk, writes, queue, jobs, owed,
                   accepted, starts, counters>>

CallbackResolves(d) ==
    /\ phase[d] = "callback"
    /\ Finish(d, callbacks \ {Head(queue[d])})

\* a callback that throws ends in the catch of the send
CallbackThrows(d) ==
    /\ phase[d] = "callback"
    /\ phase' = [phase EXCEPT ![d] = "failing"]
    /\ UNCHANGED <<loadPromise, cache, callbacks, disk, writes, queue, jobs, owed,
                   accepted, starts, counters>>

\* handleSwarmMessageSentFailure is over, or threw: the finally runs all the same
FailureHandled(d) ==
    /\ phase[d] = "failing"
    /\ Finish(d, callbacks)

\* The process ends and another one starts; of the writes that were issued, the
\* first n reached the row.
Crash ==
    /\ crashes < MaxCrashes
    /\ crashes' = crashes + 1
    /\ \E n \in 0..Len(writes) : disk' = IF n = 0 THEN disk ELSE writes[n].pending
    /\ loadPromise' = "reading"
    /\ cache' = NothingPending
    /\ callbacks' = {}
    /\ writes' = <<>>
    /\ queue' = NothingPending
    /\ jobs' = [d \in Device |-> {}]
    /\ phase' = [d \in Device |-> "idle"]
    /\ UNCHANGED <<owed, accepted, starts, calls, writeFailures, loadFailures>>

Next ==
    \/ getFromStorage
    \/ LoadRejected
    \/ \E m \in Message : process(m[1], m[2])
    \/ processAllPending
    \/ WriteDone
    \/ WriteFailed
    \/ LoadSaveFailed
    \/ \E d \in Device : SendSucceeds(d)
    \/ \E d \in Device : SendThrows(d)
    \/ \E d \in Device : CallbackResolves(d)
    \/ \E d \in Device : CallbackThrows(d)
    \/ \E d \in Device : FailureHandled(d)
    \/ Crash

Spec == Init /\ [][Next]_vars

(* Fairness: the database answers, sendSingleMessage settles (three attempts, each *)
(* with a timeout), and so do the callback and the failure handler.                *)
Fairness ==
    /\ WF_vars(getFromStorage)
    /\ WF_vars(WriteDone)
    /\ \A d \in Device :
        /\ WF_vars(SendSucceeds(d) \/ SendThrows(d))
        /\ WF_vars(CallbackResolves(d) \/ CallbackThrows(d))
        /\ WF_vars(FailureHandled(d))

FairSpec == Spec /\ Fairness

-----------------------------------------------------------------------------
(* Type invariant. *)

Pending == [Device -> Seq(Identifier)]

Caller == {<<"load">>, <<"remove">>} \cup {<<"add", m[1], m[2]>> : m \in Message}

Write == [by : Caller, pending : Pending]

TypeOK ==
    /\ loadPromise \in {"reading", "saving", "done", "rejected"}
    /\ cache \in Pending
    /\ callbacks \subseteq Identifier
    /\ disk \in Pending
    /\ writes \in Seq(Write)
    /\ queue \in Pending
    /\ jobs \in [Device -> SUBSET Identifier]
    /\ phase \in [Device -> {"idle", "sending", "callback", "failing"}]
    /\ owed \subseteq Message
    /\ accepted \in [Message -> Nat]
    /\ starts \in [Message -> Nat]
    /\ calls \in Nat /\ crashes \in Nat /\ writeFailures \in Nat /\ loadFailures \in Nat

-----------------------------------------------------------------------------
(* Safety. *)

\* The jobs of a device are its oldest pending messages, in the order they were
\* accepted, whoever asked for them: no message is sent before an older one, beside
\* itself, or after it left the cache.
JobsFollowCache == \A d \in Device : IsPrefix(queue[d], cache[d])

\* As long as no load failed: once process() saved a message, every state the row
\* goes through holds it until its send had an outcome, so that it is sent after the
\* end of the process.
SavedIsDurable ==
    loadFailures = 0 => \A m \in owed :
        /\ m[2] \in ToSet(disk[m[1]])
        /\ \A p \in DOMAIN writes : m[2] \in ToSet(writes[p].pending[m[1]])
        /\ Loaded => find(m[1], m[2])

\* A callback is dropped with the last message of its identifier, failed or not.
NoCallbackLeaks ==
    \A id \in callbacks : \E d \in Device : find(d, id)

\* A message is sent once for every time it was accepted, and once more for every
\* end of the process: a second call while it is pending starts nothing.
SendsBounded == \A m \in Message : starts[m] <= accepted[m] + crashes

-----------------------------------------------------------------------------
(* The inductive invariant behind the safety properties. *)

NoRepetition(pending) == \A d \in Device : IsInjective(pending[d])

\* a message is in a save once, and in the one of its add
WriteInv ==
    \A p \in DOMAIN writes :
        /\ NoRepetition(writes[p].pending)
        /\ \A d \in Device, id \in Identifier :
            writes[p].by = <<"add", d, id>> => id \in ToSet(writes[p].pending[d])

CacheInv ==
    /\ NoRepetition(cache)
    /\ NoRepetition(disk)
    /\ WriteInv

\* the load has the database for itself, and nothing is pending before its end
LoadInv ==
    /\ ~Loaded => cache = NothingPending /\ queue = NothingPending /\ callbacks = {}
    /\ loadPromise = "saving" =>
        Len(writes) = 1 /\ writes[1].by = <<"load">> /\ writes[1].pending = disk
    /\ loadPromise \in {"reading", "rejected"} => writes = <<>>
    /\ Loaded => \A p \in DOMAIN writes : writes[p].by # <<"load">>

JobInv ==
    \A d \in Device :
        /\ IsPrefix(queue[d], cache[d])
        /\ jobs[d] = ToSet(queue[d])
        /\ phase[d] = "idle" <=> queue[d] = <<>>

\* m will be started (again): it is pending, and not the message being sent
ToStart(m) ==
    IF Loaded THEN find(m[1], m[2]) /\ (queue[m[1]] = <<>> \/ Head(queue[m[1]]) # m[2])
              ELSE m[2] \in ToSet(disk[m[1]])

StartInv ==
    \A m \in Message :
        starts[m] + (IF ToStart(m) THEN 1 ELSE 0) <= accepted[m] + crashes

QueueInv ==
    /\ CacheInv
    /\ LoadInv
    /\ JobInv
    /\ StartInv
    /\ NoCallbackLeaks
    /\ SavedIsDurable

-----------------------------------------------------------------------------
(* Refinement. *)

\* Before the load is over, what is pending is what the row holds.
Promised == INSTANCE Outbox WITH
    pending <- IF Loaded THEN cache ELSE disk,
    promised <- owed,
    failed <- loadFailures > 0

\* The queue implements the outbox: between two ends of the process a destination's
\* messages leave in the order they were accepted, only the oldest one has an outcome,
\* and a restart forgets, or reorders, no message process() resolved for.
IsOutbox == Promised!Spec

\* id is in the save at place p and in all later ones
HeldSince(p, d, id) ==
    \A q \in DOMAIN writes : q >= p => id \in ToSet(writes[q].pending[d])

\* What the refinement needs: the last save is of the cache, and messages that stay
\* in every save from one on, or that are owed, are in its order, or the row's.
OrderInv == Loaded =>
    /\ writes # <<>> => writes[Len(writes)].pending = cache
    /\ \A p \in DOMAIN writes, d \in Device, a, b \in Identifier :
        HeldSince(p, d, a) /\ HeldSince(p, d, b) /\ Promised!Before(cache[d], a, b) =>
            Promised!Before(writes[p].pending[d], a, b)
    /\ loadFailures = 0 => \A m, n \in owed :
        m[1] = n[1] /\ Promised!Before(cache[m[1]], m[2], n[2]) =>
            Promised!Before(disk[m[1]], m[2], n[2])

-----------------------------------------------------------------------------
(* Liveness. *)

\* Under Fairness, every message process() saved gets an outcome, also when the
\* process ends in between and the message has to be loaded again (unless a load fails).
SavedIsSettled == \A m \in Message : (m \in owed) ~> (m \notin owed \/ loadFailures > 0)
=============================================================================
