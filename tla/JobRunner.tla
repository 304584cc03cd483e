----------------------------- MODULE JobRunner -----------------------------
(***************************************************************************)
(* One PersistedJobRunner (session/utils/job_runners/JobRunner.ts), the    *)
(* PersistedJob objects it holds (PersistedJob.ts) and the database row    *)
(* "jobRunner-<type>" it saves them in.                                    *)
(*                                                                         *)
(* Everything between two awaits of the code is one action.  What can come *)
(* between two awaits is: another job's result, a timeout, a tick of the   *)
(* interval timer, an addJob, the completion of a database write, a stop,  *)
(* the end of the process.  Database writes go through one IPC channel and *)
(* are applied in the order they were issued.                              *)
(***************************************************************************)
EXTENDS Integers, FiniteSets, Sequences, SequencesExt

CONSTANTS
    Job,              \* the job objects callers may hand to addJob
    Identifier,       \* persistedData.identifier values
    IdOf,             \* [Job -> Identifier]
    Subject,          \* what addJobCheck compares: [Job -> set of things]
    WorkerCount,      \* 1..4, constructor argument
    MaxAttempts,      \* persistedData.maxAttempts
    Delay,            \* persistedData.delayBetweenRetries
    Restorable,       \* TRUE iff persistedJobFromData knows this job type
    MaxTime,          \* bound: the clock stops here
    MaxCrashes,       \* bound: restarts of the process
    MaxWriteFailures  \* bound: database writes that are rejected

\* The constructor of PersistedJobRunner refuses a workerCount outside of 1..4
\* and the one of PersistedJob a maxAttempts below 1 or a delay of 0.
ASSUME JobRunnerAssumption ==
    /\ IsFiniteSet(Job)
    /\ IdOf \in [Job -> Identifier]
    /\ WorkerCount \in 1..4
    /\ MaxAttempts \in Nat \ {0}
    /\ Delay \in Nat \ {0}
    /\ Restorable \in BOOLEAN
    /\ MaxTime \in Nat
    /\ MaxCrashes \in Nat
    /\ MaxWriteFailures \in Nat

VARIABLES
    isInit,          \* the job list was loaded from the database
    ticking,         \* planNextJobTick is not null
    jobsScheduled,   \* the array of jobs, sorted by nextAttemptTimestamp
    jobData,         \* currentRetry and nextAttemptTimestamp of each job object
    pc,              \* where runNextJob is for a job: in its race, in its finally
    runningPromise,  \* null, pending, or rejected and never reset
    disk,            \* the saved row
    writes,          \* writeJobsToDB calls whose reply has not come yet
    now,             \* Date.now()
    \* What follows is history: the program does not keep it.
    added,           \* jobs handed to addJob and not refused
    acked,           \* jobs for which addJob resolved to 'job_added'
    outcome,         \* why the runner dropped a job, or "open"
    starts,          \* how often the runner started a job
    crashes,
    writeFailures

memory == <<isInit, ticking, jobsScheduled, jobData, pc, runningPromise, writes>>
history == <<added, acked, outcome, starts, crashes, writeFailures>>
vars == <<memory, disk, now, history>>

\* seeded fault: counts the tries from -1
Fresh_minusOne == [retry |-> -1, next |-> 0]

Fresh == [retry |-> 0, next |-> 0]

currentJobs == {j \in Job : pc[j] # "idle"}

Scheduled == ToSet(jobsScheduled)

OnDisk == {disk[i].job : i \in DOMAIN disk}

-----------------------------------------------------------------------------
(* Helpers on the job list. *)

\* serializeJob of every scheduled job
getScheduledJobs(list, data) ==
    [i \in DOMAIN list |->
        [job |-> list[i], retry |-> data[list[i]].retry, next |-> data[list[i]].next]]

\* jobsScheduled.push(job) and the stable sort: behind every job that is not later
Pushed(list, data, j, new) ==
    \E i \in 1..Len(list) + 1 :
        /\ \A p \in 1..i - 1 : data[list[p]].next <= data[j].next
        /\ \A p \in i..Len(list) : data[list[p]].next > data[j].next
        /\ new = InsertAt(list, i, j)

\* the stable sort once the timestamp of the job at position k has grown
Resorted(list, data, k, new) ==
    LET rest == RemoveAt(list, k) IN
    \E i \in k..Len(list) :
        /\ \A p \in k..i - 1 : data[rest[p]].next < data[list[k]].next
        /\ \A p \in i..Len(rest) : data[rest[p]].next >= data[list[k]].next
        /\ new = InsertAt(rest, i, list[k])

\* seeded fault: findLastIndex
FirstWith_last(list, id) ==
    {i \in DOMAIN list :
        IdOf[list[i]] = id /\ \A p \in i + 1..Len(list) : IdOf[list[p]] # id}

\* findIndex by identifier
FirstWith(list, id) ==
    {i \in DOMAIN list : IdOf[list[i]] = id /\ \A p \in 1..i - 1 : IdOf[list[p]] # id}

deleteJobsByIdentifier(list, id, new) ==
    \/ \E i \in FirstWith(list, id) : new = RemoveAt(list, i)
    \/ FirstWith(list, id) = {} /\ new = list

\* getJobsScheduledButNotRunning: "running" is a matter of identifiers
NotRunning(j) == \A r \in currentJobs : IdOf[r] # IdOf[j]

getJobsScheduledButNotRunning == {j \in Scheduled : NotRunning(j)}

-----------------------------------------------------------------------------
(* planNextJobs and runNextJob up to its await. *)

\* seeded fault: "running" compares the job objects
Startable_byReference(busy) ==
    {i \in DOMAIN jobsScheduled :
        jobsScheduled[i] \notin busy /\ jobData[jobsScheduled[i]].next <= now}

\* The positions a run of runNextJob calls could take, one after the other, when
\* the jobs of busy are running: not running, due, and first of their identifier.
Startable(busy) ==
    {i \in DOMAIN jobsScheduled :
        /\ \A r \in busy : IdOf[r] # IdOf[jobsScheduled[i]]
        /\ jobData[jobsScheduled[i]].next <= now
        /\ i \in FirstWith(jobsScheduled, IdOf[jobsScheduled[i]])}

\* seeded fault: rounds down
StartsPerCall_down(busy) == (WorkerCount - Cardinality(busy)) \div 2

\* The loop compares its index with a bound that shrinks as jobs start, so that
\* one call fills half of the free workers, rounded up.
StartsPerCall(busy) == (WorkerCount - Cardinality(busy) + 1) \div 2

ToStart(busy) ==
    {jobsScheduled[i] : i \in {k \in Startable(busy) :
        Cardinality({p \in Startable(busy) : p < k}) < StartsPerCall(busy)}}

\* runJob: joins the promise of an earlier try that was not reset
RunJob(S) ==
    runningPromise' = [j \in Job |->
        IF j \in S /\ runningPromise[j] = "null" THEN "pending" ELSE runningPromise[j]]

\* planNextJobs when runNextJob's calls that go on are where at says
planNextJobs(at) ==
    LET S == ToStart({j \in Job : at[j] # "idle"}) IN
    /\ pc' = [j \in Job |-> IF j \in S THEN "racing" ELSE at[j]]
    /\ RunJob(S)
    /\ starts' = [j \in Job |-> IF j \in S THEN starts[j] + 1 ELSE starts[j]]

\* seeded fault: serializes the list before it is changed
writeJobsToDB_early(by, step) ==
    writes' = Append(writes,
        [by |-> by, step |-> step, jobs |-> getScheduledJobs(jobsScheduled, jobData)])

writeJobsToDB(by, step) ==
    writes' = Append(writes,
        [by |-> by, step |-> step, jobs |-> getScheduledJobs(jobsScheduled', jobData')])

-----------------------------------------------------------------------------
Init ==
    /\ isInit = FALSE
    /\ ticking = FALSE
    /\ jobsScheduled = <<>>
    /\ jobData = [j \in Job |-> Fresh]
    /\ pc = [j \in Job |-> "idle"]
    /\ runningPromise = [j \in Job |-> "null"]
    /\ disk = <<>>
    /\ writes = <<>>
    /\ now = 0
    /\ added = {}
    /\ acked = {}
    /\ outcome = [j \in Job |-> "open"]
    /\ starts = [j \in Job |-> 0]
    /\ crashes = 0
    /\ writeFailures = 0

\* persistedJobFromData for every saved entry; an unknown type is dropped
Restored == IF Restorable THEN disk ELSE <<>>

loadJobsFromDb ==
    /\ ~isInit
    /\ isInit' = TRUE
    /\ jobsScheduled' = [i \in DOMAIN Restored |-> Restored[i].job]
    /\ jobData' = [j \in Job |->
        IF \E i \in DOMAIN Restored : Restored[i].job = j
        THEN LET e == CHOOSE e \in ToSet(Restored) : e.job = j
             IN  [retry |-> e.retry, next |-> e.next]
        ELSE Fresh]
    /\ UNCHANGED <<ticking, pc, runningPromise, writes, disk, now, history>>

\* called by main_renderer.tsx once the jobs are loaded
startProcessing ==
    /\ isInit
    /\ ~ticking
    /\ ticking' = TRUE
    /\ planNextJobs(pc)
    /\ UNCHANGED <<isInit, jobsScheduled, jobData, writes, disk, now, added, acked,
                   outcome, crashes, writeFailures>>

\* the interval timer
Tick ==
    /\ isInit
    /\ ticking
    /\ planNextJobs(pc)
    /\ UNCHANGED <<isInit, ticking, jobsScheduled, jobData, writes, disk, now, added,
                   acked, outcome, crashes, writeFailures>>

\* The part of stopAndWaitCurrentJobs that changes something.
stopAndWaitCurrentJobs ==
    /\ ticking
    /\ ticking' = FALSE
    /\ UNCHANGED <<isInit, jobsScheduled, jobData, pc, runningPromise, writes, disk,
                   now, history>>

\* addJobCheck: everything the job is about is already planned
AlreadyPlanned(j) ==
    /\ getJobsScheduledButNotRunning # {}
    /\ Subject[j] \subseteq UNION {Subject[k] : k \in getJobsScheduledButNotRunning}

\* addJob up to the await of addJobUnchecked, for a job that is not refused
addJob(j, timestamp) ==
    /\ isInit
    /\ j \notin added
    /\ \A k \in getJobsScheduledButNotRunning : IdOf[k] # IdOf[j]
    /\ ~AlreadyPlanned(j)
    /\ added' = added \cup {j}
    /\ jobData' = [jobData EXCEPT ![j] = [retry |-> Fresh.retry, next |-> timestamp]]
    /\ Pushed(jobsScheduled, jobData', j, jobsScheduled')
    /\ writeJobsToDB(j, "add")
    /\ UNCHANGED <<isInit, ticking, pc, runningPromise, disk, now, acked, outcome,
                   starts, crashes, writeFailures>>

\* runNextJob once the race is over, up to the await of its finally
Success(j, result) == result = "Success"

\* seeded fault: one try too many
GiveUp_late(j, result) ==
    result = "PermanentFailure" \/ jobData[j].retry >= MaxAttempts

GiveUp(j, result) ==
    result = "PermanentFailure" \/ jobData[j].retry >= MaxAttempts - 1

Finish(j, result) ==
    /\ pc[j] = "racing"
    /\ \/ /\ Success(j, result) \/ GiveUp(j, result)
          /\ deleteJobsByIdentifier(jobsScheduled, IdOf[j], jobsScheduled')
          /\ outcome' = [outcome EXCEPT ![j] =
                IF Success(j, result) THEN "success"
                ELSE IF result = "PermanentFailure" THEN "permanent" ELSE "exhausted"]
          /\ UNCHANGED jobData
       \/ /\ ~Success(j, result) /\ ~GiveUp(j, result)
          /\ jobData' = [jobData EXCEPT
                ![j] = [retry |-> jobData[j].retry + 1, next |-> now + Delay]]
          /\ \/ \E k \in DOMAIN jobsScheduled :
                /\ jobsScheduled[k] = j
                /\ Resorted(jobsScheduled, jobData', k, jobsScheduled')
             \/ j \notin Scheduled /\ UNCHANGED jobsScheduled
          /\ UNCHANGED outcome
    /\ pc' = [pc EXCEPT ![j] = "saving"]
    /\ writeJobsToDB(j, "finish")
    /\ UNCHANGED <<isInit, ticking, disk, now, added, acked, starts, crashes,
                   writeFailures>>

Results == {"Success", "RetryJobIfPossible", "PermanentFailure", "throw"}

\* runJob's then/catch: only a run that did not throw resets the promise
PromiseAfter(result) == IF result = "throw" THEN "rejected" ELSE "null"

Settle(j, result) ==
    /\ runningPromise[j] = "pending"
    /\ pc[j] = "racing"
    /\ runningPromise' = [runningPromise EXCEPT ![j] = PromiseAfter(result)]
    /\ Finish(j, result)

\* the answer of a run whose race was lost to the timeout
SettleLate(j, result) ==
    /\ runningPromise[j] = "pending"
    /\ pc[j] # "racing"
    /\ runningPromise' = [runningPromise EXCEPT ![j] = PromiseAfter(result)]
    /\ UNCHANGED <<isInit, ticking, jobsScheduled, jobData, pc, writes, disk, now,
                   history>>

\* the retry of a run that threw awaits the promise of that run
SettleStale(j) ==
    /\ runningPromise[j] = "rejected"
    /\ Finish(j, "throw")
    /\ UNCHANGED runningPromise

Timeout(j) ==
    /\ runningPromise[j] = "pending"
    /\ Finish(j, "throw")
    /\ UNCHANGED runningPromise

\* The reply to the oldest write; what follows the await runs in the same turn.
WriteDone ==
    /\ writes # <<>>
    /\ disk' = Head(writes).jobs
    /\ writes' = Tail(writes)
    /\ \/ /\ Head(writes).step = "add"
          /\ acked' = acked \cup {Head(writes).by}
          /\ planNextJobs(pc)
       \/ /\ Head(writes).step = "finish"
          /\ planNextJobs([pc EXCEPT ![Head(writes).by] = "idle"])
          /\ UNCHANGED acked
    /\ UNCHANGED <<isInit, ticking, jobsScheduled, jobData, now, added, outcome,
                   crashes, writeFailures>>

\* The write throws: so does addJob, or the finally, whose job stays in currentJobs.
WriteFailed ==
    /\ writes # <<>>
    /\ writeFailures < MaxWriteFailures
    /\ writeFailures' = writeFailures + 1
    /\ writes' = Tail(writes)
    /\ UNCHANGED <<isInit, ticking, jobsScheduled, jobData, pc, runningPromise, disk,
                   now, added, acked, outcome, starts, crashes>>

\* The process ends; of the writes that were issued, the first n reached the row.
Crash ==
    /\ isInit
    /\ crashes < MaxCrashes
    /\ crashes' = crashes + 1
    /\ \E n \in 0..Len(writes) : disk' = IF n = 0 THEN disk ELSE writes[n].jobs
    /\ isInit' = FALSE
    /\ ticking' = FALSE
    /\ jobsScheduled' = <<>>
    /\ jobData' = [j \in Job |-> Fresh]
    /\ pc' = [j \in Job |-> "idle"]
    /\ runningPromise' = [j \in Job |-> "null"]
    /\ writes' = <<>>
    /\ UNCHANGED <<now, added, acked, outcome, starts, writeFailures>>

\* Time only matters through comparisons of timestamps.
TimePasses ==
    /\ now < MaxTime
    /\ now' = now + 1
    /\ UNCHANGED <<memory, disk, history>>

Next ==
    \/ loadJobsFromDb
    \/ startProcessing
    \/ Tick
    \/ stopAndWaitCurrentJobs
    \/ \E j \in Job, timestamp \in {now, now + Delay} : addJob(j, timestamp)
    \/ \E j \in Job, result \in Results : Settle(j, result)
    \/ \E j \in Job, result \in Results : SettleLate(j, result)
    \/ \E j \in Job : SettleStale(j)
    \/ \E j \in Job : Timeout(j)
    \/ WriteDone
    \/ WriteFailed
    \/ Crash
    \/ TimePasses

Spec == Init /\ [][Next]_vars

-----------------------------------------------------------------------------
(* Fairness: the interval timer of a started runner fires, Date.now() moves,   *)
(* timeout() settles every race and the database answers every call.  Nothing *)
(* is assumed about the answers of the jobs.                                  *)
Fairness ==
    /\ WF_vars(Tick)
    /\ WF_vars(TimePasses)
    /\ WF_vars(WriteDone)
    /\ \A j \in Job : WF_vars(Timeout(j)) /\ WF_vars(SettleStale(j))

FairSpec == Spec /\ Fairness

-----------------------------------------------------------------------------
(* Type invariant. *)

JobRecord == [retry : Nat, next : Nat]

Entry == [job : Job, retry : Nat, next : Nat]

Write == [by : Job, step : {"add", "finish"}, jobs : Seq(Entry)]

TypeOK ==
    /\ isInit \in BOOLEAN
    /\ ticking \in BOOLEAN
    /\ jobsScheduled \in Seq(Job)
    /\ jobData \in [Job -> JobRecord]
    /\ pc \in [Job -> {"idle", "racing", "saving"}]
    /\ runningPromise \in [Job -> {"null", "pending", "rejected"}]
    /\ disk \in Seq(Entry)
    /\ writes \in Seq(Write)
    /\ now \in Nat
    /\ added \subseteq Job
    /\ acked \subseteq Job
    /\ outcome \in [Job -> {"open", "success", "permanent", "exhausted"}]
    /\ starts \in [Job -> Nat]
    /\ crashes \in Nat
    /\ writeFailures \in Nat

-----------------------------------------------------------------------------
(* Safety. *)

\* Two workers never hold jobs of the same identifier at the same time, also
\* when a job was added again under that identifier while the first one ran.
OneWorkerPerIdentifier ==
    \A j, k \in currentJobs : IdOf[j] = IdOf[k] => j = k

\* deleteJobsByIdentifier takes out the job that ended, never another one of the
\* same identifier that still has to run: what leaves the list of a live process
\* succeeded, failed for good, or used up its attempts.
OnlyEndedJobsLeave ==
    [][isInit' => \A j \in Scheduled \ Scheduled' : outcome'[j] # "open"]_vars

\* Once addJob resolved to 'job_added', the job is in the database until the
\* runner has got a final result for it, whatever the order of the writes and
\* wherever the process ends.
AckedJobIsDurable ==
    Restorable => \A j \in acked : outcome[j] = "open" => j \in OnDisk

\* A job never starts more often than maxAttempts, but for one start per end of
\* the process, whose failed try was not counted in the database.
AttemptsBounded == \A j \in Job : starts[j] <= MaxAttempts + crashes

-----------------------------------------------------------------------------
(* The inductive invariant behind the safety properties. *)

ListedIn(entries) == {entries[i].job : i \in DOMAIN entries}

NoDuplicate(list) == \A p, q \in DOMAIN list : list[p] = list[q] => p = q

NoDuplicateEntry(entries) ==
    \A p, q \in DOMAIN entries : entries[p].job = entries[q].job => p = q

\* j is in the list, and findIndex of its identifier finds it
FoundFirst(list, j) ==
    \E i \in DOMAIN list :
        list[i] = j /\ \A p \in 1..i - 1 : IdOf[list[p]] # IdOf[j]

\* lists and snapshots hold added jobs, each once
ListInv ==
    /\ Scheduled \subseteq added /\ NoDuplicate(jobsScheduled)
    /\ ListedIn(disk) \subseteq added /\ NoDuplicateEntry(disk)
    /\ \A p \in DOMAIN writes :
        ListedIn(writes[p].jobs) \subseteq added /\ NoDuplicateEntry(writes[p].jobs)

\* a job in its race became due and is the one its end will delete
WorkerInv ==
    /\ \A j \in Job : pc[j] = "racing" =>
        isInit /\ FoundFirst(jobsScheduled, j) /\ jobData[j].next <= now
    /\ writes # <<>> \/ jobsScheduled # <<>> => isInit
    /\ OneWorkerPerIdentifier

\* an open job whose add was saved, or waits to be, is in every list saved since
SaveInv ==
    /\ \A j \in acked : outcome[j] = "open" =>
        /\ j \in ListedIn(disk)
        /\ isInit => j \in Scheduled
        /\ \A p \in DOMAIN writes : j \in ListedIn(writes[p].jobs)
    /\ \A p \in DOMAIN writes :
        writes[p].step = "add" /\ outcome[writes[p].by] = "open" =>
            /\ writes[p].by \in Scheduled
            /\ \A q \in DOMAIN writes : q >= p => writes[p].by \in ListedIn(writes[q].jobs)

RunnerInv == ListInv /\ WorkerInv /\ (Restorable => SaveInv)

Saved == {disk} \cup {writes[p].jobs : p \in DOMAIN writes}

RetryAtLeast(entries, j, n) ==
    \A i \in DOMAIN entries : entries[i].job = j => n <= entries[i].retry

\* nothing that is listed has used up its attempts
RetryInv ==
    /\ \A j \in Job : jobData[j].retry < MaxAttempts
    /\ \A s \in Saved : \A i \in DOMAIN s : s[i].retry < MaxAttempts

\* The starts of a job are counted by its currentRetry, but for the try under way
\* and one try per end of the process.  What is saved lags behind by one try at
\* most: a job is started again only after the write that follows its last try.
StartInv ==
    /\ \A j \in Job \ added : starts[j] = 0
    /\ \A j \in Scheduled :
        starts[j] <= jobData[j].retry + crashes + (IF pc[j] = "racing" THEN 1 ELSE 0)
    /\ \A s \in Saved, j \in Job :
        /\ RetryAtLeast(s, j, starts[j] - crashes - (IF isInit THEN 1 ELSE 0))
        /\ j \in Scheduled /\ pc[j] = "idle" => RetryAtLeast(s, j, starts[j] - crashes)

\* the write after a try: its job waits for that write alone
FinishInv ==
    \A p \in DOMAIN writes : writes[p].step = "finish" =>
        /\ pc[writes[p].by] = "saving"
        /\ \A q \in DOMAIN writes :
            /\ q >= p => RetryAtLeast(writes[q].jobs, writes[p].by,
                                     starts[writes[p].by] - crashes)
            /\ writes[q].step = "finish" /\ writes[q].by = writes[p].by => q = p

CountInv == AttemptsBounded /\ RetryInv /\ StartInv /\ FinishInv

-----------------------------------------------------------------------------
(* Liveness. *)

\* Under Fairness, a job of a started runner gets a final result (or the runner is
\* stopped, the process ends, or the model's clock runs out before the job is due).
EveryJobEnds ==
    \A j \in Job :
        (j \in Scheduled /\ ticking)
            ~> (j \notin Scheduled \/ ~ticking \/ jobData[j].next > MaxTime)
=============================================================================
