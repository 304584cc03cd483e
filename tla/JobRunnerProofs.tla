-------------------------- MODULE JobRunnerProofs --------------------------
(***************************************************************************)
(* What holds of a PersistedJobRunner for every set of jobs, every number  *)
(* of workers and every number of restarts.                                *)
(***************************************************************************)
EXTENDS JobRunner, SequenceTheorems, FiniteSetTheorems, TLAPS

-----------------------------------------------------------------------------
(* The list: what inserting and removing does, position by position. *)

\* InsertAt, as addJobUnchecked's push and sort use it
LEMMA InsertAtFacts ==
    ASSUME NEW s \in Seq(Job), NEW i \in 1..Len(s) + 1, NEW e \in Job
    PROVE  /\ InsertAt(s, i, e) \in Seq(Job)
           /\ Len(InsertAt(s, i, e)) = Len(s) + 1
           /\ \A p \in 1..i - 1 : InsertAt(s, i, e)[p] = s[p]
           /\ InsertAt(s, i, e)[i] = e
           /\ \A p \in i + 1..Len(s) + 1 : InsertAt(s, i, e)[p] = s[p - 1]
<1> DEFINE pre == SubSeq(s, 1, i - 1)
           post == SubSeq(s, i, Len(s))
<1>1. /\ pre \in Seq(Job) /\ Len(pre) = i - 1
      /\ \A p \in 1..i - 1 : pre[p] = s[p]
    BY SubSeqProperties
<1>2. /\ post \in Seq(Job) /\ Len(post) = Len(s) - i + 1
      /\ \A p \in 1..Len(s) - i + 1 : post[p] = s[i + p - 1]
    BY SubSeqProperties
<1> HIDE DEF pre, post
<1>3. InsertAt(s, i, e) = (pre \o <<e>>) \o post
    BY DEF InsertAt, pre, post
<1> DEFINE front == pre \o <<e>>
<1>4. /\ front \in Seq(Job) /\ Len(front) = i
      /\ \A p \in 1..i : front[p] = IF p < i THEN s[p] ELSE e
  <2>1. <<e>> \in Seq(Job) /\ Len(<<e>>) = 1 /\ <<e>>[1] = e
    OBVIOUS
  <2>2. QED
    BY <1>1, <2>1, ConcatProperties
<1> HIDE DEF front
<1>5. /\ front \o post \in Seq(Job) /\ Len(front \o post) = Len(s) + 1
      /\ \A p \in 1..Len(s) + 1 :
            (front \o post)[p] = IF p <= i THEN front[p] ELSE post[p - i]
    BY <1>2, <1>4, ConcatProperties
<1>6. \A p \in 1..Len(s) + 1 : p > i => post[p - i] = s[p - 1]
    BY <1>2
<1>7. InsertAt(s, i, e) = front \o post
    BY <1>3 DEF front
<1>8. /\ \A p \in 1..i - 1 : (front \o post)[p] = s[p]
      /\ (front \o post)[i] = e
      /\ \A p \in i + 1..Len(s) + 1 : (front \o post)[p] = s[p - 1]
    BY <1>4, <1>5, <1>6
<1>9. QED
    BY <1>5, <1>7, <1>8

\* RemoveAt, as the splice of deleteJobsByIdentifier
LEMMA RemoveAtFacts ==
    ASSUME NEW s \in Seq(Job), NEW i \in 1..Len(s)
    PROVE  /\ RemoveAt(s, i) \in Seq(Job)
           /\ Len(RemoveAt(s, i)) = Len(s) - 1
           /\ \A p \in 1..Len(s) - 1 :
                RemoveAt(s, i)[p] = IF p < i THEN s[p] ELSE s[p + 1]
<1> DEFINE pre == SubSeq(s, 1, i - 1)
           post == SubSeq(s, i + 1, Len(s))
<1>1. /\ pre \in Seq(Job) /\ Len(pre) = i - 1
      /\ \A p \in 1..i - 1 : pre[p] = s[p]
    BY SubSeqProperties
<1>2. /\ post \in Seq(Job) /\ Len(post) = Len(s) - i
      /\ \A p \in 1..Len(s) - i : post[p] = s[i + p]
    BY SubSeqProperties
<1> HIDE DEF pre, post
<1>3. RemoveAt(s, i) = pre \o post
    BY DEF RemoveAt, pre, post
<1>4. /\ pre \o post \in Seq(Job) /\ Len(pre \o post) = Len(s) - 1
      /\ \A p \in 1..Len(s) - 1 :
            (pre \o post)[p] = IF p < i THEN pre[p] ELSE post[p - (i - 1)]
  <2>1. /\ pre \o post \in Seq(Job)
        /\ Len(pre \o post) = Len(pre) + Len(post)
        /\ \A p \in 1..Len(pre) + Len(post) :
            (pre \o post)[p] = IF p <= Len(pre) THEN pre[p] ELSE post[p - Len(pre)]
    BY <1>1, <1>2, ConcatProperties, Zenon
  <2>2. Len(pre) + Len(post) = Len(s) - 1
    BY <1>1, <1>2
  <2>3. \A p \in 1..Len(s) - 1 : p <= Len(pre) <=> p < i
    BY <1>1
  <2>4. QED
    BY <1>1, <2>1, <2>2, <2>3
<1>5. \A p \in 1..Len(s) - 1 : p >= i => post[p - (i - 1)] = s[p + 1]
    BY <1>2
<1>6. ASSUME NEW p \in 1..Len(s) - 1
      PROVE  (pre \o post)[p] = IF p < i THEN s[p] ELSE s[p + 1]
    BY <1>1, <1>4, <1>5
<1>7. QED
    BY <1>3, <1>4, <1>6

-----------------------------------------------------------------------------
(* Type correctness. *)

\* Where addJobUnchecked leaves the list
LEMMA PushedFacts ==
    ASSUME NEW list \in Seq(Job), NEW data, NEW j \in Job, NEW new,
           Pushed(list, data, j, new)
    PROVE  new \in Seq(Job)
<1>1. PICK i \in 1..Len(list) + 1 : new = InsertAt(list, i, j)
    BY DEF Pushed
<1>2. QED
    BY <1>1, InsertAtFacts

\* Where the rescheduling of the job at position k leaves the list
LEMMA ResortedFacts ==
    ASSUME NEW list \in Seq(Job), NEW data, NEW k \in DOMAIN list, NEW new,
           Resorted(list, data, k, new)
    PROVE  new \in Seq(Job)
<1> DEFINE rest == RemoveAt(list, k)
<1>1. k \in 1..Len(list) /\ list[k] \in Job
    OBVIOUS
<1>2. rest \in Seq(Job) /\ Len(rest) = Len(list) - 1
    BY <1>1, RemoveAtFacts
<1>3. PICK i \in k..Len(list) : new = InsertAt(rest, i, list[k])
    BY DEF Resorted
<1>4. i \in 1..Len(rest) + 1
    BY <1>1, <1>2
<1> HIDE DEF rest
<1>5. QED
    BY <1>1, <1>2, <1>3, <1>4, InsertAtFacts

\* Where deleteJobsByIdentifier leaves the list
LEMMA DeletedFacts ==
    ASSUME NEW list \in Seq(Job), NEW id, NEW new,
           deleteJobsByIdentifier(list, id, new)
    PROVE  new \in Seq(Job)
<1>1. CASE FirstWith(list, id) = {} /\ new = list
    BY <1>1
<1>2. CASE \E i \in FirstWith(list, id) : new = RemoveAt(list, i)
  <2>1. PICK i \in FirstWith(list, id) : new = RemoveAt(list, i)
    BY <1>2
  <2>2. i \in 1..Len(list)
    BY DEF FirstWith
  <2>3. QED
    BY <2>1, <2>2, RemoveAtFacts
<1>3. QED
    BY <1>1, <1>2 DEF deleteJobsByIdentifier

\* What writeJobsToDB serializes
LEMMA SnapshotType ==
    ASSUME NEW list \in Seq(Job), NEW data \in [Job -> JobRecord]
    PROVE  getScheduledJobs(list, data) \in Seq(Entry)
<1>1. \A i \in 1..Len(list) :
        [job |-> list[i], retry |-> data[list[i]].retry, next |-> data[list[i]].next]
            \in Entry
    BY DEF JobRecord, Entry
<1>2. QED
    BY <1>1 DEF getScheduledJobs

\* planNextJobs changes the types of nothing
LEMMA PlanType ==
    ASSUME TypeOK, NEW at \in [Job -> {"idle", "racing", "saving"}], planNextJobs(at)
    PROVE  /\ pc' \in [Job -> {"idle", "racing", "saving"}]
           /\ runningPromise' \in [Job -> {"null", "pending", "rejected"}]
           /\ starts' \in [Job -> Nat]
<1> DEFINE S == ToStart({j \in Job : at[j] # "idle"})
<1>1. /\ pc' = [j \in Job |-> IF j \in S THEN "racing" ELSE at[j]]
      /\ RunJob(S)
      /\ starts' = [j \in Job |-> IF j \in S THEN starts[j] + 1 ELSE starts[j]]
    BY DEF planNextJobs
<1> HIDE DEF S
<1>2. QED
    BY <1>1 DEF TypeOK, RunJob

LEMMA FinishType ==
    ASSUME TypeOK, NEW j \in Job, NEW result \in Results, Finish(j, result)
    PROVE  /\ jobsScheduled' \in Seq(Job)
           /\ jobData' \in [Job -> JobRecord]
           /\ pc' \in [Job -> {"idle", "racing", "saving"}]
           /\ writes' \in Seq(Write)
           /\ outcome' \in [Job -> {"open", "success", "permanent", "exhausted"}]
<1> USE DEF TypeOK
<1>1. pc' \in [Job -> {"idle", "racing", "saving"}]
    BY DEF Finish
<1>2. outcome' \in [Job -> {"open", "success", "permanent", "exhausted"}]
    BY DEF Finish
<1>3. jobData' \in [Job -> JobRecord]
  <2>1. now + Delay \in Nat /\ jobData[j].retry + 1 \in Nat
    BY JobRunnerAssumption DEF JobRecord
  <2>2. [retry |-> jobData[j].retry + 1, next |-> now + Delay] \in JobRecord
    BY <2>1 DEF JobRecord
  <2>3. \/ UNCHANGED jobData
        \/ jobData' = [jobData EXCEPT
                ![j] = [retry |-> jobData[j].retry + 1, next |-> now + Delay]]
    BY DEF Finish
  <2>4. QED
    BY <2>2, <2>3
<1>4. jobsScheduled' \in Seq(Job)
  <2>1. CASE deleteJobsByIdentifier(jobsScheduled, IdOf[j], jobsScheduled')
    BY <2>1, DeletedFacts
  <2>2. CASE \E k \in DOMAIN jobsScheduled :
                Resorted(jobsScheduled, jobData', k, jobsScheduled')
    BY <2>2, ResortedFacts
  <2>3. QED
    BY <2>1, <2>2 DEF Finish
<1>5. getScheduledJobs(jobsScheduled', jobData') \in Seq(Entry)
    BY <1>3, <1>4, SnapshotType
<1>6. writes' = Append(writes, [by |-> j, step |-> "finish",
                               jobs |-> getScheduledJobs(jobsScheduled', jobData')])
    BY DEF Finish, writeJobsToDB
<1>7. writes' \in Seq(Write)
    BY <1>5, <1>6 DEF Write
<1>8. QED
    BY <1>1, <1>2, <1>3, <1>4, <1>7

\* The type invariant of the runner, its jobs, its row and its pending writes.
THEOREM TypeCorrect == Spec => []TypeOK
<1>1. Init => TypeOK
  <2>1. Fresh \in JobRecord
    BY DEF Fresh, JobRecord
  <2> SUFFICES ASSUME Init
               PROVE  TypeOK
    OBVIOUS
  <2>2. jobsScheduled \in Seq(Job) /\ disk \in Seq(Entry) /\ writes \in Seq(Write)
    BY DEF Init
  <2>3. /\ jobData \in [Job -> JobRecord]
        /\ pc \in [Job -> {"idle", "racing", "saving"}]
        /\ runningPromise \in [Job -> {"null", "pending", "rejected"}]
        /\ outcome \in [Job -> {"open", "success", "permanent", "exhausted"}]
        /\ starts \in [Job -> Nat]
    BY <2>1 DEF Init
  <2>4. /\ isInit \in BOOLEAN /\ ticking \in BOOLEAN
        /\ now \in Nat /\ crashes \in Nat /\ writeFailures \in Nat
        /\ added \subseteq Job /\ acked \subseteq Job
    BY DEF Init
  <2>5. QED
    BY <2>2, <2>3, <2>4 DEF TypeOK
<1>2. TypeOK /\ [Next]_vars => TypeOK'
  <2> SUFFICES ASSUME TypeOK, [Next]_vars
               PROVE  TypeOK'
    OBVIOUS
  <2>1. CASE loadJobsFromDb
    <3>1. Restored \in Seq(Entry)
      BY DEF TypeOK, Restored
    <3>2. jobsScheduled' \in Seq(Job)
      <4>1. \A i \in 1..Len(Restored) : Restored[i].job \in Job
        <5>1. \A i \in 1..Len(Restored) : Restored[i] \in Entry
          BY <3>1
        <5>2. QED
          BY <5>1 DEF Entry
      <4>2. jobsScheduled' = [i \in 1..Len(Restored) |-> Restored[i].job]
        BY <2>1, <3>1 DEF loadJobsFromDb
      <4>3. QED
        BY <3>1, <4>1, <4>2
    <3>3. jobData' \in [Job -> JobRecord]
      <4> SUFFICES ASSUME NEW j \in Job
                   PROVE  (IF \E i \in DOMAIN Restored : Restored[i].job = j
                           THEN LET e == CHOOSE e \in ToSet(Restored) : e.job = j
                                IN  [retry |-> e.retry, next |-> e.next]
                           ELSE Fresh) \in JobRecord
        BY <2>1 DEF loadJobsFromDb
      <4>1. CASE \E i \in DOMAIN Restored : Restored[i].job = j
        <5> DEFINE e == CHOOSE e \in ToSet(Restored) : e.job = j
        <5>1. \E f \in ToSet(Restored) : f.job = j
          <6>1. PICK i \in DOMAIN Restored : Restored[i].job = j
            BY <4>1
          <6>2. Restored[i] \in ToSet(Restored)
            BY DEF ToSet
          <6>3. QED
            BY <6>1, <6>2
        <5>2. e \in ToSet(Restored)
          BY <5>1
        <5>3. e \in Entry
          <6>1. PICK i \in DOMAIN Restored : e = Restored[i]
            BY <5>2 DEF ToSet
          <6> HIDE DEF e
          <6>2. QED
            BY <3>1, <6>1
        <5>4. QED
          BY <4>1, <5>3 DEF Entry, JobRecord
      <4>2. CASE ~ \E i \in DOMAIN Restored : Restored[i].job = j
        BY <4>2 DEF Fresh, JobRecord
      <4>3. QED
        BY <4>1, <4>2
    <3>4. QED
      BY <2>1, <3>2, <3>3 DEF loadJobsFromDb, TypeOK, history
  <2>2. CASE startProcessing
    BY <2>2, PlanType DEF startProcessing, TypeOK
  <2>3. CASE Tick
    BY <2>3, PlanType DEF Tick, TypeOK
  <2>4. CASE stopAndWaitCurrentJobs
    BY <2>4 DEF stopAndWaitCurrentJobs, TypeOK, history
  <2>5. CASE \E j \in Job, timestamp \in {now, now + Delay} : addJob(j, timestamp)
    <3>1. PICK j \in Job, timestamp \in {now, now + Delay} : addJob(j, timestamp)
      BY <2>5
    <3>2. timestamp \in Nat
      BY JobRunnerAssumption DEF TypeOK
    <3>3. jobData' \in [Job -> JobRecord]
      BY <3>1, <3>2 DEF addJob, TypeOK, JobRecord, Fresh
    <3>4. jobsScheduled' \in Seq(Job)
      BY <3>1, PushedFacts DEF addJob, TypeOK
    <3>5. getScheduledJobs(jobsScheduled', jobData') \in Seq(Entry)
      BY <3>3, <3>4, SnapshotType
    <3>6. writes' \in Seq(Write)
      <4>1. writes' = Append(writes, [by |-> j, step |-> "add",
                                jobs |-> getScheduledJobs(jobsScheduled', jobData')])
        BY <3>1 DEF addJob, writeJobsToDB
      <4>2. QED
        BY <3>5, <4>1 DEF TypeOK, Write
    <3>7. QED
      BY <3>1, <3>3, <3>4, <3>6 DEF addJob, TypeOK
  <2>6. CASE \E j \in Job, result \in Results : Settle(j, result)
    <3>1. PICK j \in Job, result \in Results : Settle(j, result)
      BY <2>6
    <3>2. Finish(j, result)
      BY <3>1 DEF Settle
    <3>3. runningPromise' \in [Job -> {"null", "pending", "rejected"}]
      BY <3>1 DEF Settle, TypeOK, PromiseAfter
    <3>4. QED
      BY <3>2, <3>3, FinishType DEF Finish, TypeOK
  <2>7. CASE \E j \in Job, result \in Results : SettleLate(j, result)
    BY <2>7 DEF SettleLate, TypeOK, PromiseAfter, history
  <2>8. CASE \E j \in Job : SettleStale(j)
    <3>1. PICK j \in Job : SettleStale(j)
      BY <2>8
    <3>2. Finish(j, "throw") /\ "throw" \in Results
      BY <3>1 DEF SettleStale, Results
    <3>3. QED
      BY <3>1, <3>2, FinishType DEF SettleStale, Finish, TypeOK
  <2>9. CASE \E j \in Job : Timeout(j)
    <3>1. PICK j \in Job : Timeout(j)
      BY <2>9
    <3>2. Finish(j, "throw") /\ "throw" \in Results
      BY <3>1 DEF Timeout, Results
    <3>3. QED
      BY <3>1, <3>2, FinishType DEF Timeout, Finish, TypeOK
  <2>10. CASE WriteDone
    <3>1. Head(writes) \in Write /\ Tail(writes) \in Seq(Write)
      BY <2>10 DEF WriteDone, TypeOK
    <3>2. [pc EXCEPT ![Head(writes).by] = "idle"] \in [Job -> {"idle", "racing", "saving"}]
      BY DEF TypeOK
    <3>3. /\ pc' \in [Job -> {"idle", "racing", "saving"}]
          /\ runningPromise' \in [Job -> {"null", "pending", "rejected"}]
          /\ starts' \in [Job -> Nat]
      BY <2>10, <3>2, PlanType DEF WriteDone, TypeOK
    <3>4. QED
      BY <2>10, <3>1, <3>3 DEF WriteDone, TypeOK, Write
  <2>11. CASE WriteFailed
    <3>1. Tail(writes) \in Seq(Write)
      BY <2>11 DEF WriteFailed, TypeOK
    <3>2. QED
      BY <2>11, <3>1 DEF WriteFailed, TypeOK
  <2>12. CASE Crash
    <3>1. disk' \in Seq(Entry)
      <4>1. PICK n \in 0..Len(writes) : disk' = IF n = 0 THEN disk ELSE writes[n].jobs
        BY <2>12 DEF Crash
      <4>2. n # 0 => writes[n] \in Write
        BY DEF TypeOK
      <4>3. QED
        BY <4>1, <4>2 DEF TypeOK, Write
    <3>2. crashes' \in Nat /\ Fresh \in JobRecord
      BY <2>12 DEF Crash, TypeOK, Fresh, JobRecord
    <3>3. /\ isInit' = FALSE /\ ticking' = FALSE
          /\ jobsScheduled' = <<>> /\ writes' = <<>>
          /\ jobData' = [j \in Job |-> Fresh]
          /\ pc' = [j \in Job |-> "idle"]
          /\ runningPromise' = [j \in Job |-> "null"]
          /\ now' = now /\ added' = added /\ acked' = acked /\ outcome' = outcome
          /\ starts' = starts /\ writeFailures' = writeFailures
      BY <2>12 DEF Crash
    <3>4. /\ jobData' \in [Job -> JobRecord]
          /\ pc' \in [Job -> {"idle", "racing", "saving"}]
          /\ runningPromise' \in [Job -> {"null", "pending", "rejected"}]
      BY <3>2, <3>3
    <3>5. jobsScheduled' \in Seq(Job) /\ writes' \in Seq(Write)
      BY <3>3
    <3>6. isInit' \in BOOLEAN /\ ticking' \in BOOLEAN
      BY <3>3
    <3>7. QED
      BY <3>1, <3>2, <3>3, <3>4, <3>5, <3>6 DEF TypeOK
  <2>13. CASE TimePasses
    BY <2>13 DEF TimePasses, TypeOK, memory, history
  <2>14. CASE UNCHANGED vars
    BY <2>14 DEF vars, memory, history, TypeOK
  <2>15. QED
    BY <2>1, <2>2, <2>3, <2>4, <2>5, <2>6, <2>7, <2>8, <2>9, <2>10, <2>11, <2>12,
       <2>13, <2>14 DEF Next
<1>3. QED
    BY <1>1, <1>2, PTL DEF Spec

-----------------------------------------------------------------------------
(* What inserting and removing does to the jobs of the list and their order. *)

\* A job that is not in the list yet is inserted behind those found first.
LEMMA InsertKeeps ==
    ASSUME NEW list \in Seq(Job), NEW i \in 1..Len(list) + 1, NEW j \in Job,
           j \notin ToSet(list), NoDuplicate(list)
    PROVE  /\ ToSet(InsertAt(list, i, j)) = ToSet(list) \cup {j}
           /\ NoDuplicate(InsertAt(list, i, j))
           /\ \A k \in Job :
                /\ FoundFirst(list, k)
                /\ IdOf[k] # IdOf[j] \/ \A p \in i..Len(list) : list[p] # k
                => FoundFirst(InsertAt(list, i, j), k)
<1>0. /\ InsertAt(list, i, j) \in Seq(Job)
      /\ Len(InsertAt(list, i, j)) = Len(list) + 1
      /\ \A p \in 1..i - 1 : InsertAt(list, i, j)[p] = list[p]
      /\ InsertAt(list, i, j)[i] = j
      /\ \A p \in i + 1..Len(list) + 1 : InsertAt(list, i, j)[p] = list[p - 1]
    BY InsertAtFacts
<1> DEFINE new == InsertAt(list, i, j)
<1> HIDE DEF new
<1>1. /\ new \in Seq(Job) /\ Len(new) = Len(list) + 1
      /\ \A p \in 1..Len(list) + 1 :
            new[p] = IF p < i THEN list[p] ELSE IF p = i THEN j ELSE list[p - 1]
    BY <1>0 DEF new
<1>2. \A p \in 1..Len(list) : list[p] # j
    BY DEF ToSet
<1>3. ToSet(new) = ToSet(list) \cup {j}
  <2>1. \A x : x \in ToSet(list) => x \in ToSet(new)
    <3> SUFFICES ASSUME NEW p \in 1..Len(list)
                 PROVE  list[p] \in ToSet(new)
      BY DEF ToSet
    <3>1. CASE p < i
      <4>1. p \in DOMAIN new /\ new[p] = list[p]
        BY <1>1, <3>1
      <4>2. QED
        BY <4>1 DEF ToSet
    <3>2. CASE p >= i
      <4>1. p + 1 \in DOMAIN new /\ new[p + 1] = list[p]
        BY <1>1, <3>2
      <4>2. QED
        BY <4>1 DEF ToSet
    <3>3. QED
      BY <3>1, <3>2
  <2>2. j \in ToSet(new)
    <3>1. new[i] = j /\ i \in DOMAIN new
      BY <1>1
    <3>2. QED
      BY <3>1 DEF ToSet
  <2>3. \A x : x \in ToSet(new) => x \in ToSet(list) \cup {j}
    <3> SUFFICES ASSUME NEW p \in 1..Len(list) + 1
                 PROVE  new[p] \in ToSet(list) \cup {j}
      BY <1>1 DEF ToSet
    <3>1. CASE p < i
      BY <1>1, <3>1 DEF ToSet
    <3>2. CASE p = i
      BY <1>1, <3>2
    <3>3. CASE p > i
      <4>1. p - 1 \in DOMAIN list /\ new[p] = list[p - 1]
        BY <1>1, <3>3
      <4>2. QED
        BY <4>1 DEF ToSet
    <3>4. QED
      BY <3>1, <3>2, <3>3
  <2>4. QED
    BY <2>1, <2>2, <2>3
<1>4. NoDuplicate(new)
  <2> SUFFICES ASSUME NEW p \in 1..Len(list) + 1, NEW q \in 1..Len(list) + 1,
                      new[p] = new[q]
               PROVE  p = q
    BY <1>1 DEF NoDuplicate
  <2>1. \A x, y \in 1..Len(list) : list[x] = list[y] => x = y
    BY DEF NoDuplicate
  <2>2. \A x \in 1..Len(list) + 1 : x # i =>
            (IF x < i THEN x ELSE x - 1) \in 1..Len(list)
    OBVIOUS
  <2>3. \A x \in 1..Len(list) + 1 : x # i => new[x] # j
    BY <1>1, <1>2, <2>2
  <2>4. CASE p = i \/ q = i
    <3>1. new[i] = j
      BY <1>1
    <3>2. QED
      BY <2>3, <2>4, <3>1
  <2>5. CASE p # i /\ q # i
    <3>1. /\ new[p] = list[IF p < i THEN p ELSE p - 1]
          /\ new[q] = list[IF q < i THEN q ELSE q - 1]
      BY <1>1, <2>5
    <3>2. (IF p < i THEN p ELSE p - 1) = (IF q < i THEN q ELSE q - 1)
      BY <2>1, <2>2, <2>5, <3>1
    <3>3. QED
      BY <2>5, <3>2
  <2>6. QED
    BY <2>4, <2>5
<1>5. ASSUME NEW k \in Job, FoundFirst(list, k),
             IdOf[k] # IdOf[j] \/ \A p \in i..Len(list) : list[p] # k
      PROVE  FoundFirst(new, k)
  <2>1. PICK x \in 1..Len(list) :
            list[x] = k /\ \A p \in 1..x - 1 : IdOf[list[p]] # IdOf[k]
    BY <1>5 DEF FoundFirst
  <2>2. CASE x < i
    <3>1. new[x] = k /\ x \in DOMAIN new /\ \A p \in 1..x - 1 : new[p] = list[p]
      BY <1>1, <2>1, <2>2
    <3>2. QED
      BY <2>1, <3>1 DEF FoundFirst
  <2>3. CASE x >= i
    <3>1. IdOf[k] # IdOf[j]
      BY <1>5, <2>1, <2>3
    <3>2. new[x + 1] = k /\ x + 1 \in DOMAIN new
      BY <1>1, <2>1, <2>3
    <3>3. ASSUME NEW p \in 1..x
          PROVE  IdOf[new[p]] # IdOf[k]
      <4>1. CASE p < i
        <5>1. new[p] = list[p] /\ p \in 1..x - 1
          BY <1>1, <2>3, <4>1
        <5>2. QED
          BY <2>1, <5>1
      <4>2. CASE p = i
        BY <1>1, <3>1, <4>2
      <4>3. CASE p > i
        <5>1. new[p] = list[p - 1] /\ p - 1 \in 1..x - 1
          BY <1>1, <4>3
        <5>2. QED
          BY <2>1, <5>1
      <4>4. QED
        BY <4>1, <4>2, <4>3
    <3>4. QED
      BY <3>2, <3>3 DEF FoundFirst
  <2>4. QED
    BY <2>2, <2>3
<1>6. QED
    BY <1>3, <1>4, <1>5 DEF new

\* Removing a job leaves the others and does not change which are found first.
LEMMA RemoveKeeps ==
    ASSUME NEW list \in Seq(Job), NEW i \in 1..Len(list), NoDuplicate(list)
    PROVE  /\ ToSet(RemoveAt(list, i)) = ToSet(list) \ {list[i]}
           /\ NoDuplicate(RemoveAt(list, i))
           /\ \A k \in Job : FoundFirst(list, k) /\ k # list[i]
                => FoundFirst(RemoveAt(list, i), k)
<1> DEFINE new == RemoveAt(list, i)
<1>1. /\ new \in Seq(Job) /\ Len(new) = Len(list) - 1
      /\ \A p \in 1..Len(list) - 1 : new[p] = IF p < i THEN list[p] ELSE list[p + 1]
    BY RemoveAtFacts
<1> HIDE DEF new
<1>2. \A x, y \in 1..Len(list) : list[x] = list[y] => x = y
    BY DEF NoDuplicate
<1>3. ToSet(new) = ToSet(list) \ {list[i]}
  <2>1. \A x : x \in ToSet(list) \ {list[i]} => x \in ToSet(new)
    <3> SUFFICES ASSUME NEW p \in 1..Len(list), list[p] # list[i]
                 PROVE  list[p] \in ToSet(new)
      BY DEF ToSet
    <3>1. p < i \/ p > i
      OBVIOUS
    <3>2. CASE p < i
      <4>1. p \in DOMAIN new /\ new[p] = list[p]
        BY <1>1, <3>2
      <4>2. QED
        BY <4>1 DEF ToSet
    <3>3. CASE p > i
      <4>1. p - 1 \in DOMAIN new /\ new[p - 1] = list[p]
        BY <1>1, <3>3
      <4>2. QED
        BY <4>1 DEF ToSet
    <3>4. QED
      BY <3>1, <3>2, <3>3
  <2>2. \A x : x \in ToSet(new) => x \in ToSet(list) \ {list[i]}
    <3> SUFFICES ASSUME NEW p \in 1..Len(list) - 1
                 PROVE  new[p] \in ToSet(list) \ {list[i]}
      BY <1>1 DEF ToSet
    <3>1. CASE p < i
      <4>1. new[p] = list[p] /\ p \in DOMAIN list /\ p # i
        BY <1>1, <3>1
      <4>2. QED
        BY <1>2, <4>1 DEF ToSet
    <3>2. CASE p >= i
      <4>1. new[p] = list[p + 1] /\ p + 1 \in DOMAIN list /\ p + 1 # i
        BY <1>1, <3>2
      <4>2. QED
        BY <1>2, <4>1 DEF ToSet
    <3>3. QED
      BY <3>1, <3>2
  <2>3. QED
    BY <2>1, <2>2
<1>4. NoDuplicate(new)
    BY <1>1, <1>2 DEF NoDuplicate
<1>5. ASSUME NEW k \in Job, FoundFirst(list, k), k # list[i]
      PROVE  FoundFirst(new, k)
  <2>1. PICK x \in 1..Len(list) :
            list[x] = k /\ \A p \in 1..x - 1 : IdOf[list[p]] # IdOf[k]
    BY <1>5 DEF FoundFirst
  <2>2. x < i \/ x > i
    BY <1>5, <2>1
  <2>3. CASE x < i
    <3>1. x \in DOMAIN new /\ new[x] = k /\ \A p \in 1..x - 1 : new[p] = list[p]
      BY <1>1, <2>1, <2>3
    <3>2. QED
      BY <2>1, <3>1 DEF FoundFirst
  <2>4. CASE x > i
    <3>1. x - 1 \in DOMAIN new /\ new[x - 1] = k
      BY <1>1, <2>1, <2>4
    <3>2. \A p \in 1..x - 2 : IdOf[new[p]] # IdOf[k]
      BY <1>1, <2>1, <2>4
    <3>3. QED
      BY <3>1, <3>2 DEF FoundFirst
  <2>5. QED
    BY <2>2, <2>3, <2>4
<1>6. QED
    BY <1>3, <1>4, <1>5 DEF new

-----------------------------------------------------------------------------
(* What the operations do to the list, in terms of sets of jobs. *)

\* addJobUnchecked
LEMMA PushedKeeps ==
    ASSUME NEW list \in Seq(Job), NEW data \in [Job -> JobRecord], NEW j \in Job,
           j \notin ToSet(list), NoDuplicate(list), NEW new,
           Pushed(list, data, j, new)
    PROVE  /\ ToSet(new) = ToSet(list) \cup {j}
           /\ NoDuplicate(new)
           /\ \A k \in Job : FoundFirst(list, k) /\ data[k].next <= data[j].next
                => FoundFirst(new, k)
<1>1. PICK i \in 1..Len(list) + 1 :
        /\ \A p \in i..Len(list) : data[list[p]].next > data[j].next
        /\ new = InsertAt(list, i, j)
    BY DEF Pushed
<1>2. ASSUME NEW k \in Job, data[k].next <= data[j].next
      PROVE  \A p \in i..Len(list) : list[p] # k
    BY <1>1, <1>2 DEF JobRecord
<1>3. QED
    BY <1>1, <1>2, InsertKeeps

\* the rescheduling of a job
LEMMA ResortedKeeps ==
    ASSUME NEW list \in Seq(Job), NEW data, NEW k \in DOMAIN list,
           NoDuplicate(list), NEW new, Resorted(list, data, k, new)
    PROVE  /\ ToSet(new) = ToSet(list)
           /\ NoDuplicate(new)
           /\ \A m \in Job : FoundFirst(list, m) /\ IdOf[m] # IdOf[list[k]]
                => FoundFirst(new, m)
<1> DEFINE rest == RemoveAt(list, k)
           j == list[k]
<1>1. k \in 1..Len(list) /\ j \in Job /\ j \in ToSet(list)
    BY DEF ToSet
<1>2. rest \in Seq(Job) /\ Len(rest) = Len(list) - 1
    BY <1>1, RemoveAtFacts
<1>3. /\ ToSet(rest) = ToSet(list) \ {j}
      /\ NoDuplicate(rest)
      /\ \A m \in Job : FoundFirst(list, m) /\ m # j => FoundFirst(rest, m)
    BY <1>1, RemoveKeeps
<1>4. PICK i \in k..Len(list) : new = InsertAt(rest, i, j)
    BY DEF Resorted
<1>5. i \in 1..Len(rest) + 1
    BY <1>1, <1>2
<1> HIDE DEF rest, j
<1>6. /\ ToSet(new) = ToSet(rest) \cup {j}
      /\ NoDuplicate(new)
      /\ \A m \in Job : FoundFirst(rest, m) /\ IdOf[m] # IdOf[j] => FoundFirst(new, m)
    BY <1>1, <1>2, <1>3, <1>4, <1>5, InsertKeeps
<1>7. QED
    BY <1>1, <1>3, <1>6 DEF j

\* deleteJobsByIdentifier takes out the job that is found first.
LEMMA DeletedKeeps ==
    ASSUME NEW list \in Seq(Job), NEW j \in Job, NoDuplicate(list),
           FoundFirst(list, j), NEW new, deleteJobsByIdentifier(list, IdOf[j], new)
    PROVE  /\ ToSet(new) = ToSet(list) \ {j}
           /\ NoDuplicate(new)
           /\ \A k \in Job : FoundFirst(list, k) /\ k # j => FoundFirst(new, k)
<1>1. PICK x \in 1..Len(list) :
        list[x] = j /\ \A p \in 1..x - 1 : IdOf[list[p]] # IdOf[j]
    BY DEF FoundFirst
<1>2. FirstWith(list, IdOf[j]) # {}
    BY <1>1 DEF FirstWith
<1>3. PICK i \in FirstWith(list, IdOf[j]) : new = RemoveAt(list, i)
    BY <1>2 DEF deleteJobsByIdentifier
<1>4. i = x
  <2>1. i \in 1..Len(list) /\ IdOf[list[i]] = IdOf[j]
        /\ \A p \in 1..i - 1 : IdOf[list[p]] # IdOf[j]
    BY DEF FirstWith
  <2>2. ~(i < x) /\ ~(x < i)
    BY <1>1, <2>1
  <2>3. QED
    BY <2>1, <2>2
<1>5. QED
    BY <1>1, <1>3, <1>4, RemoveKeeps

\* writeJobsToDB saves every scheduled job, once.
LEMMA SnapshotFacts ==
    ASSUME NEW list \in Seq(Job), NEW data
    PROVE  /\ ListedIn(getScheduledJobs(list, data)) = ToSet(list)
           /\ NoDuplicate(list) => NoDuplicateEntry(getScheduledJobs(list, data))
<1> DEFINE snap == getScheduledJobs(list, data)
<1>1. DOMAIN snap = DOMAIN list /\ \A i \in DOMAIN list : snap[i].job = list[i]
    BY DEF getScheduledJobs
<1> HIDE DEF snap
<1>2. ListedIn(snap) = ToSet(list)
    BY <1>1 DEF ListedIn, ToSet
<1>3. NoDuplicate(list) => NoDuplicateEntry(snap)
    BY <1>1 DEF NoDuplicate, NoDuplicateEntry
<1>4. QED
    BY <1>2, <1>3 DEF snap

\* The end of a job takes that job out of the list, or leaves the list's jobs alone.
LEMMA FinishFacts ==
    ASSUME TypeOK, RunnerInv, NEW j \in Job, NEW result \in Results, Finish(j, result)
    PROVE  /\ j \in Scheduled
           /\ \/ /\ Scheduled' = Scheduled \ {j}
                 /\ outcome'[j] # "open"
                 /\ \A k \in Job \ {j} : outcome'[k] = outcome[k]
                 /\ UNCHANGED jobData
              \/ /\ Scheduled' = Scheduled
                 /\ outcome' = outcome
                 /\ \A k \in Job \ {j} : jobData'[k] = jobData[k]
           /\ NoDuplicate(jobsScheduled')
           /\ \A k \in Job : FoundFirst(jobsScheduled, k) /\ IdOf[k] # IdOf[j]
                => FoundFirst(jobsScheduled', k)
<1>1. pc[j] = "racing"
    BY DEF Finish
<1>2. FoundFirst(jobsScheduled, j) /\ NoDuplicate(jobsScheduled)
    BY <1>1 DEF RunnerInv, WorkerInv, ListInv
<1>3. jobsScheduled \in Seq(Job) /\ jobData \in [Job -> JobRecord]
      /\ outcome \in [Job -> {"open", "success", "permanent", "exhausted"}]
    BY DEF TypeOK
<1>4. j \in Scheduled
    BY <1>2 DEF FoundFirst, Scheduled, ToSet
<1>5. CASE /\ deleteJobsByIdentifier(jobsScheduled, IdOf[j], jobsScheduled')
           /\ outcome' = [outcome EXCEPT ![j] =
                IF Success(j, result) THEN "success"
                ELSE IF result = "PermanentFailure" THEN "permanent" ELSE "exhausted"]
           /\ UNCHANGED jobData
  <2>1. /\ ToSet(jobsScheduled') = ToSet(jobsScheduled) \ {j}
        /\ NoDuplicate(jobsScheduled')
        /\ \A k \in Job : FoundFirst(jobsScheduled, k) /\ k # j
            => FoundFirst(jobsScheduled', k)
    BY <1>2, <1>3, <1>5, DeletedKeeps
  <2>2. outcome'[j] # "open" /\ \A k \in Job \ {j} : outcome'[k] = outcome[k]
    BY <1>3, <1>5
  <2>3. QED
    BY <1>4, <1>5, <2>1, <2>2 DEF Scheduled
<1>6. CASE /\ jobData' = [jobData EXCEPT
                ![j] = [retry |-> jobData[j].retry + 1, next |-> now + Delay]]
           /\ \/ \E k \in DOMAIN jobsScheduled :
                /\ jobsScheduled[k] = j
                /\ Resorted(jobsScheduled, jobData', k, jobsScheduled')
              \/ j \notin Scheduled /\ UNCHANGED jobsScheduled
           /\ UNCHANGED outcome
  <2>1. PICK k \in DOMAIN jobsScheduled :
                /\ jobsScheduled[k] = j
                /\ Resorted(jobsScheduled, jobData', k, jobsScheduled')
    BY <1>4, <1>6
  <2>2. /\ ToSet(jobsScheduled') = ToSet(jobsScheduled)
        /\ NoDuplicate(jobsScheduled')
        /\ \A m \in Job : FoundFirst(jobsScheduled, m) /\ IdOf[m] # IdOf[j]
            => FoundFirst(jobsScheduled', m)
    BY <1>2, <1>3, <2>1, ResortedKeeps
  <2>3. \A m \in Job \ {j} : jobData'[m] = jobData[m]
    BY <1>3, <1>6
  <2>4. QED
    BY <1>4, <1>6, <2>2, <2>3 DEF Scheduled
<1>7. QED
    BY <1>5, <1>6 DEF Finish

\* planNextJobs starts due jobs, each the first of an identifier no worker holds.
LEMMA PlanFacts ==
    ASSUME TypeOK, NEW at \in [Job -> {"idle", "racing", "saving"}], planNextJobs(at),
           \A j, k \in Job : at[j] # "idle" /\ at[k] # "idle" /\ IdOf[j] = IdOf[k]
                => j = k
    PROVE  /\ \A j \in Job : pc'[j] = "racing" =>
                \/ at[j] = "racing"
                \/ FoundFirst(jobsScheduled, j) /\ jobData[j].next <= now
           /\ \A j, k \in Job : pc'[j] # "idle" /\ pc'[k] # "idle" /\ IdOf[j] = IdOf[k]
                => j = k
           /\ \A j \in Job : starts'[j] > starts[j] => j \in Scheduled
<1> DEFINE busy == {j \in Job : at[j] # "idle"}
           S == ToStart(busy)
<1>1. /\ pc' = [j \in Job |-> IF j \in S THEN "racing" ELSE at[j]]
      /\ starts' = [j \in Job |-> IF j \in S THEN starts[j] + 1 ELSE starts[j]]
    BY DEF planNextJobs
<1>2. \A j \in S : \E i \in 1..Len(jobsScheduled) :
        /\ jobsScheduled[i] = j
        /\ \A r \in busy : IdOf[r] # IdOf[j]
        /\ jobData[j].next <= now
        /\ \A p \in 1..i - 1 : IdOf[jobsScheduled[p]] # IdOf[j]
  <2> SUFFICES ASSUME NEW j \in S
               PROVE  \E i \in 1..Len(jobsScheduled) :
                        /\ jobsScheduled[i] = j
                        /\ \A r \in busy : IdOf[r] # IdOf[j]
                        /\ jobData[j].next <= now
                        /\ \A p \in 1..i - 1 : IdOf[jobsScheduled[p]] # IdOf[j]
    OBVIOUS
  <2>1. PICK i \in Startable(busy) : jobsScheduled[i] = j
    BY DEF ToStart
  <2> HIDE DEF busy, S
  <2>2. /\ i \in DOMAIN jobsScheduled
        /\ \A r \in busy : IdOf[r] # IdOf[jobsScheduled[i]]
        /\ jobData[jobsScheduled[i]].next <= now
        /\ \A p \in 1..i - 1 : IdOf[jobsScheduled[p]] # IdOf[jobsScheduled[i]]
    BY DEF Startable, FirstWith
  <2>3. DOMAIN jobsScheduled = 1..Len(jobsScheduled)
    BY DEF TypeOK
  <2>4. QED
    BY <2>1, <2>2, <2>3
<1> HIDE DEF S
<1>3. \A j \in S : FoundFirst(jobsScheduled, j) /\ jobData[j].next <= now
                   /\ j \in Scheduled
  <2>1. DOMAIN jobsScheduled = 1..Len(jobsScheduled)
    BY DEF TypeOK
  <2> HIDE DEF busy
  <2> SUFFICES ASSUME NEW j \in S
               PROVE  FoundFirst(jobsScheduled, j) /\ jobData[j].next <= now
                      /\ j \in Scheduled
    OBVIOUS
  <2>2. PICK i \in 1..Len(jobsScheduled) :
            /\ jobsScheduled[i] = j
            /\ jobData[j].next <= now
            /\ \A p \in 1..i - 1 : IdOf[jobsScheduled[p]] # IdOf[j]
    BY <1>2
  <2>3. FoundFirst(jobsScheduled, j)
    BY <2>1, <2>2 DEF FoundFirst
  <2>4. j \in Scheduled
    BY <2>1, <2>2 DEF Scheduled, ToSet
  <2>5. QED
    BY <2>2, <2>3, <2>4
<1>4. \A j, k \in S : IdOf[j] = IdOf[k] => j = k
  <2> SUFFICES ASSUME NEW j \in S, NEW k \in S, IdOf[j] = IdOf[k]
               PROVE  j = k
    OBVIOUS
  <2>1. PICK x \in 1..Len(jobsScheduled) :
            /\ jobsScheduled[x] = j
            /\ \A p \in 1..x - 1 : IdOf[jobsScheduled[p]] # IdOf[j]
    BY <1>2
  <2>2. PICK y \in 1..Len(jobsScheduled) :
            /\ jobsScheduled[y] = k
            /\ \A p \in 1..y - 1 : IdOf[jobsScheduled[p]] # IdOf[k]
    BY <1>2
  <2>3. ~(x < y) /\ ~(y < x) /\ x \in Int /\ y \in Int
    BY <2>1, <2>2 DEF TypeOK
  <2>4. QED
    BY <2>1, <2>2, <2>3
<1>5. \A j \in Job : pc'[j] = "racing" =>
        \/ at[j] = "racing"
        \/ FoundFirst(jobsScheduled, j) /\ jobData[j].next <= now
    BY <1>1, <1>3
<1>6. \A j, k \in Job : pc'[j] # "idle" /\ pc'[k] # "idle" /\ IdOf[j] = IdOf[k] => j = k
  <2> SUFFICES ASSUME NEW j \in Job, NEW k \in Job, pc'[j] # "idle", pc'[k] # "idle",
                      IdOf[j] = IdOf[k]
               PROVE  j = k
    OBVIOUS
  <2>1. (j \in S \/ j \in busy) /\ (k \in S \/ k \in busy)
    BY <1>1
  <2>2. \A m \in S, r \in busy : IdOf[r] # IdOf[m]
    BY <1>2
  <2>3. QED
    BY <1>4, <2>1, <2>2
<1>7. \A j \in Job : starts'[j] > starts[j] => j \in Scheduled
    BY <1>1, <1>3 DEF TypeOK
<1>8. QED
    BY <1>5, <1>6, <1>7

\* writeJobsToDB queues a write behind the others
LEMMA AppendFacts ==
    ASSUME NEW S, NEW s \in Seq(S), NEW e
    PROVE  /\ DOMAIN Append(s, e) = 1..Len(s) + 1
           /\ \A p \in 1..Len(s) : Append(s, e)[p] = s[p] /\ p \in DOMAIN s
           /\ Append(s, e)[Len(s) + 1] = e
    OBVIOUS

\* the oldest write leaves the queue
LEMMA TailFacts ==
    ASSUME NEW S, NEW s \in Seq(S), s # <<>>
    PROVE  /\ 1 \in DOMAIN s /\ Head(s) = s[1] /\ Head(s) \in S
           /\ \A p \in DOMAIN Tail(s) : Tail(s)[p] = s[p + 1] /\ p + 1 \in DOMAIN s
           /\ Tail(s) \in Seq(S)
    OBVIOUS

-----------------------------------------------------------------------------
(* The invariant is inductive. *)

LEMMA ListInit == Init => ListInv
<1> SUFFICES ASSUME Init
             PROVE  ListInv
    OBVIOUS
<1>1. DOMAIN jobsScheduled = {} /\ DOMAIN disk = {} /\ DOMAIN writes = {}
    BY DEF Init
<1>2. QED
    BY <1>1 DEF ListInv, ListedIn, Scheduled, ToSet, NoDuplicate, NoDuplicateEntry

LEMMA ListStep ==
    ASSUME TypeOK, RunnerInv, [Next]_vars
    PROVE  ListInv'
<1> USE DEF RunnerInv
<1>1. ASSUME NEW j \in Job, NEW step,
             writes' = Append(writes, [by |-> j, step |-> step,
                                jobs |-> getScheduledJobs(jobsScheduled', jobData')]),
             jobsScheduled' \in Seq(Job), NoDuplicate(jobsScheduled'),
             Scheduled' \subseteq added', added \subseteq added', disk' = disk
      PROVE  ListInv'
  <2> DEFINE snap == getScheduledJobs(jobsScheduled', jobData')
  <2>1. ListedIn(snap) \subseteq added' /\ NoDuplicateEntry(snap)
    BY <1>1, SnapshotFacts DEF Scheduled
  <2> HIDE DEF snap
  <2>2. ASSUME NEW p \in DOMAIN writes'
        PROVE  ListedIn(writes'[p].jobs) \subseteq added'
               /\ NoDuplicateEntry(writes'[p].jobs)
    <3>1. CASE p = Len(writes) + 1
      <4>1. writes'[p].jobs = snap
        BY <1>1, <3>1, AppendFacts DEF snap, TypeOK
      <4>2. QED
        BY <2>1, <4>1
    <3>2. CASE p # Len(writes) + 1
      <4>1. writes'[p] = writes[p] /\ p \in DOMAIN writes
        BY <1>1, <2>2, <3>2, AppendFacts DEF TypeOK
      <4>2. QED
        BY <1>1, <4>1 DEF ListInv
    <3>3. QED
      BY <3>1, <3>2
  <2>3. ListedIn(disk') \subseteq added' /\ NoDuplicateEntry(disk')
    BY <1>1 DEF ListInv
  <2>4. QED
    BY <1>1, <2>2, <2>3 DEF ListInv
<1>2. CASE UNCHANGED <<jobsScheduled, writes, disk, added>>
    BY <1>2 DEF ListInv, Scheduled
<1>3. ASSUME NEW j \in Job, NEW result \in Results, Finish(j, result)
      PROVE  ListInv'
  <2>1. jobsScheduled' \in Seq(Job)
    BY <1>3, FinishType
  <2>2. NoDuplicate(jobsScheduled') /\ Scheduled' \subseteq Scheduled
    BY <1>3, FinishFacts
  <2>3. QED
    BY <1>1, <1>3, <2>1, <2>2 DEF Finish, writeJobsToDB, ListInv
<1>4. CASE loadJobsFromDb
  <2>1. Restored \in Seq(Entry)
        /\ ListedIn(Restored) \subseteq added /\ NoDuplicateEntry(Restored)
    BY DEF TypeOK, Restored, ListInv, ListedIn, NoDuplicateEntry
  <2>2. DOMAIN jobsScheduled' = DOMAIN Restored
        /\ \A i \in DOMAIN Restored : jobsScheduled'[i] = Restored[i].job
    BY <1>4 DEF loadJobsFromDb
  <2>3. NoDuplicate(jobsScheduled')
    BY <2>1, <2>2 DEF NoDuplicate, NoDuplicateEntry
  <2>4. Scheduled' \subseteq added
    BY <2>1, <2>2 DEF Scheduled, ToSet, ListedIn
  <2>5. added' = added /\ disk' = disk /\ writes' = writes
    BY <1>4 DEF loadJobsFromDb, history
  <2>6. QED
    BY <2>3, <2>4, <2>5 DEF ListInv
<1>5. CASE \E j \in Job, timestamp \in {now, now + Delay} : addJob(j, timestamp)
  <2>1. PICK j \in Job, timestamp \in {now, now + Delay} : addJob(j, timestamp)
    BY <1>5
  <2>2. timestamp \in Nat
    BY JobRunnerAssumption DEF TypeOK
  <2>3. jobData' \in [Job -> JobRecord] /\ jobsScheduled \in Seq(Job)
    BY <2>1, <2>2 DEF addJob, TypeOK, JobRecord, Fresh
  <2>4. j \notin ToSet(jobsScheduled) /\ NoDuplicate(jobsScheduled)
    BY <2>1 DEF addJob, ListInv, Scheduled
  <2>5. Pushed(jobsScheduled, jobData', j, jobsScheduled')
    BY <2>1 DEF addJob
  <2>6. Scheduled' = Scheduled \cup {j} /\ NoDuplicate(jobsScheduled')
    BY <2>3, <2>4, <2>5, PushedKeeps DEF Scheduled
  <2>7. jobsScheduled' \in Seq(Job)
    BY <2>3, <2>5, PushedFacts
  <2>8. QED
    BY <1>1, <2>1, <2>6, <2>7 DEF addJob, writeJobsToDB, ListInv
<1>6. CASE WriteDone \/ WriteFailed
  <2>1. /\ writes # <<>> /\ writes' = Tail(writes)
        /\ disk' = disk \/ disk' = Head(writes).jobs
        /\ jobsScheduled' = jobsScheduled /\ added' = added
    BY <1>6 DEF WriteDone, WriteFailed
  <2>2. /\ 1 \in DOMAIN writes /\ Head(writes) = writes[1]
        /\ \A p \in DOMAIN writes' : writes'[p] = writes[p + 1] /\ p + 1 \in DOMAIN writes
    BY <2>1, TailFacts DEF TypeOK
  <2>3. ListedIn(disk') \subseteq added /\ NoDuplicateEntry(disk')
    BY <2>1, <2>2 DEF ListInv
  <2>4. QED
    BY <2>1, <2>2, <2>3 DEF ListInv, Scheduled
<1>7. CASE Crash
  <2>1. jobsScheduled' = <<>> /\ writes' = <<>> /\ added' = added
    BY <1>7 DEF Crash
  <2>2. PICK n \in 0..Len(writes) : disk' = IF n = 0 THEN disk ELSE writes[n].jobs
    BY <1>7 DEF Crash
  <2>3. n # 0 => n \in DOMAIN writes
    BY DEF TypeOK
  <2>4. ListedIn(disk') \subseteq added /\ NoDuplicateEntry(disk')
    BY <2>2, <2>3 DEF ListInv
  <2>5. DOMAIN jobsScheduled' = {} /\ DOMAIN writes' = {}
    BY <2>1
  <2>6. NoDuplicate(jobsScheduled') /\ Scheduled' = {}
    BY <2>5 DEF NoDuplicate, Scheduled, ToSet
  <2>7. QED
    BY <2>1, <2>4, <2>5, <2>6 DEF ListInv
<1>8. CASE \/ startProcessing \/ Tick \/ stopAndWaitCurrentJobs \/ TimePasses
           \/ \E j \in Job, result \in Results : SettleLate(j, result)
           \/ UNCHANGED vars
    BY <1>2, <1>8 DEF startProcessing, Tick, stopAndWaitCurrentJobs, TimePasses,
       SettleLate, vars, memory, history
<1>9. CASE \/ \E j \in Job, result \in Results : Settle(j, result)
           \/ \E j \in Job : SettleStale(j) \/ Timeout(j)
    BY <1>3, <1>9 DEF Settle, SettleStale, Timeout, Results
<1>10. QED
    BY <1>4, <1>5, <1>6, <1>7, <1>8, <1>9 DEF Next

LEMMA WorkerInit == Init => WorkerInv
    BY DEF Init, WorkerInv, OneWorkerPerIdentifier, currentJobs

LEMMA WorkerStep ==
    ASSUME TypeOK, RunnerInv, [Next]_vars
    PROVE  WorkerInv'
<1> USE DEF RunnerInv
<1>1. CASE UNCHANGED <<isInit, jobsScheduled, jobData, pc>>
           /\ (writes' # <<>> => writes # <<>>) /\ now' >= now /\ now' \in Nat
  <2>1. currentJobs' = currentJobs
        /\ (writes' # <<>> \/ jobsScheduled' # <<>> => isInit')
    BY <1>1 DEF currentJobs, WorkerInv
  <2>2. \A j \in Job : jobData[j].next \in Nat
    BY DEF TypeOK, JobRecord
  <2>3. \A j \in Job : pc'[j] = "racing" =>
            isInit' /\ FoundFirst(jobsScheduled', j) /\ jobData'[j].next <= now'
    BY <1>1, <2>2 DEF WorkerInv, TypeOK
  <2>4. OneWorkerPerIdentifier'
    BY <2>1 DEF WorkerInv, OneWorkerPerIdentifier
  <2>5. QED
    BY <2>1, <2>3, <2>4 DEF WorkerInv
<1>2. ASSUME isInit', UNCHANGED <<jobsScheduled, jobData, now>>,
             NEW at \in [Job -> {"idle", "racing", "saving"}], planNextJobs(at),
             \A j \in Job : at[j] = "idle" \/ at[j] = pc[j]
      PROVE  WorkerInv'
  <2>1. \A j, k \in Job : at[j] # "idle" /\ at[k] # "idle" /\ IdOf[j] = IdOf[k] => j = k
    BY <1>2 DEF WorkerInv, OneWorkerPerIdentifier, currentJobs
  <2>2. /\ \A j \in Job : pc'[j] = "racing" =>
            \/ at[j] = "racing"
            \/ FoundFirst(jobsScheduled, j) /\ jobData[j].next <= now
        /\ \A j, k \in Job : pc'[j] # "idle" /\ pc'[k] # "idle" /\ IdOf[j] = IdOf[k]
            => j = k
    BY <1>2, <2>1, PlanFacts
  <2>3. \A j \in Job : pc'[j] = "racing" =>
            FoundFirst(jobsScheduled, j) /\ jobData[j].next <= now
    BY <1>2, <2>2 DEF WorkerInv
  <2>4. QED
    BY <1>2, <2>2, <2>3 DEF WorkerInv, OneWorkerPerIdentifier, currentJobs
<1>3. ASSUME NEW j \in Job, NEW result \in Results, Finish(j, result)
      PROVE  WorkerInv'
  <2>1. /\ pc[j] = "racing" /\ pc' = [pc EXCEPT ![j] = "saving"]
        /\ isInit' = isInit /\ now' = now
    BY <1>3 DEF Finish
  <2>2. \A k \in Job : pc'[k] # "idle" <=> pc[k] # "idle"
    BY <2>1 DEF TypeOK
  <2>3. ASSUME NEW k \in Job, pc'[k] = "racing"
        PROVE  FoundFirst(jobsScheduled', k) /\ jobData'[k].next <= now'
    <3>1. k # j /\ pc[k] = "racing"
      BY <2>1, <2>3 DEF TypeOK
    <3>2. IdOf[k] # IdOf[j]
      BY <2>1, <3>1 DEF WorkerInv, OneWorkerPerIdentifier, currentJobs
    <3>3. jobData'[k] = jobData[k]
      BY <1>3, <3>1, FinishFacts
    <3>4. FoundFirst(jobsScheduled', k)
      BY <1>3, <3>1, <3>2, FinishFacts DEF WorkerInv
    <3>5. QED
      BY <2>1, <3>1, <3>3, <3>4 DEF WorkerInv
  <2>4. isInit
    BY <2>1 DEF WorkerInv
  <2>5. QED
    BY <2>1, <2>2, <2>3, <2>4 DEF WorkerInv, OneWorkerPerIdentifier, currentJobs
<1>4. CASE loadJobsFromDb
  <2>1. \A j \in Job : pc'[j] # "racing"
    BY <1>4 DEF loadJobsFromDb, WorkerInv
  <2>2. pc' = pc /\ isInit'
    BY <1>4 DEF loadJobsFromDb
  <2>3. QED
    BY <2>1, <2>2 DEF WorkerInv, OneWorkerPerIdentifier, currentJobs
<1>5. CASE \E j \in Job, timestamp \in {now, now + Delay} : addJob(j, timestamp)
  <2>1. PICK j \in Job, timestamp \in {now, now + Delay} : addJob(j, timestamp)
    BY <1>5
  <2>2. timestamp \in Nat /\ now <= timestamp
    BY JobRunnerAssumption DEF TypeOK
  <2>3. jobData' \in [Job -> JobRecord] /\ jobsScheduled \in Seq(Job)
        /\ jobData'[j].next = timestamp
        /\ \A k \in Job \ {j} : jobData'[k] = jobData[k]
    BY <2>1, <2>2 DEF addJob, TypeOK, JobRecord, Fresh
  <2>4. j \notin ToSet(jobsScheduled) /\ NoDuplicate(jobsScheduled)
    BY <2>1 DEF addJob, ListInv, Scheduled
  <2>5. Pushed(jobsScheduled, jobData', j, jobsScheduled')
    BY <2>1 DEF addJob
  <2>6. \A k \in Job : FoundFirst(jobsScheduled, k) /\ jobData'[k].next <= jobData'[j].next
            => FoundFirst(jobsScheduled', k)
    BY <2>3, <2>4, <2>5, PushedKeeps
  <2>7. pc' = pc /\ now' = now /\ isInit' = isInit /\ isInit
    BY <2>1 DEF addJob
  <2>8. ASSUME NEW k \in Job, pc[k] = "racing"
        PROVE  FoundFirst(jobsScheduled', k) /\ jobData'[k].next <= now
    <3>1. FoundFirst(jobsScheduled, k) /\ jobData[k].next <= now
      BY <2>8 DEF WorkerInv
    <3>2. k # j
      BY <2>4, <3>1 DEF FoundFirst, ToSet
    <3>3. jobData'[k] = jobData[k]
      BY <2>3, <3>2
    <3>4. jobData'[k].next <= jobData'[j].next
      BY <2>2, <2>3, <3>1, <3>3 DEF TypeOK, JobRecord
    <3>5. QED
      BY <2>6, <3>1, <3>3, <3>4
  <2>9. QED
    BY <2>7, <2>8 DEF WorkerInv, OneWorkerPerIdentifier, currentJobs
<1>6. CASE WriteDone
  <2>1. isInit' /\ UNCHANGED <<jobsScheduled, jobData, now>>
    BY <1>6 DEF WriteDone, WorkerInv
  <2>2. \/ planNextJobs(pc)
        \/ planNextJobs([pc EXCEPT ![Head(writes).by] = "idle"])
    BY <1>6 DEF WriteDone
  <2>3. CASE planNextJobs(pc)
    BY <1>2, <2>1, <2>3 DEF TypeOK
  <2>4. CASE planNextJobs([pc EXCEPT ![Head(writes).by] = "idle"])
    <3> DEFINE at == [pc EXCEPT ![Head(writes).by] = "idle"]
    <3>1. at \in [Job -> {"idle", "racing", "saving"}]
          /\ \A j \in Job : at[j] = "idle" \/ at[j] = pc[j]
      BY DEF TypeOK
    <3> HIDE DEF at
    <3>2. planNextJobs(at)
      BY <2>4 DEF at
    <3>3. QED
      BY <1>2, <2>1, <3>1, <3>2
  <2>5. QED
    BY <2>2, <2>3, <2>4
<1>7. CASE startProcessing \/ Tick
  <2>1. isInit' /\ UNCHANGED <<jobsScheduled, jobData, now>> /\ planNextJobs(pc)
    BY <1>7 DEF startProcessing, Tick
  <2>2. QED
    BY <1>2, <2>1 DEF TypeOK
<1>8. CASE Crash
  <2>1. pc' = [j \in Job |-> "idle"] /\ writes' = <<>> /\ jobsScheduled' = <<>>
    BY <1>8 DEF Crash
  <2>2. QED
    BY <2>1 DEF WorkerInv, OneWorkerPerIdentifier, currentJobs
<1>9. CASE \/ stopAndWaitCurrentJobs \/ TimePasses \/ WriteFailed
           \/ \E j \in Job, result \in Results : SettleLate(j, result)
           \/ UNCHANGED vars
    BY <1>1, <1>9 DEF stopAndWaitCurrentJobs, TimePasses, WriteFailed,
       SettleLate, vars, memory, history, TypeOK
<1>10. CASE \/ \E j \in Job, result \in Results : Settle(j, result)
            \/ \E j \in Job : SettleStale(j) \/ Timeout(j)
    BY <1>3, <1>10 DEF Settle, SettleStale, Timeout, Results
<1>11. QED
    BY <1>4, <1>5, <1>6, <1>7, <1>8, <1>9, <1>10 DEF Next

LEMMA SaveInit == Init => SaveInv
    BY DEF Init, SaveInv

LEMMA SaveStep ==
    ASSUME TypeOK, RunnerInv, [Next]_vars, Restorable
    PROVE  SaveInv'
<1> USE DEF RunnerInv
\* every job that must be in the lists stays there, and the write holds the list
<1>1. ASSUME NEW j \in Job, NEW step \in {"add", "finish"},
             writes' = Append(writes, [by |-> j, step |-> step,
                                jobs |-> getScheduledJobs(jobsScheduled', jobData')]),
             jobsScheduled' \in Seq(Job), isInit, UNCHANGED <<isInit, disk, acked>>,
             \A k \in Scheduled : k \in Scheduled' \/ outcome'[k] # "open",
             \A k \in Job : outcome'[k] = "open" => outcome[k] = "open",
             step = "add" => j \in Scheduled'
      PROVE  SaveInv'
  <2> DEFINE snap == getScheduledJobs(jobsScheduled', jobData')
  <2>1. ListedIn(snap) = Scheduled'
    BY <1>1, SnapshotFacts DEF Scheduled
  <2> HIDE DEF snap
  <2>2. /\ DOMAIN writes' = 1..Len(writes) + 1
        /\ \A p \in 1..Len(writes) : writes'[p] = writes[p] /\ p \in DOMAIN writes
        /\ writes'[Len(writes) + 1].jobs = snap
        /\ writes'[Len(writes) + 1].by = j
        /\ writes'[Len(writes) + 1].step = step
        /\ Len(writes) \in Nat
    BY <1>1, AppendFacts DEF snap, TypeOK
  <2>3. ASSUME NEW k \in acked, outcome'[k] = "open"
        PROVE  /\ k \in ListedIn(disk)
               /\ k \in Scheduled'
               /\ \A p \in DOMAIN writes' : k \in ListedIn(writes'[p].jobs)
    <3>1. k \in Job /\ outcome[k] = "open"
      BY <1>1, <2>3 DEF TypeOK
    <3>2. k \in ListedIn(disk) /\ k \in Scheduled
          /\ \A p \in DOMAIN writes : k \in ListedIn(writes[p].jobs)
      BY <1>1, <3>1 DEF SaveInv
    <3>3. k \in Scheduled'
      BY <1>1, <2>3, <3>2
    <3>4. QED
      BY <2>1, <2>2, <3>2, <3>3
  <2>4. ASSUME NEW p \in DOMAIN writes', writes'[p].step = "add",
               outcome'[writes'[p].by] = "open"
        PROVE  /\ writes'[p].by \in Scheduled'
               /\ \A q \in DOMAIN writes' : q >= p =>
                    writes'[p].by \in ListedIn(writes'[q].jobs)
    <3>1. CASE p = Len(writes) + 1
      <4>1. j \in Scheduled' /\ writes'[p].by = j
        BY <1>1, <2>2, <2>4, <3>1
      <4>2. \A q \in DOMAIN writes' : q >= p => q = Len(writes) + 1
        BY <2>2, <3>1
      <4>3. QED
        BY <2>1, <2>2, <4>1, <4>2
    <3>2. CASE p # Len(writes) + 1
      <4>1. p \in DOMAIN writes /\ writes'[p] = writes[p] /\ writes[p] \in Write
        BY <2>2, <3>2 DEF TypeOK
      <4>2. writes[p].by \in Job /\ outcome[writes[p].by] = "open"
        BY <1>1, <2>4, <4>1 DEF Write
      <4>3. /\ writes[p].by \in Scheduled
            /\ \A q \in DOMAIN writes : q >= p =>
                    writes[p].by \in ListedIn(writes[q].jobs)
        BY <2>4, <4>1, <4>2 DEF SaveInv
      <4>4. writes[p].by \in Scheduled'
        BY <1>1, <2>4, <4>1, <4>3
      <4>5. QED
        BY <2>1, <2>2, <4>1, <4>3, <4>4
    <3>3. QED
      BY <3>1, <3>2
  <2>5. QED
    BY <1>1, <2>3, <2>4 DEF SaveInv
<1>2. CASE UNCHANGED <<isInit, jobsScheduled, writes, disk, acked, outcome>>
    BY <1>2 DEF SaveInv, Scheduled
<1>3. ASSUME NEW j \in Job, NEW result \in Results, Finish(j, result)
      PROVE  SaveInv'
  <2>1. jobsScheduled' \in Seq(Job) /\ isInit
    BY <1>3, FinishType DEF Finish, WorkerInv
  <2>2. /\ \A k \in Scheduled : k \in Scheduled' \/ outcome'[k] # "open"
        /\ \A k \in Job : outcome'[k] = "open" => outcome[k] = "open"
    BY <1>3, FinishFacts
  <2>3. UNCHANGED <<isInit, disk, acked>>
        /\ writes' = Append(writes, [by |-> j, step |-> "finish",
                                jobs |-> getScheduledJobs(jobsScheduled', jobData')])
    BY <1>3 DEF Finish, writeJobsToDB
  <2>4. QED
    BY <1>1, <2>1, <2>2, <2>3
<1>4. CASE loadJobsFromDb
  <2>1. writes = <<>> /\ writes' = writes /\ disk' = disk /\ acked' = acked
        /\ outcome' = outcome
    BY <1>4 DEF loadJobsFromDb, history, WorkerInv
  <2>2. Scheduled' = ListedIn(disk)
    BY <1>4 DEF loadJobsFromDb, Restored, Scheduled, ToSet, ListedIn
  <2>3. QED
    BY <2>1, <2>2 DEF SaveInv
<1>5. CASE \E j \in Job, timestamp \in {now, now + Delay} : addJob(j, timestamp)
  <2>1. PICK j \in Job, timestamp \in {now, now + Delay} : addJob(j, timestamp)
    BY <1>5
  <2>2. timestamp \in Nat
    BY JobRunnerAssumption DEF TypeOK
  <2>3. jobData' \in [Job -> JobRecord] /\ jobsScheduled \in Seq(Job)
    BY <2>1, <2>2 DEF addJob, TypeOK, JobRecord, Fresh
  <2>4. j \notin ToSet(jobsScheduled) /\ NoDuplicate(jobsScheduled)
    BY <2>1 DEF addJob, ListInv, Scheduled
  <2>5. Pushed(jobsScheduled, jobData', j, jobsScheduled')
    BY <2>1 DEF addJob
  <2>6. Scheduled' = Scheduled \cup {j}
    BY <2>3, <2>4, <2>5, PushedKeeps DEF Scheduled
  <2>7. jobsScheduled' \in Seq(Job)
    BY <2>3, <2>5, PushedFacts
  <2>8. isInit /\ UNCHANGED <<isInit, disk, acked>> /\ outcome' = outcome
        /\ writes' = Append(writes, [by |-> j, step |-> "add",
                                jobs |-> getScheduledJobs(jobsScheduled', jobData')])
    BY <2>1 DEF addJob, writeJobsToDB
  <2>9. QED
    BY <1>1, <2>6, <2>7, <2>8
<1>6. CASE WriteDone \/ WriteFailed
  <2>1. /\ writes # <<>> /\ writes' = Tail(writes)
        /\ UNCHANGED <<isInit, jobsScheduled, outcome>>
        /\ \/ disk' = disk /\ acked' = acked
           \/ disk' = Head(writes).jobs /\ acked' = acked
           \/ /\ disk' = Head(writes).jobs
              /\ Head(writes).step = "add"
              /\ acked' = acked \cup {Head(writes).by}
    BY <1>6 DEF WriteDone, WriteFailed
  <2>2. /\ 1 \in DOMAIN writes /\ Head(writes) = writes[1]
        /\ \A p \in DOMAIN writes' : writes'[p] = writes[p + 1] /\ p + 1 \in DOMAIN writes
                                     /\ p + 1 >= 1 /\ p \in Int
    BY <2>1, TailFacts DEF TypeOK
  <2>3. ASSUME NEW k \in acked', outcome[k] = "open"
        PROVE  /\ k \in ListedIn(disk')
               /\ isInit => k \in Scheduled
               /\ \A p \in DOMAIN writes' : k \in ListedIn(writes'[p].jobs)
    <3>1. CASE k \in acked
      BY <2>1, <2>2, <2>3, <3>1 DEF SaveInv
    <3>2. CASE k \notin acked
      <4>1. k = writes[1].by /\ writes[1].step = "add" /\ disk' = writes[1].jobs
        BY <2>1, <2>2, <2>3, <3>2
      <4>2. k \in Scheduled /\ \A q \in DOMAIN writes : q >= 1 =>
                k \in ListedIn(writes[q].jobs)
        BY <2>2, <2>3, <4>1 DEF SaveInv
      <4>3. QED
        BY <2>2, <4>1, <4>2
    <3>3. QED
      BY <3>1, <3>2
  <2>4. ASSUME NEW p \in DOMAIN writes', writes'[p].step = "add",
               outcome[writes'[p].by] = "open"
        PROVE  /\ writes'[p].by \in Scheduled
               /\ \A q \in DOMAIN writes' : q >= p =>
                    writes'[p].by \in ListedIn(writes'[q].jobs)
    <3>1. writes'[p] = writes[p + 1] /\ p + 1 \in DOMAIN writes
      BY <2>2
    <3>2. /\ writes[p + 1].by \in Scheduled
          /\ \A q \in DOMAIN writes : q >= p + 1 =>
                writes[p + 1].by \in ListedIn(writes[q].jobs)
      BY <2>4, <3>1 DEF SaveInv
    <3>3. \A q \in DOMAIN writes' : q >= p => q + 1 >= p + 1
      BY <2>2
    <3>4. QED
      BY <2>2, <3>1, <3>2, <3>3
  <2>5. QED
    BY <2>1, <2>3, <2>4 DEF SaveInv, Scheduled
<1>7. CASE Crash
  <2>1. /\ isInit' = FALSE /\ writes' = <<>> /\ acked' = acked /\ outcome' = outcome
    BY <1>7 DEF Crash
  <2>2. PICK n \in 0..Len(writes) : disk' = IF n = 0 THEN disk ELSE writes[n].jobs
    BY <1>7 DEF Crash
  <2>3. n # 0 => n \in DOMAIN writes
    BY DEF TypeOK
  <2>4. DOMAIN writes' = {}
    BY <2>1
  <2>5. QED
    BY <2>1, <2>2, <2>3, <2>4 DEF SaveInv
<1>8. CASE \/ startProcessing \/ Tick \/ stopAndWaitCurrentJobs \/ TimePasses
           \/ \E j \in Job, result \in Results : SettleLate(j, result)
           \/ UNCHANGED vars
    BY <1>2, <1>8 DEF startProcessing, Tick, stopAndWaitCurrentJobs, TimePasses,
       SettleLate, vars, memory, history
<1>9. CASE \/ \E j \in Job, result \in Results : Settle(j, result)
           \/ \E j \in Job : SettleStale(j) \/ Timeout(j)
    BY <1>3, <1>9 DEF Settle, SettleStale, Timeout, Results
<1>10. QED
    BY <1>4, <1>5, <1>6, <1>7, <1>8, <1>9 DEF Next

\* The inductive invariant: what the lists hold, what the workers hold, what is saved.
THEOREM RunnerInvariant == Spec => []RunnerInv
<1>1. Init => RunnerInv
    BY ListInit, WorkerInit, SaveInit DEF RunnerInv
<1>2. TypeOK /\ RunnerInv /\ [Next]_vars => RunnerInv'
    BY ListStep, WorkerStep, SaveStep DEF RunnerInv
<1>3. QED
    BY <1>1, <1>2, TypeCorrect, PTL DEF Spec

-----------------------------------------------------------------------------
(* What it gives. *)

\* Two workers never hold jobs of one identifier, however many jobs were added
\* under it while the first one ran, timed out or was being saved.
THEOREM IdentifierExclusion == Spec => []OneWorkerPerIdentifier
<1>1. RunnerInv => OneWorkerPerIdentifier
    BY DEF RunnerInv, WorkerInv
<1>2. QED
    BY <1>1, RunnerInvariant, PTL

\* A job for which addJob resolved to 'job_added' is in the database until it has a
\* final result, for every order of writes, write failures and ends of the process.
THEOREM Durability == Spec => []AckedJobIsDurable
<1>1. RunnerInv => AckedJobIsDurable
    BY DEF RunnerInv, SaveInv, AckedJobIsDurable, OnDisk, ListedIn
<1>2. QED
    BY <1>1, RunnerInvariant, PTL

\* Only a job that ended leaves the list of a live process: deleting by identifier
\* never takes out another job of that identifier.
THEOREM Removal == Spec => OnlyEndedJobsLeave
<1> DEFINE Leave == isInit' => \A j \in Scheduled \ Scheduled' : outcome'[j] # "open"
<1>1. TypeOK /\ RunnerInv /\ [Next]_vars => [Leave]_vars
  <2> SUFFICES ASSUME TypeOK, RunnerInv, [Next]_vars, isInit'
               PROVE  (\A j \in Scheduled \ Scheduled' : outcome'[j] # "open")
                      \/ UNCHANGED vars
    OBVIOUS
  <2>1. ASSUME NEW j \in Job, NEW result \in Results, Finish(j, result)
        PROVE  \A k \in Scheduled \ Scheduled' : outcome'[k] # "open"
    BY <2>1, FinishFacts
  <2>2. CASE loadJobsFromDb
    <3>1. DOMAIN jobsScheduled = {}
      BY <2>2 DEF loadJobsFromDb, RunnerInv, WorkerInv
    <3>2. QED
      BY <3>1 DEF Scheduled, ToSet
  <2>3. CASE \E j \in Job, timestamp \in {now, now + Delay} : addJob(j, timestamp)
    <3>1. PICK j \in Job, timestamp \in {now, now + Delay} : addJob(j, timestamp)
      BY <2>3
    <3>2. timestamp \in Nat
      BY JobRunnerAssumption DEF TypeOK
    <3>3. /\ jobData' \in [Job -> JobRecord] /\ jobsScheduled \in Seq(Job)
          /\ j \notin ToSet(jobsScheduled) /\ NoDuplicate(jobsScheduled)
          /\ Pushed(jobsScheduled, jobData', j, jobsScheduled')
      BY <3>1, <3>2 DEF addJob, TypeOK, JobRecord, Fresh, RunnerInv, ListInv, Scheduled
    <3>4. Scheduled' = Scheduled \cup {j}
      BY <3>3, PushedKeeps DEF Scheduled
    <3>5. QED
      BY <3>4
  <2>4. CASE \/ \E j \in Job, result \in Results : Settle(j, result)
             \/ \E j \in Job : SettleStale(j) \/ Timeout(j)
    BY <2>1, <2>4 DEF Settle, SettleStale, Timeout, Results
  <2>5. CASE \/ startProcessing \/ Tick \/ stopAndWaitCurrentJobs \/ TimePasses
             \/ WriteDone \/ WriteFailed
             \/ \E j \in Job, result \in Results : SettleLate(j, result)
    <3>1. jobsScheduled' = jobsScheduled
      BY <2>5 DEF startProcessing, Tick, stopAndWaitCurrentJobs, TimePasses,
         WriteDone, WriteFailed, SettleLate, memory
    <3>2. QED
      BY <3>1 DEF Scheduled
  <2>6. CASE Crash
    BY <2>6 DEF Crash
  <2>7. QED
    BY <2>2, <2>3, <2>4, <2>5, <2>6 DEF Next
<1>2. QED
    BY <1>1, TypeCorrect, RunnerInvariant, PTL DEF Spec, OnlyEndedJobsLeave

-----------------------------------------------------------------------------
(* How often a job is started. *)

\* A run of runNextJob calls starts idle jobs of the list, each once.
LEMMA PlanStarts ==
    ASSUME TypeOK, NEW at \in [Job -> {"idle", "racing", "saving"}], planNextJobs(at),
           NEW j \in Job
    PROVE  \/ starts'[j] = starts[j] /\ pc'[j] = at[j]
           \/ /\ starts'[j] = starts[j] + 1 /\ pc'[j] = "racing"
              /\ at[j] = "idle" /\ j \in Scheduled
<1> DEFINE busy == {k \in Job : at[k] # "idle"}
           S == ToStart(busy)
<1>1. /\ pc' = [k \in Job |-> IF k \in S THEN "racing" ELSE at[k]]
      /\ starts' = [k \in Job |-> IF k \in S THEN starts[k] + 1 ELSE starts[k]]
    BY DEF planNextJobs
<1>2. ASSUME j \in S
      PROVE  j \in Scheduled /\ j \notin busy
  <2>1. PICK i \in Startable(busy) : jobsScheduled[i] = j
    BY <1>2 DEF ToStart
  <2> HIDE DEF busy, S
  <2>2. i \in DOMAIN jobsScheduled /\ \A r \in busy : IdOf[r] # IdOf[jobsScheduled[i]]
    BY DEF Startable
  <2>3. QED
    BY <2>1, <2>2 DEF Scheduled, ToSet, TypeOK
<1> HIDE DEF S
<1>3. QED
    BY <1>1, <1>2

\* The end of a try that goes on counts it.
LEMMA FinishCounts ==
    ASSUME TypeOK, RunnerInv, RetryInv, NEW j \in Job, NEW result \in Results,
           Finish(j, result)
    PROVE  /\ \A k \in Job : jobData'[k].retry < MaxAttempts
           /\ Scheduled' \subseteq Scheduled
           /\ \A k \in Job \ {j} : jobData'[k] = jobData[k]
           /\ j \in Scheduled' => jobData'[j].retry = jobData[j].retry + 1
<1>1. Scheduled' \subseteq Scheduled /\ \A k \in Job \ {j} : jobData'[k] = jobData[k]
    BY FinishFacts
<1>2. CASE deleteJobsByIdentifier(jobsScheduled, IdOf[j], jobsScheduled')
           /\ UNCHANGED jobData
  <2>1. FoundFirst(jobsScheduled, j) /\ NoDuplicate(jobsScheduled)
        /\ jobsScheduled \in Seq(Job)
    BY DEF RunnerInv, WorkerInv, ListInv, Finish, TypeOK
  <2>2. j \notin Scheduled'
    BY <1>2, <2>1, DeletedKeeps DEF Scheduled
  <2>3. QED
    BY <1>1, <1>2, <2>2 DEF RetryInv
<1>3. CASE /\ ~GiveUp(j, result)
           /\ jobData' = [jobData EXCEPT
                ![j] = [retry |-> jobData[j].retry + 1, next |-> now + Delay]]
  <2>1. jobData[j].retry \in Nat /\ jobData'[j].retry = jobData[j].retry + 1
    BY <1>3 DEF TypeOK, JobRecord
  <2>2. jobData'[j].retry < MaxAttempts
    BY <1>3, <2>1, JobRunnerAssumption DEF GiveUp
  <2>3. QED
    BY <1>1, <2>1, <2>2 DEF RetryInv
<1>4. QED
    BY <1>2, <1>3 DEF Finish

\* What a snapshot of the list says of the tries of a job.
LEMMA SnapshotCounts ==
    ASSUME NEW list \in Seq(Job), NEW data \in [Job -> JobRecord],
           NEW i \in DOMAIN getScheduledJobs(list, data)
    PROVE  /\ getScheduledJobs(list, data)[i].job \in ToSet(list)
           /\ getScheduledJobs(list, data)[i].job \in Job
           /\ getScheduledJobs(list, data)[i].retry =
                data[getScheduledJobs(list, data)[i].job].retry
<1>1. i \in DOMAIN list /\ list[i] \in Job
    BY DEF getScheduledJobs
<1>2. getScheduledJobs(list, data)[i] =
        [job |-> list[i], retry |-> data[list[i]].retry, next |-> data[list[i]].next]
    BY <1>1 DEF getScheduledJobs
<1>3. QED
    BY <1>1, <1>2 DEF ToSet

\* the types of what the writes and the row hold
LEMMA SavedTypes ==
    ASSUME TypeOK
    PROVE  /\ \A p \in DOMAIN writes : p \in Int /\ writes[p].by \in Job
           /\ \A s \in Saved : \A i \in DOMAIN s : s[i].retry \in Nat /\ s[i].job \in Job
<1>1. \A p \in DOMAIN writes : p \in Int /\ writes[p] \in Write
    BY DEF TypeOK
<1>2. \A p \in DOMAIN writes : writes[p].by \in Job /\ writes[p].jobs \in Seq(Entry)
    BY <1>1 DEF Write
<1>3. \A s \in Saved : s \in Seq(Entry)
    BY <1>2 DEF Saved, TypeOK
<1>4. \A s \in Saved : \A i \in DOMAIN s : s[i] \in Entry
    BY <1>3
<1>5. QED
    BY <1>1, <1>2, <1>4 DEF Entry

\* A write of the list is issued: after an addJob, or after a try.
LEMMA CountAppend ==
    ASSUME TypeOK, CountInv, isInit, isInit', UNCHANGED <<disk, starts, crashes>>,
           added \subseteq added',
           jobsScheduled' \in Seq(Job), jobData' \in [Job -> JobRecord],
           NEW j \in Job, NEW step,
           writes' = Append(writes, [by |-> j, step |-> step,
                                jobs |-> getScheduledJobs(jobsScheduled', jobData')]),
           \A k \in Job : jobData'[k].retry < MaxAttempts,
           \A k \in Scheduled' :
              starts[k] <= jobData'[k].retry + crashes + (IF pc'[k] = "racing" THEN 1 ELSE 0),
           \A k \in Scheduled' : pc'[k] = "idle" =>
              (k \in Scheduled /\ pc[k] = "idle") \/ starts[k] = 0,
           \A k \in Job : pc[k] = "saving" => pc'[k] = "saving",
           step = "finish" => pc[j] # "saving" /\ pc'[j] = "saving"
    PROVE  CountInv'
<1> DEFINE snap == getScheduledJobs(jobsScheduled', jobData')
           new == Len(writes) + 1
<1> USE DEF CountInv
<1>1. \A i \in DOMAIN snap : /\ snap[i].job \in Scheduled' /\ snap[i].job \in Job
                             /\ snap[i].retry = jobData'[snap[i].job].retry
    BY SnapshotCounts DEF Scheduled
<1>2. /\ DOMAIN writes' = 1..new /\ new \notin DOMAIN writes /\ new \in Nat
      /\ \A p \in 1..new : p # new => writes'[p] = writes[p] /\ p \in DOMAIN writes
      /\ \A p \in DOMAIN writes : p \in 1..new /\ p # new /\ p < new
      /\ writes'[new].by = j /\ writes'[new].step = step /\ writes'[new].jobs = snap
    BY AppendFacts DEF TypeOK
<1> HIDE DEF snap, new
<1>3. \A s \in Saved' : s \in Saved \/ s = snap
    BY <1>2 DEF Saved
<1>4. AttemptsBounded'
    BY DEF AttemptsBounded
<1>5. RetryInv'
    BY <1>1, <1>3 DEF RetryInv
<1>6. \A s \in Saved : \A i \in DOMAIN s : s[i].retry \in Nat
    BY SavedTypes
<1>7. \A k \in Job : starts[k] \in Nat /\ crashes \in Nat /\ jobData'[k].retry \in Nat
    BY DEF TypeOK, JobRecord
<1>8. ASSUME NEW k \in Job, pc'[k] # "racing"
      PROVE  RetryAtLeast(snap, k, starts[k] - crashes)
  <2> SUFFICES ASSUME NEW i \in DOMAIN snap, snap[i].job = k
               PROVE  starts[k] - crashes <= snap[i].retry
    BY DEF RetryAtLeast
  <2>1. k \in Scheduled' /\ snap[i].retry = jobData'[k].retry
    BY <1>1
  <2>2. starts[k] <= jobData'[k].retry + crashes + 0
    BY <1>8, <2>1
  <2>3. QED
    BY <1>7, <2>1, <2>2
<1>9. ASSUME NEW s \in Saved', NEW k \in Job
      PROVE  /\ RetryAtLeast(s, k, starts[k] - crashes - 1)
             /\ k \in Scheduled' /\ pc'[k] = "idle" => RetryAtLeast(s, k, starts[k] - crashes)
  <2>1. CASE s = snap
    BY <1>1, <1>7, <1>8, <2>1 DEF RetryAtLeast
  <2>2. CASE s \in Saved
    <3>1. /\ RetryAtLeast(s, k, starts[k] - crashes - 1)
          /\ k \in Scheduled /\ pc[k] = "idle" => RetryAtLeast(s, k, starts[k] - crashes)
      BY <2>2 DEF StartInv
    <3>2. starts[k] = 0 => RetryAtLeast(s, k, starts[k] - crashes)
      BY <1>6, <1>7, <2>2 DEF RetryAtLeast
    <3>3. QED
      BY <3>1, <3>2
  <2>3. QED
    BY <1>3, <2>1, <2>2
<1>10. StartInv'
  <2>1. \A k \in Job \ added' : starts'[k] = 0
    BY DEF StartInv
  <2>2. QED
    BY <1>9, <2>1 DEF StartInv
<1>11. FinishInv'
  <2> SUFFICES ASSUME NEW p \in 1..new, writes'[p].step = "finish", NEW q \in 1..new
               PROVE  /\ pc'[writes'[p].by] = "saving"
                      /\ q >= p => RetryAtLeast(writes'[q].jobs, writes'[p].by,
                                                starts[writes'[p].by] - crashes)
                      /\ writes'[q].step = "finish" /\ writes'[q].by = writes'[p].by
                            => q = p
    BY <1>2 DEF FinishInv
  <2>1. \A r \in DOMAIN writes : writes[r].by \in Job
    BY SavedTypes
  <2>2. CASE p # new
    <3>1. writes'[p] = writes[p] /\ p \in DOMAIN writes /\ pc[writes[p].by] = "saving"
      BY <1>2, <2>2 DEF FinishInv
    <3>2. CASE q # new
      <4>1. writes'[q] = writes[q] /\ q \in DOMAIN writes
        BY <1>2, <3>2
      <4>2. QED
        BY <2>1, <3>1, <4>1 DEF FinishInv
    <3>3. CASE q = new
      BY <1>2, <1>8, <2>1, <3>1, <3>3
    <3>4. QED
      BY <3>2, <3>3
  <2>3. CASE p = new
    <3>1. pc'[j] = "saving" /\ pc[j] # "saving"
      BY <1>2, <2>3
    <3>2. CASE q # new
      <4>1. writes'[q] = writes[q] /\ q \in DOMAIN writes /\ q < new
        BY <1>2, <3>2
      <4>2. QED
        BY <1>2, <2>3, <3>1, <4>1 DEF FinishInv
    <3>3. CASE q = new
      BY <1>2, <1>8, <2>3, <3>1, <3>3
    <3>4. QED
      BY <3>2, <3>3
  <2>4. QED
    BY <2>2, <2>3
<1>12. QED
    BY <1>4, <1>5, <1>10, <1>11

\* what moved up by one place is in its old order
LEMMA ShiftOrder ==
    \A p, q, d \in Int : (q >= p => q + d >= p + d) /\ (q + d = p + d => q = p)
    OBVIOUS

\* Jobs are started, maybe once a write is done that one of them waited for.
LEMMA CountPlan ==
    ASSUME TypeOK, RunnerInv, CountInv, isInit,
           UNCHANGED <<isInit, jobsScheduled, jobData, crashes, added>>,
           NEW at \in [Job -> {"idle", "racing", "saving"}], planNextJobs(at),
           Saved' \subseteq Saved,
           \A k \in Job :
              \/ at[k] = pc[k]
              \/ /\ at[k] = "idle" /\ pc[k] = "saving"
                 /\ \A s \in Saved' : RetryAtLeast(s, k, starts[k] - crashes),
           NEW d \in {0, 1},
           \A p \in DOMAIN writes' : /\ writes'[p] = writes[p + d] /\ p + d \in DOMAIN writes
                                     /\ p \in Int,
           \A p \in DOMAIN writes' : writes'[p].step = "finish" =>
                at[writes'[p].by] = "saving"
    PROVE  CountInv'
<1> USE DEF CountInv
<1>1. Scheduled' = Scheduled /\ Scheduled \subseteq added /\ Scheduled \subseteq Job
    BY DEF Scheduled, RunnerInv, ListInv, TypeOK, ToSet
<1>2. \A k \in Job : /\ starts[k] \in Nat /\ crashes \in Nat /\ jobData[k].retry \in Nat
                     /\ jobData[k].retry < MaxAttempts /\ starts[k] <= MaxAttempts + crashes
                     /\ pc[k] \in {"idle", "racing", "saving"}
    BY DEF TypeOK, JobRecord, RetryInv, AttemptsBounded
<1>3. ASSUME NEW k \in Job
      PROVE  \/ starts'[k] = starts[k] /\ pc'[k] = at[k]
             \/ /\ starts'[k] = starts[k] + 1 /\ pc'[k] = "racing"
                /\ at[k] = "idle" /\ k \in Scheduled
    BY PlanStarts
<1>4. RetryInv'
    BY DEF RetryInv
<1>5. \A k \in Scheduled :
        starts[k] <= jobData[k].retry + crashes + (IF pc[k] = "racing" THEN 1 ELSE 0)
    BY DEF StartInv
<1>6. ASSUME NEW k \in Job
      PROVE  /\ starts'[k] <= MaxAttempts + crashes
             /\ k \notin added => starts'[k] = 0
             /\ k \in Scheduled => starts'[k] <= jobData[k].retry + crashes
                                    + (IF pc'[k] = "racing" THEN 1 ELSE 0)
  <2>1. CASE starts'[k] = starts[k] /\ pc'[k] = at[k]
    BY <1>2, <1>5, <2>1 DEF StartInv
  <2>2. CASE /\ starts'[k] = starts[k] + 1 /\ pc'[k] = "racing"
             /\ at[k] = "idle" /\ k \in Scheduled
    <3>1. starts[k] <= jobData[k].retry + crashes
      BY <1>2, <1>5, <2>2
    <3>2. QED
      BY <1>1, <1>2, <2>2, <3>1, JobRunnerAssumption
  <2>3. QED
    BY <1>3, <2>1, <2>2
<1>7. ASSUME NEW s \in Saved', NEW k \in Job
      PROVE  /\ RetryAtLeast(s, k, starts'[k] - crashes - 1)
             /\ k \in Scheduled /\ pc'[k] = "idle" => RetryAtLeast(s, k, starts'[k] - crashes)
  <2>1. /\ s \in Saved
        /\ RetryAtLeast(s, k, starts[k] - crashes - 1)
        /\ k \in Scheduled /\ pc[k] = "idle" => RetryAtLeast(s, k, starts[k] - crashes)
    BY DEF StartInv
  <2>2. k \in Scheduled /\ at[k] = "idle" => RetryAtLeast(s, k, starts[k] - crashes)
    BY <2>1
  <2>3. CASE starts'[k] = starts[k] /\ pc'[k] = at[k]
    BY <2>1, <2>2, <2>3
  <2>4. CASE /\ starts'[k] = starts[k] + 1 /\ pc'[k] = "racing"
             /\ at[k] = "idle" /\ k \in Scheduled
    <3>1. starts'[k] - crashes - 1 = starts[k] - crashes
      BY <1>2, <2>4
    <3>2. QED
      BY <2>2, <2>4, <3>1
  <2>5. QED
    BY <1>3, <2>3, <2>4
<1>8. StartInv'
    BY <1>1, <1>6, <1>7 DEF StartInv
<1>9. FinishInv'
  <2> SUFFICES ASSUME NEW p \in DOMAIN writes', writes'[p].step = "finish",
                      NEW q \in DOMAIN writes'
               PROVE  /\ pc'[writes'[p].by] = "saving"
                      /\ q >= p => RetryAtLeast(writes'[q].jobs, writes'[p].by,
                                                starts'[writes'[p].by] - crashes')
                      /\ writes'[q].step = "finish" /\ writes'[q].by = writes'[p].by
                            => q = p
    BY DEF FinishInv
  <2>1. /\ p + d \in DOMAIN writes /\ q + d \in DOMAIN writes /\ p \in Int /\ q \in Int
        /\ writes'[p] = writes[p + d] /\ writes'[q] = writes[q + d]
        /\ writes[p + d].by \in Job /\ d \in Int
    BY SavedTypes
  <2>2. pc'[writes'[p].by] = "saving" /\ starts'[writes'[p].by] = starts[writes'[p].by]
    BY <1>3, <2>1
  <2>3. /\ q + d >= p + d => RetryAtLeast(writes[q + d].jobs, writes[p + d].by,
                                          starts[writes[p + d].by] - crashes)
        /\ writes[q + d].step = "finish" /\ writes[q + d].by = writes[p + d].by
            => q + d = p + d
    BY <2>1 DEF FinishInv
  <2>4. (q >= p => q + d >= p + d) /\ (q + d = p + d => q = p)
    <3>1. p \in Int /\ q \in Int /\ d \in Int
      BY <2>1
    <3>2. QED
      BY <3>1, ShiftOrder
  <2>5. QED
    BY <2>1, <2>2, <2>3, <2>4
<1>10. QED
    BY <1>4, <1>6, <1>8, <1>9 DEF AttemptsBounded

\* Nothing is counted, maybe a write is given up.
LEMMA CountStays ==
    ASSUME TypeOK, CountInv,
           UNCHANGED <<isInit, jobsScheduled, jobData, pc, starts, crashes, added>>,
           Saved' \subseteq Saved,
           NEW d \in {0, 1},
           \A p \in DOMAIN writes' : /\ writes'[p] = writes[p + d] /\ p + d \in DOMAIN writes
                                     /\ p \in Int
    PROVE  CountInv'
<1> USE DEF CountInv
<1>1. AttemptsBounded' /\ RetryInv'
    BY DEF AttemptsBounded, RetryInv
<1>2. StartInv'
    BY DEF StartInv, Scheduled
<1>3. FinishInv'
  <2> SUFFICES ASSUME NEW p \in DOMAIN writes', writes'[p].step = "finish",
                      NEW q \in DOMAIN writes'
               PROVE  /\ pc[writes'[p].by] = "saving"
                      /\ q >= p => RetryAtLeast(writes'[q].jobs, writes'[p].by,
                                                starts[writes'[p].by] - crashes)
                      /\ writes'[q].step = "finish" /\ writes'[q].by = writes'[p].by
                            => q = p
    BY DEF FinishInv
  <2>1. /\ p + d \in DOMAIN writes /\ q + d \in DOMAIN writes /\ p \in Int /\ q \in Int
        /\ writes'[p] = writes[p + d] /\ writes'[q] = writes[q + d] /\ d \in Int
    OBVIOUS
  <2>2. (q >= p => q + d >= p + d) /\ (q + d = p + d => q = p)
    BY <2>1, ShiftOrder
  <2>3. QED
    BY <2>1, <2>2 DEF FinishInv
<1>4. QED
    BY <1>1, <1>2, <1>3

LEMMA CountInit == Init => CountInv
<1> SUFFICES ASSUME Init
             PROVE  CountInv
    OBVIOUS
<1>1. /\ DOMAIN jobsScheduled = {} /\ DOMAIN disk = {} /\ DOMAIN writes = {}
      /\ Saved = {disk} /\ Scheduled = {}
    BY DEF Init, Saved, Scheduled, ToSet
<1>2. AttemptsBounded /\ RetryInv
    BY <1>1, JobRunnerAssumption DEF Init, AttemptsBounded, RetryInv, Fresh
<1>3. StartInv /\ FinishInv
    BY <1>1 DEF Init, StartInv, FinishInv, RetryAtLeast
<1>4. QED
    BY <1>2, <1>3 DEF CountInv

LEMMA CountLoad ==
    ASSUME TypeOK, RunnerInv, CountInv, loadJobsFromDb
    PROVE  CountInv'
<1> USE DEF CountInv
<1>1. /\ ~isInit /\ isInit' /\ writes = <<>>
      /\ UNCHANGED <<pc, writes, disk, added, starts, crashes>>
    BY DEF loadJobsFromDb, history, RunnerInv, WorkerInv
<1>2. DOMAIN writes = {} /\ Saved = {disk} /\ Saved' = {disk}
    BY <1>1 DEF Saved
<1>3. \A i \in DOMAIN disk : disk[i].retry \in Nat /\ disk[i].retry < MaxAttempts
                             /\ disk[i].job \in Job
    BY <1>2, SavedTypes DEF RetryInv
<1>4. Restored = disk \/ Restored = <<>>
    BY DEF Restored
<1>5. ASSUME NEW k \in Job
      PROVE  /\ jobData'[k].retry < MaxAttempts
             /\ k \in Scheduled' => \E i \in DOMAIN disk :
                    disk[i].job = k /\ jobData'[k].retry = disk[i].retry
  <2> DEFINE e == CHOOSE e \in ToSet(Restored) : e.job = k
  <2>1. jobData'[k] = IF \E i \in DOMAIN Restored : Restored[i].job = k
                      THEN [retry |-> e.retry, next |-> e.next] ELSE Fresh
    BY DEF loadJobsFromDb
  <2>2. CASE \E i \in DOMAIN Restored : Restored[i].job = k
    <3>1. e \in ToSet(Restored) /\ e.job = k
      BY <2>2 DEF ToSet
    <3> HIDE DEF e
    <3>2. PICK i \in DOMAIN Restored : e = Restored[i]
      BY <3>1 DEF ToSet
    <3>3. i \in DOMAIN disk /\ disk[i] = e /\ jobData'[k].retry = disk[i].retry
      BY <1>4, <2>1, <2>2, <3>2
    <3>4. QED
      BY <1>3, <3>1, <3>3
  <2>3. CASE ~ \E i \in DOMAIN Restored : Restored[i].job = k
    <3>1. jobData'[k].retry < MaxAttempts
      BY <2>1, <2>3, JobRunnerAssumption DEF Fresh
    <3>2. k \notin Scheduled'
      BY <2>3 DEF loadJobsFromDb, Scheduled, ToSet
    <3>3. QED
      BY <3>1, <3>2
  <2>4. QED
    BY <2>2, <2>3
<1>6. \A k \in Job : starts[k] \in Nat /\ crashes \in Nat
    BY DEF TypeOK
<1>7. \A k \in Job : RetryAtLeast(disk, k, starts[k] - crashes)
  <2>1. \A k \in Job : RetryAtLeast(disk, k, starts[k] - crashes - 0)
    BY <1>1, <1>2 DEF StartInv
  <2>2. QED
    BY <1>6, <2>1
<1>8. \A k \in Job : RetryAtLeast(disk, k, starts[k] - crashes - 1)
    BY <1>3, <1>6, <1>7 DEF RetryAtLeast
<1>9. Scheduled' \subseteq Job
    BY <1>3, <1>4 DEF loadJobsFromDb, Scheduled, ToSet
<1>10. ASSUME NEW k \in Scheduled'
       PROVE  starts[k] <= jobData'[k].retry + crashes + (IF pc[k] = "racing" THEN 1 ELSE 0)
  <2>1. PICK i \in DOMAIN disk : disk[i].job = k /\ jobData'[k].retry = disk[i].retry
    BY <1>5, <1>9
  <2>2. starts[k] - crashes <= disk[i].retry
    BY <1>7, <1>9, <2>1 DEF RetryAtLeast
  <2>3. QED
    BY <1>3, <1>6, <1>9, <2>1, <2>2
<1>11. StartInv'
    BY <1>1, <1>2, <1>7, <1>8, <1>10 DEF StartInv
<1>12. RetryInv'
    BY <1>2, <1>3, <1>5 DEF RetryInv
<1>13. AttemptsBounded' /\ FinishInv'
    BY <1>1, <1>2 DEF AttemptsBounded, FinishInv
<1>14. QED
    BY <1>11, <1>12, <1>13

LEMMA CountCrash ==
    ASSUME TypeOK, CountInv, Crash
    PROVE  CountInv'
<1> USE DEF CountInv
<1>1. /\ isInit /\ ~isInit' /\ crashes' = crashes + 1 /\ writes' = <<>>
      /\ jobsScheduled' = <<>> /\ jobData' = [j \in Job |-> Fresh]
      /\ UNCHANGED <<added, starts>>
    BY DEF Crash
<1>2. PICK n \in 0..Len(writes) : disk' = IF n = 0 THEN disk ELSE writes[n].jobs
    BY DEF Crash
<1>3. n # 0 => n \in DOMAIN writes
    BY DEF TypeOK
<1>4. disk' \in Saved /\ Saved' = {disk'} /\ DOMAIN writes' = {} /\ Scheduled' = {}
    BY <1>1, <1>2, <1>3 DEF Saved, Scheduled, ToSet
<1>5. \A k \in Job : starts[k] \in Nat /\ crashes \in Nat
    BY DEF TypeOK
<1>6. AttemptsBounded'
    BY <1>1, <1>5, JobRunnerAssumption DEF AttemptsBounded
<1>7. RetryInv'
    BY <1>1, <1>4, JobRunnerAssumption DEF RetryInv, Fresh
<1>8. ASSUME NEW k \in Job
      PROVE  RetryAtLeast(disk', k, starts[k] - crashes')
  <2>1. RetryAtLeast(disk', k, starts[k] - crashes - 1)
    BY <1>1, <1>4 DEF StartInv
  <2>2. starts[k] - crashes' = starts[k] - crashes - 1
    BY <1>1, <1>5
  <2>3. QED
    BY <2>1, <2>2
<1>9. \A k \in Job : starts[k] - crashes' - 0 = starts[k] - crashes'
    BY <1>1, <1>5
<1>10. StartInv'
    BY <1>1, <1>4, <1>8, <1>9 DEF StartInv
<1>11. FinishInv'
    BY <1>4 DEF FinishInv
<1>12. QED
    BY <1>6, <1>7, <1>10, <1>11

LEMMA CountStep ==
    ASSUME TypeOK, RunnerInv, CountInv, [Next]_vars
    PROVE  CountInv'
<1>1. ASSUME NEW j \in Job, NEW result \in Results, Finish(j, result)
      PROVE  CountInv'
  <2>1. /\ pc[j] = "racing" /\ pc' = [pc EXCEPT ![j] = "saving"] /\ isInit' = isInit
        /\ UNCHANGED <<disk, starts, crashes, added>>
        /\ writes' = Append(writes, [by |-> j, step |-> "finish",
                                jobs |-> getScheduledJobs(jobsScheduled', jobData')])
    BY <1>1 DEF Finish, writeJobsToDB
  <2>2. isInit
    BY <2>1 DEF RunnerInv, WorkerInv
  <2>3. jobsScheduled' \in Seq(Job) /\ jobData' \in [Job -> JobRecord]
    BY <1>1, FinishType
  <2>4. /\ \A k \in Job : jobData'[k].retry < MaxAttempts
        /\ Scheduled' \subseteq Scheduled
        /\ \A k \in Job \ {j} : jobData'[k] = jobData[k]
        /\ j \in Scheduled' => jobData'[j].retry = jobData[j].retry + 1
    BY <1>1, FinishCounts DEF CountInv
  <2>5. \A k \in Job : starts[k] \in Nat /\ crashes \in Nat /\ jobData[k].retry \in Nat
    BY DEF TypeOK, JobRecord
  <2>6. pc'[j] = "saving" /\ \A k \in Job \ {j} : pc'[k] = pc[k]
    BY <2>1 DEF TypeOK
  <2>7. Scheduled \subseteq Job
    BY DEF Scheduled, ToSet, TypeOK
  <2>8. \A k \in Scheduled :
            starts[k] <= jobData[k].retry + crashes + (IF pc[k] = "racing" THEN 1 ELSE 0)
    BY DEF CountInv, StartInv
  <2>9. ASSUME NEW k \in Scheduled'
        PROVE  starts[k] <= jobData'[k].retry + crashes
                                + (IF pc'[k] = "racing" THEN 1 ELSE 0)
    BY <2>1, <2>4, <2>5, <2>6, <2>7, <2>8
  <2>10. \A k \in Scheduled' : pc'[k] = "idle" => k \in Scheduled /\ pc[k] = "idle"
    BY <2>4, <2>6, <2>7
  <2>11. \A k \in Job : pc[k] = "saving" => pc'[k] = "saving"
    BY <2>6
  <2>12. QED
    BY <2>1, <2>2, <2>3, <2>4, <2>6, <2>9, <2>10, <2>11, CountAppend
<1>2. CASE \E j \in Job, timestamp \in {now, now + Delay} : addJob(j, timestamp)
  <2>1. PICK j \in Job, timestamp \in {now, now + Delay} : addJob(j, timestamp)
    BY <1>2
  <2>2. timestamp \in Nat
    BY JobRunnerAssumption DEF TypeOK
  <2>3. /\ jobData' \in [Job -> JobRecord] /\ jobsScheduled \in Seq(Job)
        /\ jobData'[j].retry = 0 /\ \A k \in Job \ {j} : jobData'[k] = jobData[k]
    BY <2>1, <2>2 DEF addJob, TypeOK, JobRecord, Fresh
  <2>4. j \notin added /\ j \notin ToSet(jobsScheduled) /\ NoDuplicate(jobsScheduled)
    BY <2>1 DEF addJob, RunnerInv, ListInv, Scheduled
  <2>5. Pushed(jobsScheduled, jobData', j, jobsScheduled')
    BY <2>1 DEF addJob
  <2>6. Scheduled' = Scheduled \cup {j} /\ jobsScheduled' \in Seq(Job)
    BY <2>3, <2>4, <2>5, PushedKeeps, PushedFacts DEF Scheduled
  <2>7. starts[j] = 0
    BY <2>4 DEF CountInv, StartInv
  <2>8. /\ isInit /\ isInit' /\ UNCHANGED <<disk, starts, crashes, pc>>
        /\ added \subseteq added'
        /\ writes' = Append(writes, [by |-> j, step |-> "add",
                                jobs |-> getScheduledJobs(jobsScheduled', jobData')])
    BY <2>1 DEF addJob, writeJobsToDB
  <2>9. \A k \in Job : jobData'[k].retry < MaxAttempts
    BY <2>3, JobRunnerAssumption DEF CountInv, RetryInv
  <2>10. ASSUME NEW k \in Scheduled'
         PROVE  starts[k] <= jobData'[k].retry + crashes
                                + (IF pc'[k] = "racing" THEN 1 ELSE 0)
    <3>1. CASE k = j
      BY <2>3, <2>7, <3>1 DEF TypeOK
    <3>2. CASE k # j
      <4>1. k \in Scheduled /\ jobData'[k] = jobData[k]
        BY <2>3, <2>6, <3>2 DEF Scheduled, ToSet
      <4>2. QED
        BY <2>8, <4>1 DEF CountInv, StartInv
    <3>3. QED
      BY <3>1, <3>2
  <2>11. \A k \in Scheduled' : pc'[k] = "idle" =>
            (k \in Scheduled /\ pc[k] = "idle") \/ starts[k] = 0
    BY <2>6, <2>7, <2>8
  <2>12. QED
    BY <2>3, <2>6, <2>8, <2>9, <2>10, <2>11, CountAppend
<1>3. CASE WriteDone
  <2>1. /\ writes # <<>> /\ writes' = Tail(writes) /\ disk' = Head(writes).jobs
        /\ UNCHANGED <<isInit, jobsScheduled, jobData, crashes, added>>
        /\ \/ Head(writes).step = "add" /\ planNextJobs(pc)
           \/ /\ Head(writes).step = "finish"
              /\ planNextJobs([pc EXCEPT ![Head(writes).by] = "idle"])
    BY <1>3 DEF WriteDone
  <2>2. /\ 1 \in DOMAIN writes /\ Head(writes) = writes[1] /\ writes[1] \in Write
        /\ \A p \in DOMAIN writes' : /\ writes'[p] = writes[p + 1] /\ p + 1 \in DOMAIN writes
                                     /\ p \in Int /\ p + 1 # 1 /\ p + 1 >= 1
    BY <2>1, TailFacts DEF TypeOK
  <2>3. Saved' \subseteq {writes[q].jobs : q \in DOMAIN writes} /\ Saved' \subseteq Saved
    BY <2>1, <2>2 DEF Saved
  <2>4. isInit
    BY <2>1 DEF RunnerInv, WorkerInv
  <2>5. FinishInv
    BY DEF CountInv
  <2>6. CASE Head(writes).step = "add" /\ planNextJobs(pc)
    <3>1. \A p \in DOMAIN writes' : writes'[p].step = "finish" =>
            pc[writes'[p].by] = "saving"
      BY <2>2, <2>5 DEF FinishInv
    <3>2. pc \in [Job -> {"idle", "racing", "saving"}]
      BY DEF TypeOK
    <3>3. QED
      BY <2>1, <2>2, <2>3, <2>4, <2>6, <3>1, <3>2, CountPlan
  <2>7. CASE /\ Head(writes).step = "finish"
             /\ planNextJobs([pc EXCEPT ![Head(writes).by] = "idle"])
    <3> DEFINE b == writes[1].by
               at == [pc EXCEPT ![b] = "idle"]
    <3>1. /\ b \in Job /\ pc[b] = "saving"
          /\ \A q \in DOMAIN writes : q \in Int
          /\ \A q \in DOMAIN writes : q >= 1 =>
                RetryAtLeast(writes[q].jobs, b, starts[b] - crashes)
      BY <2>2, <2>5, <2>7 DEF FinishInv, Write, TypeOK
    <3>2. at \in [Job -> {"idle", "racing", "saving"}] /\ at[b] = "idle"
          /\ \A k \in Job \ {b} : at[k] = pc[k]
      BY <3>1 DEF TypeOK
    <3>3. planNextJobs(at)
      BY <2>2, <2>7
    <3> HIDE DEF at
    <3>4. \A s \in Saved' : RetryAtLeast(s, b, starts[b] - crashes)
      <4>1. \A q \in DOMAIN writes : q >= 1
        BY DEF TypeOK
      <4>2. QED
        BY <2>3, <3>1, <4>1
    <3>5. ASSUME NEW p \in DOMAIN writes', writes'[p].step = "finish"
          PROVE  at[writes'[p].by] = "saving"
      <4>1. writes'[p] = writes[p + 1] /\ p + 1 \in DOMAIN writes /\ p + 1 # 1
            /\ writes[p + 1].by \in Job
        BY <2>2, SavedTypes
      <4>2. writes[p + 1].by # b /\ pc[writes[p + 1].by] = "saving"
        BY <2>2, <2>5, <2>7, <3>5, <4>1 DEF FinishInv
      <4>3. QED
        BY <3>2, <4>1, <4>2
    <3>6. \A k \in Job :
              \/ at[k] = pc[k]
              \/ /\ at[k] = "idle" /\ pc[k] = "saving"
                 /\ \A s \in Saved' : RetryAtLeast(s, k, starts[k] - crashes)
      BY <3>1, <3>2, <3>4
    <3> HIDE DEF b
    <3>7. QED
      BY <2>1, <2>2, <2>3, <2>4, <3>2, <3>3, <3>5, <3>6, CountPlan
  <2>8. QED
    BY <2>1, <2>6, <2>7
<1>4. CASE startProcessing \/ Tick
  <2>1. /\ isInit /\ planNextJobs(pc)
        /\ UNCHANGED <<isInit, jobsScheduled, jobData, crashes, added, writes, disk>>
    BY <1>4 DEF startProcessing, Tick
  <2>2. Saved' = Saved
    BY <2>1 DEF Saved
  <2>3. \A p \in DOMAIN writes' : /\ writes'[p] = writes[p + 0] /\ p + 0 \in DOMAIN writes
                                  /\ p \in Int
    BY <2>1 DEF TypeOK
  <2>4. \A p \in DOMAIN writes' : writes'[p].step = "finish" =>
            pc[writes'[p].by] = "saving"
    BY <2>1 DEF CountInv, FinishInv
  <2>5. pc \in [Job -> {"idle", "racing", "saving"}]
    BY DEF TypeOK
  <2>6. QED
    BY <2>1, <2>2, <2>3, <2>4, <2>5, CountPlan
<1>5. CASE WriteFailed
  <2>1. /\ writes # <<>> /\ writes' = Tail(writes)
        /\ UNCHANGED <<isInit, jobsScheduled, jobData, pc, starts, crashes, added, disk>>
    BY <1>5 DEF WriteFailed
  <2>2. \A p \in DOMAIN writes' : /\ writes'[p] = writes[p + 1] /\ p + 1 \in DOMAIN writes
                                  /\ p \in Int
    BY <2>1, TailFacts DEF TypeOK
  <2>3. Saved' \subseteq Saved
    BY <2>1, <2>2 DEF Saved
  <2>4. QED
    BY <2>1, <2>2, <2>3, CountStays
<1>6. CASE \/ stopAndWaitCurrentJobs \/ TimePasses
           \/ \E j \in Job, result \in Results : SettleLate(j, result)
           \/ UNCHANGED vars
  <2>1. UNCHANGED <<isInit, jobsScheduled, jobData, pc, starts, crashes, added, disk,
                    writes>>
    BY <1>6 DEF stopAndWaitCurrentJobs, TimePasses, SettleLate, vars, memory, history
  <2>2. \A p \in DOMAIN writes' : /\ writes'[p] = writes[p + 0] /\ p + 0 \in DOMAIN writes
                                  /\ p \in Int
    BY <2>1 DEF TypeOK
  <2>3. Saved' \subseteq Saved
    BY <2>1 DEF Saved
  <2>4. QED
    BY <2>1, <2>2, <2>3, CountStays
<1>7. CASE \/ \E j \in Job, result \in Results : Settle(j, result)
           \/ \E j \in Job : SettleStale(j) \/ Timeout(j)
    BY <1>1, <1>7 DEF Settle, SettleStale, Timeout, Results
<1>8. QED
    BY <1>2, <1>3, <1>4, <1>5, <1>6, <1>7, CountLoad, CountCrash DEF Next

\* A job never starts more often than maxAttempts and once more per end of the
\* process, whichever writes fail, are lost or come late, and however its tries
\* end: currentRetry, in memory and in every write, lags behind by one at most.
THEOREM AttemptsAreBounded == Spec => []AttemptsBounded
<1>1. Init => CountInv
    BY CountInit
<1>2. TypeOK /\ RunnerInv /\ CountInv /\ [Next]_vars => CountInv'
    BY CountStep
<1>3. CountInv => AttemptsBounded
    BY DEF CountInv
<1>4. QED
    BY <1>1, <1>2, <1>3, TypeCorrect, RunnerInvariant, PTL DEF Spec
=============================================================================
