--------------------------- MODULE ReceiverProofs ---------------------------
(***************************************************************************)
(* What every step of the receiver keeps, whatever poll or restart came    *)
(* before it: the types, what is still to be handled, and the number of    *)
(* commits to come.  SwarmPollingProofs composes it with the polls.        *)
(***************************************************************************)
EXTENDS Receiver, SequenceTheorems, FiniteSetTheorems, TLAPS

-----------------------------------------------------------------------------
(* Sequences as sets *)

LEMMA ToSetFacts ==
    ASSUME NEW S, NEW s \in Seq(S)
    PROVE  /\ ToSet(s) \subseteq S
           /\ s = <<>> <=> ToSet(s) = {}
           /\ \A e \in S : Append(s, e) \in Seq(S) /\ ToSet(Append(s, e)) = ToSet(s) \cup {e}
           /\ \A t \in Seq(S) : s \o t \in Seq(S) /\ ToSet(s \o t) = ToSet(s) \cup ToSet(t)
           /\ s # <<>> =>
                /\ Head(s) \in S
                /\ Tail(s) \in Seq(S)
                /\ ToSet(s) = {Head(s)} \cup ToSet(Tail(s))
<1>1. ToSet(s) \subseteq S /\ (s = <<>> <=> ToSet(s) = {})
    BY DEF ToSet
<1>2. ASSUME NEW e \in S
      PROVE  Append(s, e) \in Seq(S) /\ ToSet(Append(s, e)) = ToSet(s) \cup {e}
  <2>1. /\ Append(s, e) \in Seq(S)
        /\ Len(Append(s, e)) = Len(s) + 1
        /\ \A i \in 1..Len(s) : Append(s, e)[i] = s[i]
        /\ Append(s, e)[Len(s) + 1] = e
    BY AppendProperties
  <2> DEFINE t == Append(s, e)
  <2> HIDE DEF t
  <2>2. ToSet(t) = ToSet(s) \cup {e}
    BY <2>1 DEF ToSet, t
  <2>3. QED
    BY <2>1, <2>2 DEF t
<1>3. ASSUME NEW t \in Seq(S)
      PROVE  s \o t \in Seq(S) /\ ToSet(s \o t) = ToSet(s) \cup ToSet(t)
  <2>1. ASSUME NEW r
        PROVE  ToSet(r) = Range(r)
    BY DEF ToSet, Range
  <2>2. Range(s \o t) = Range(s) \cup Range(t)
    BY RangeConcatenation
  <2>3. s \o t \in Seq(S)
    BY ConcatProperties
  <2>4. QED
    BY <2>1, <2>2, <2>3
<1>4. ASSUME s # <<>>
      PROVE  /\ Head(s) \in S /\ Tail(s) \in Seq(S)
             /\ ToSet(s) = {Head(s)} \cup ToSet(Tail(s))
  <2>1. /\ Head(s) \in S /\ Tail(s) \in Seq(S) /\ Len(Tail(s)) = Len(s) - 1
        /\ \A i \in 1..Len(Tail(s)) : Tail(s)[i] = s[i + 1]
        /\ Head(s) = s[1] /\ 1 \in 1..Len(s)
    BY <1>4, HeadTailProperties
  <2> DEFINE t == Tail(s)
  <2> HIDE DEF t
  <2>2. \A i \in 1..Len(s) : s[i] = Head(s) \/ s[i] \in ToSet(t)
    <3> SUFFICES ASSUME NEW i \in 1..Len(s), i # 1
                 PROVE  s[i] \in ToSet(t)
      BY <2>1
    <3>1. i - 1 \in 1..Len(t) /\ t[i - 1] = s[i]
      BY <2>1 DEF t
    <3>2. i - 1 \in DOMAIN t
      BY <2>1, <3>1 DEF t
    <3>3. QED
      BY <3>1, <3>2 DEF ToSet
  <2>3. ToSet(s) = {Head(s)} \cup ToSet(t)
    <3>1. \A x \in ToSet(s) : x = Head(s) \/ x \in ToSet(t)
      BY <2>1, <2>2 DEF ToSet
    <3>2. \A x \in ToSet(t) : x \in ToSet(s)
      BY <2>1 DEF ToSet, t
    <3>3. Head(s) \in ToSet(s)
      BY <2>1 DEF ToSet
    <3>4. QED
      BY <3>1, <3>2, <3>3
  <2>4. QED
    BY <2>1, <2>3 DEF t
<1>5. QED
    BY <1>1, <1>2, <1>3, <1>4

\* Without returns what it does not drop: the places of the elements it keeps
\* are 1 to their number, each taken once.
LEMMA WithoutFacts ==
    ASSUME NEW S, NEW s \in Seq(S), NEW drop
    PROVE  /\ Without(s, drop) \in Seq(S)
           /\ ToSet(Without(s, drop)) = ToSet(s) \ drop
<1> DEFINE kept == {i \in DOMAIN s : s[i] \notin drop}
           Upto(i) == {j \in kept : j <= i}
           Place(i) == Cardinality(Upto(i))
           n == Cardinality(kept)
           At(k) == CHOOSE i \in kept : Place(i) = k
           place == [i \in kept |-> Place(i)]
<1>1. DOMAIN s = 1..Len(s) /\ IsFiniteSet(DOMAIN s)
    BY FS_Interval
<1>2. kept \subseteq Nat /\ kept \subseteq DOMAIN s
    BY <1>1
<1>3. IsFiniteSet(kept) /\ n \in Nat
    BY <1>1, <1>2, FS_Subset, FS_CardinalityType
<1> HIDE DEF kept
<1>4. ASSUME NEW i \in kept
      PROVE  IsFiniteSet(Upto(i)) /\ Place(i) \in 1..n
  <2>1. /\ IsFiniteSet(Upto(i)) /\ Place(i) \in Nat /\ Place(i) <= n
    <3>1. Upto(i) \in SUBSET kept
      OBVIOUS
    <3>2. QED
      BY <1>3, <3>1, FS_Subset, FS_CardinalityType
  <2>2. i \in Upto(i)
    BY <1>2
  <2>3. Place(i) # 0
    BY <2>1, <2>2, FS_EmptySet
  <2>4. QED
    BY <1>3, <2>1, <2>3
<1>5. ASSUME NEW i \in kept, NEW j \in kept, i < j
      PROVE  Place(i) # Place(j)
  <2>1. Upto(i) \in SUBSET Upto(j)
    <3>1. i \in Nat /\ j \in Nat
      BY <1>2
    <3>2. \A k \in kept : k \in Nat /\ (k <= i => k <= j)
      BY <1>2, <1>5, <3>1
    <3>3. QED
      BY <3>2
  <2>2. j \in Upto(j) /\ j \notin Upto(i)
    BY <1>2, <1>5
  <2> HIDE DEF Upto
  <2>3. Cardinality(Upto(j)) = Cardinality(Upto(i)) => Upto(j) = Upto(i)
    BY <1>4, <2>1, FS_Subset
  <2>4. QED
    BY <2>2, <2>3
<1> HIDE DEF Place
<1>6. place \in Injection(kept, 1..n)
  <2>1. place \in [kept -> 1..n]
    BY <1>4
  <2>2. \A i, j \in kept : place[i] = place[j] => i = j
    <3>0. \A i \in kept : place[i] = Place(i)
      OBVIOUS
    <3> HIDE DEF place
    <3> SUFFICES ASSUME NEW i \in kept, NEW j \in kept, Place(i) = Place(j)
                 PROVE  i = j
      BY <3>0
    <3>1. ~(i < j) /\ ~(j < i)
      BY <1>5
    <3>2. i \in Nat /\ j \in Nat
      BY <1>2
    <3>3. QED
      BY <3>1, <3>2
  <2>3. QED
    BY <2>1, <2>2 DEF Injection, IsInjective
<1>7. IsFiniteSet(1..n) /\ Cardinality(1..n) = n
    BY <1>3, FS_Interval
<1>8. place \in Surjection(kept, 1..n)
    BY <1>3, <1>6, <1>7, FS_Injection
<1>9. ASSUME NEW k \in 1..n
      PROVE  At(k) \in kept /\ Place(At(k)) = k
  <2>1. \E i \in kept : place[i] = k
    BY <1>8 DEF Surjection
  <2>2. \E i \in kept : Place(i) = k
    BY <2>1
  <2>3. QED
    BY <2>2
<1>10. ASSUME NEW i \in kept
       PROVE  At(Place(i)) = i
  <2>1. Place(i) \in 1..n
    BY <1>4 DEF Place
  <2>2. At(Place(i)) \in kept /\ Place(At(Place(i))) = Place(i)
    BY <1>9, <2>1
  <2>3. place[At(Place(i))] = place[i]
    BY <2>2
  <2>4. QED
    BY <1>6, <2>2, <2>3 DEF Injection, IsInjective
<1>11. Without(s, drop) = [k \in 1..n |-> s[At(k)]]
    BY DEF Without, kept, Place
<1> HIDE DEF At
<1> DEFINE w == [k \in 1..n |-> s[At(k)]]
<1>12. \A k \in 1..n : s[At(k)] \in S /\ s[At(k)] \in ToSet(s) \ drop
  <2> TAKE k \in 1..n
  <2>1. At(k) \in kept
    BY <1>9
  <2>2. At(k) \in DOMAIN s /\ s[At(k)] \notin drop
    BY <2>1 DEF kept
  <2>3. QED
    BY <2>2 DEF ToSet
<1>13. w \in Seq(S)
    BY <1>3, <1>12
<1>14. ToSet(w) \subseteq ToSet(s) \ drop
    BY <1>12 DEF ToSet
<1>15. ASSUME NEW e \in ToSet(s) \ drop
       PROVE  e \in ToSet(w)
  <2>1. PICK i \in DOMAIN s : s[i] = e
    BY DEF ToSet
  <2>2. i \in kept
    BY <2>1 DEF kept
  <2>3. Place(i) \in 1..n /\ At(Place(i)) = i
    BY <1>4, <1>10, <2>2 DEF Place
  <2>4. w[Place(i)] = e
    BY <2>1, <2>3
  <2>5. QED
    BY <2>3, <2>4 DEF ToSet
<1>16. QED
    BY <1>11, <1>13, <1>14, <1>15

-----------------------------------------------------------------------------
(* What the steps of the receiver do to the envelopes *)

Row == [env : Envelope, attempts : 1..MaxAttempts]

\* The envelopes and messages a step may leave out of account: none.
Accounts ==
    /\ Concluded \subseteq Concluded'
    /\ \A env \in Rows : env \in Rows' \/ Message(env) \in Concluded'
    /\ \A env \in ToSet(adding) :
         env \in ToSet(adding') \/ env \in Waiting' \/ Message(env) \in Concluded'
    /\ \A env \in Waiting : env \in Waiting' \/ Message(env) \in Concluded'
    /\ \A env \in Waiting' :
         env \in Waiting \/ env \in Rows' \/ Message(env) \in Concluded'
    /\ \A m \in Messages : stored[m] > 0 => stored'[m] > 0
    /\ \A j \in Running' :
         j.phase = "stored" => j \in Running \/ stored'[Message(j.env)] > 0

\* What is empty for a group stays empty.
StaysEmpty ==
    unprocessed = <<>> /\ adding = <<>> /\ envelopeQueue = <<>> =>
        unprocessed' = <<>> /\ adding' = <<>> /\ envelopeQueue' = <<>>

\* The rows of a job that has stored its message may go.
StoredJobs == \A j \in Running : j.phase = "stored" => stored[Message(j.env)] > 0 \/ Rows = {}

LEMMA EnvelopeFacts ==
    ASSUME NEW env \in Envelope
    PROVE  Message(env) \in Messages
BY DEF Envelope, Message

LEMMA RowsFacts ==
    ASSUME unprocessed \in Seq(Row)
    PROVE  /\ Rows = {row.env : row \in ToSet(unprocessed)}
           /\ Rows \subseteq Envelope
           /\ unprocessed = <<>> <=> Rows = {}
<1>1. Rows = {row.env : row \in ToSet(unprocessed)}
    BY DEF Rows, ToSet
<1>2. ToSet(unprocessed) \subseteq Row /\ (unprocessed = <<>> <=> ToSet(unprocessed) = {})
    BY ToSetFacts
<1>3. QED
    BY <1>1, <1>2 DEF Row

LEMMA RemoveFacts ==
    ASSUME unprocessed \in Seq(Row), NEW env, removeFromCache(env)
    PROVE  /\ unprocessed' \in Seq(Row)
           /\ Rows' = Rows \ {env}
           /\ unprocessed = <<>> => unprocessed' = <<>>
<1> DEFINE drop == {row \in ToSet(unprocessed) : row.env = env}
<1>1. unprocessed' = Without(unprocessed, drop)
    BY DEF removeFromCache
<1> HIDE DEF drop
<1>2. /\ unprocessed' \in Seq(Row)
      /\ ToSet(unprocessed') = ToSet(unprocessed) \ drop
    BY <1>1, WithoutFacts
<1>3. Rows = {row.env : row \in ToSet(unprocessed)} /\ Rows' = {row.env : row \in ToSet(unprocessed')}
    BY DEF Rows, ToSet
<1>4. Rows' = Rows \ {env}
    BY <1>2, <1>3 DEF drop
<1>5. unprocessed = <<>> <=> ToSet(unprocessed) = {}
    BY ToSetFacts
<1>6. unprocessed' = <<>> <=> ToSet(unprocessed') = {}
    BY <1>2, ToSetFacts
<1>7. QED
    BY <1>2, <1>4, <1>5, <1>6

LEMMA HandleContent ==
    ASSUME ReceiverTypeOK, NEW env \in Envelope, innerHandleSwarmContentMessage(env)
    PROVE  /\ unprocessed' \in Seq(Row)
           /\ pendingJobs' \in Seq(Envelope)
           /\ consumed \subseteq consumed' /\ consumed' \subseteq Messages
           /\ erred \subseteq erred' /\ erred' \subseteq Messages
           /\ faults' \in 0..MaxFaults
           /\ ToSet(pendingJobs) \subseteq ToSet(pendingJobs')
           /\ ToSet(pendingJobs') \subseteq ToSet(pendingJobs) \cup {env}
           /\ Rows' \subseteq Rows
           /\ \A e \in Rows \ Rows' : Message(e) \in consumed'
           /\ env \in ToSet(pendingJobs') \/ Message(env) \in consumed' \cup erred'
           /\ env \in ToSet(pendingJobs') \/ env \notin Rows' \/ Message(env) \in erred'
           /\ unprocessed = <<>> => unprocessed' = <<>>
           /\ UNCHANGED <<job, overdue, stored, lost, exposed>>
<1>1. /\ unprocessed \in Seq(Row) /\ pendingJobs \in Seq(Envelope)
      /\ consumed \subseteq Messages /\ erred \subseteq Messages /\ faults \in 0..MaxFaults
      /\ Message(env) \in Messages
    BY EnvelopeFacts DEF ReceiverTypeOK, Row
<1>2. UNCHANGED <<job, overdue, stored, lost, exposed>>
    BY DEF innerHandleSwarmContentMessage
<1>3. CASE DataMessage(env)
  <2>1. /\ pendingJobs' \in Seq(Envelope)
        /\ ToSet(pendingJobs') = ToSet(pendingJobs) \cup {env}
    BY <1>1, <1>3, ToSetFacts DEF DataMessage
  <2>2. UNCHANGED <<unprocessed, consumed, erred, faults>> /\ Rows' = Rows
    BY <1>3 DEF DataMessage, Rows
  <2>3. QED
    BY <1>1, <1>2, <2>1, <2>2
<1>4. CASE OtherContent(env)
  <2>1. /\ unprocessed' \in Seq(Row) /\ Rows' = Rows \ {env}
        /\ unprocessed = <<>> => unprocessed' = <<>>
    BY <1>1, <1>4, RemoveFacts DEF OtherContent
  <2>2. consumed' = consumed \cup {Message(env)} /\ UNCHANGED <<pendingJobs, erred, faults>>
    BY <1>4 DEF OtherContent
  <2>3. QED
    BY <1>1, <1>2, <2>1, <2>2
<1>5. CASE ContentFails(env)
  <2>1. /\ erred' = erred \cup {Message(env)}
        /\ UNCHANGED <<unprocessed, pendingJobs, consumed>> /\ Rows' = Rows
        /\ faults' \in 0..MaxFaults
    BY <1>1, <1>5, ReceiverAssumption DEF ContentFails, Fault, Rows
  <2>2. QED
    BY <1>1, <1>2, <2>1
<1>6. QED
    BY <1>3, <1>4, <1>5 DEF innerHandleSwarmContentMessage

\* What every step of the receiver keeps or does, but for the commits it counts.
StepKeeps == ReceiverTypeOK' /\ AwaitInv' /\ Accounts /\ StaysEmpty

LEMMA KeepsAddToCache ==
    ASSUME ReceiverTypeOK, AwaitInv, addToCache
    PROVE  StepKeeps
<1> DEFINE env == Head(adding)
           row == [env |-> env, attempts |-> 1]
<1>1. /\ adding \in Seq(Envelope) /\ adding # <<>>
      /\ unprocessed \in Seq(Row) /\ envelopeQueue \in Seq(Envelope)
    BY DEF ReceiverTypeOK, addToCache, Row
<1>2. /\ env \in Envelope /\ adding' = Tail(adding) /\ adding' \in Seq(Envelope)
      /\ ToSet(adding) = {env} \cup ToSet(adding')
    BY <1>1, ToSetFacts DEF addToCache
<1>3. row \in Row
    BY <1>2, ReceiverAssumption DEF Row
<1>4. /\ unprocessed' = Append(unprocessed, row) /\ unprocessed' \in Seq(Row)
      /\ ToSet(unprocessed') = ToSet(unprocessed) \cup {row}
    BY <1>1, <1>3, ToSetFacts DEF addToCache
<1>5. /\ envelopeQueue' \in Seq(Envelope)
      /\ ToSet(envelopeQueue') = ToSet(envelopeQueue) \cup {env}
    BY <1>1, <1>2, ToSetFacts DEF addToCache
<1>6. UNCHANGED <<late, conversation, replayed, outcomes, faults>>
    BY DEF addToCache
<1>7. Rows' = Rows \cup {env}
  <2>1. Rows = {r.env : r \in ToSet(unprocessed)} /\ Rows' = {r.env : r \in ToSet(unprocessed')}
    BY DEF Rows, ToSet
  <2>2. QED
    BY <1>4, <2>1
<1> HIDE DEF env, row
<1>8. ReceiverTypeOK'
    BY <1>2, <1>4, <1>5, <1>6 DEF ReceiverTypeOK, Row, conversation, outcomes
<1>9. AwaitInv'
    BY <1>5, <1>6, <1>7 DEF AwaitInv, Handed, Running, conversation, outcomes
<1>10. Accounts
    BY <1>2, <1>5, <1>6, <1>7
    DEF Accounts, Concluded, Waiting, Running, conversation, outcomes
<1>11. StaysEmpty
    BY <1>1 DEF StaysEmpty
<1>12. QED
    BY <1>8, <1>9, <1>10, <1>11 DEF StepKeeps

LEMMA KeepsAddToCacheFails ==
    ASSUME ReceiverTypeOK, AwaitInv, addToCacheFails
    PROVE  StepKeeps
<1>1. adding \in Seq(Envelope) /\ adding # <<>>
    BY DEF ReceiverTypeOK, addToCacheFails
<1>2. /\ Head(adding) \in Envelope /\ adding' \in Seq(Envelope)
      /\ ToSet(adding) = {Head(adding)} \cup ToSet(adding')
    BY <1>1, ToSetFacts DEF addToCacheFails
<1>3. /\ lost' = lost \cup {Message(Head(adding))}
      /\ Message(Head(adding)) \in Messages
      /\ faults' \in 0..MaxFaults
      /\ UNCHANGED <<unprocessed, envelopeQueue, late, conversation, replayed,
                     stored, consumed, erred, exposed>>
    BY <1>2, EnvelopeFacts, ReceiverAssumption DEF addToCacheFails, Fault, ReceiverTypeOK
<1>4. ReceiverTypeOK'
    BY <1>2, <1>3 DEF ReceiverTypeOK, conversation
<1>5. AwaitInv'
    BY <1>3 DEF AwaitInv, Handed, Rows, Running, conversation
<1>6. Accounts
    BY <1>2, <1>3 DEF Accounts, Concluded, Waiting, Rows, Running, conversation
<1>7. StaysEmpty
    BY <1>1 DEF StaysEmpty
<1>8. QED
    BY <1>4, <1>5, <1>6, <1>7 DEF StepKeeps

\* queueAllCached below the limit: every row is queued, and a row that is deleted
\* for its attempts is lost.
LEMMA ReplayFacts ==
    ASSUME ReceiverTypeOK, queueAllCached, ~(Len(unprocessed) > CacheLimit)
    PROVE  /\ unprocessed' \in Seq(Row)
           /\ envelopeQueue' \in Seq(Envelope)
           /\ ToSet(envelopeQueue') = ToSet(envelopeQueue) \cup Rows
           /\ lost' = lost \cup RowsOf(MaxAttempts - 1)
           /\ Rows' \subseteq Rows
           /\ \A env \in Rows : env \in Rows' \/ Message(env) \in lost'
           /\ unprocessed = <<>> =>
                unprocessed' = <<>> /\ (envelopeQueue = <<>> => envelopeQueue' = <<>>)
<1> DEFINE Tried == [env : Envelope, attempts : 1..MaxAttempts + 1]
           envs == [i \in DOMAIN unprocessed |-> unprocessed[i].env]
           rows == [i \in DOMAIN unprocessed |-> [unprocessed[i] EXCEPT !.attempts = @ + 1]]
           drop == {row \in ToSet(rows) : row.attempts >= MaxAttempts}
<1>1. /\ unprocessed \in Seq(Row) /\ envelopeQueue \in Seq(Envelope)
      /\ Len(unprocessed) \in Nat /\ DOMAIN unprocessed = 1..Len(unprocessed)
      /\ \A i \in DOMAIN unprocessed : unprocessed[i] \in Row
      /\ MaxAttempts \in Nat \ {0}
  <2>1. unprocessed \in Seq(Row) /\ envelopeQueue \in Seq(Envelope)
    BY DEF ReceiverTypeOK, Row
  <2> HIDE DEF Row
  <2>2. QED
    BY <2>1, ReceiverAssumption
<1>2. \A i \in DOMAIN unprocessed :
        /\ rows[i] = [unprocessed[i] EXCEPT !.attempts = @ + 1]
        /\ rows[i] \in Tried
        /\ rows[i].env = unprocessed[i].env
        /\ rows[i].attempts = unprocessed[i].attempts + 1
        /\ envs[i] = unprocessed[i].env /\ envs[i] \in Envelope
    BY <1>1 DEF Row
<1>3. /\ rows \in Seq(Tried) /\ envs \in Seq(Envelope)
      /\ DOMAIN rows = DOMAIN unprocessed /\ DOMAIN envs = DOMAIN unprocessed
  <2>1. \A i \in 1..Len(unprocessed) : rows[i] \in Tried /\ envs[i] \in Envelope
    BY <1>1, <1>2
  <2>2. rows \in [1..Len(unprocessed) -> Tried] /\ envs \in [1..Len(unprocessed) -> Envelope]
    <3> HIDE DEF Tried
    <3>1. QED
      BY <1>1, <2>1
  <2> HIDE DEF rows, envs, Tried
  <2>3. QED
    BY <1>1, <2>2
<1>4. ToSet(envs) = Rows
    BY <1>2, <1>3 DEF ToSet, Rows
<1>5. /\ unprocessed' = Without(rows, drop) /\ envelopeQueue' = envelopeQueue \o envs
      /\ lost' = lost \cup RowsOf(MaxAttempts - 1)
    BY DEF queueAllCached
<1> HIDE DEF rows, envs
<1>6. /\ envelopeQueue' \in Seq(Envelope)
      /\ ToSet(envelopeQueue') = ToSet(envelopeQueue) \cup Rows
    BY <1>1, <1>3, <1>4, <1>5, ToSetFacts
<1>7. /\ unprocessed' \in Seq(Tried)
      /\ ToSet(unprocessed') = ToSet(rows) \ drop
    <2> HIDE DEF Tried, drop
    <2>1. QED
      BY <1>3, <1>5, WithoutFacts
<1>8. \A row \in ToSet(unprocessed') : row \in Row
  <2>1. ToSet(rows) \subseteq Tried
    BY <1>3, ToSetFacts
  <2>2. QED
    BY <1>1, <1>7, <2>1 DEF Row
<1>9. unprocessed' \in Seq(Row)
  <2>1. \A i \in 1..Len(unprocessed') : unprocessed'[i] \in Row
    BY <1>7, <1>8 DEF ToSet
  <2>2. QED
    BY <1>7, <2>1
<1>10. Rows' = {row.env : row \in ToSet(unprocessed')}
    BY DEF Rows, ToSet
<1>11. Rows' \subseteq Rows
  <2>1. \A row \in ToSet(rows) : row.env \in Rows
    BY <1>2, <1>3 DEF ToSet, Rows
  <2>2. QED
    BY <1>7, <1>10, <2>1
<1>12. ASSUME NEW env \in Rows, env \notin Rows'
       PROVE  Message(env) \in lost'
  <2>1. PICK i \in DOMAIN unprocessed : unprocessed[i].env = env
    BY DEF Rows
  <2>2. rows[i] \in ToSet(rows) /\ rows[i].env = env
    BY <1>2, <1>3, <2>1 DEF ToSet
  <2>3. rows[i] \in drop
    BY <1>7, <1>10, <1>12, <2>2
  <2>4. unprocessed[i].attempts >= MaxAttempts - 1
    <3>1. rows[i].attempts >= MaxAttempts /\ unprocessed[i].attempts \in Nat
      BY <1>1, <2>3 DEF Row
    <3>2. rows[i].attempts = unprocessed[i].attempts + 1
      BY <1>2
    <3>3. QED
      BY <1>1, <3>1, <3>2
  <2>5. unprocessed[i] \in ToSet(unprocessed)
    BY DEF ToSet
  <2>6. Message(env) \in RowsOf(MaxAttempts - 1)
    BY <2>1, <2>4, <2>5 DEF RowsOf
  <2>7. QED
    BY <1>5, <2>6
<1>13. ASSUME unprocessed = <<>>
       PROVE  unprocessed' = <<>> /\ (envelopeQueue = <<>> => envelopeQueue' = <<>>)
  <2>1. Rows = {} /\ Rows' = {}
    BY <1>11, <1>13 DEF Rows
  <2>2. ToSet(unprocessed') = {}
    BY <1>10, <2>1
  <2>3. unprocessed' = <<>>
    BY <1>9, <2>2, ToSetFacts
  <2>4. envelopeQueue = <<>> <=> ToSet(envelopeQueue) = {}
    BY <1>1, ToSetFacts
  <2>5. envelopeQueue' = <<>> <=> ToSet(envelopeQueue') = {}
    BY <1>6, ToSetFacts
  <2>6. QED
    BY <1>6, <2>1, <2>3, <2>4, <2>5
<1>14. QED
    BY <1>5, <1>6, <1>9, <1>11, <1>12, <1>13

LEMMA RowsOfMessages ==
    ASSUME unprocessed \in Seq(Row)
    PROVE  /\ \A n : RowsOf(n) \subseteq Messages
           /\ \A env \in Rows : Message(env) \in RowsOf(1)
<1>1. ToSet(unprocessed) \subseteq Row
    BY ToSetFacts
<1>2. \A row \in Row : Message(row.env) \in Messages /\ row.attempts >= 1
    BY EnvelopeFacts, ReceiverAssumption DEF Row
<1>3. Rows = {row.env : row \in ToSet(unprocessed)}
    BY DEF Rows, ToSet
<1>4. QED
    BY <1>1, <1>2, <1>3 DEF RowsOf

LEMMA KeepsQueueAllCached ==
    ASSUME ReceiverTypeOK, AwaitInv, queueAllCached
    PROVE  StepKeeps
<1>1. unprocessed \in Seq(Row) /\ lost \subseteq Messages
    BY DEF ReceiverTypeOK, Row
<1>2. /\ replayed' = TRUE
      /\ UNCHANGED <<adding, late, conversation, stored, consumed, erred, exposed, faults>>
    BY DEF queueAllCached
<1>3. CASE Len(unprocessed) > CacheLimit
  <2>1. /\ unprocessed' = <<>> /\ lost' = lost \cup RowsOf(1) /\ envelopeQueue' = envelopeQueue
        /\ Rows' = {} /\ lost' \subseteq Messages
    BY <1>1, <1>3, RowsOfMessages DEF queueAllCached, Rows
  <2>2. ReceiverTypeOK'
    BY <1>2, <2>1 DEF ReceiverTypeOK, conversation
  <2>3. AwaitInv' /\ StaysEmpty
    BY <1>2, <2>1 DEF AwaitInv, StaysEmpty
  <2>4. Accounts
    BY <1>1, <1>2, <2>1, RowsOfMessages
    DEF Accounts, Concluded, Waiting, Running, conversation
  <2>5. QED
    BY <2>2, <2>3, <2>4 DEF StepKeeps
<1>4. CASE ~(Len(unprocessed) > CacheLimit)
  <2>1. /\ unprocessed' \in Seq(Row)
        /\ envelopeQueue' \in Seq(Envelope)
        /\ ToSet(envelopeQueue') = ToSet(envelopeQueue) \cup Rows
        /\ lost' = lost \cup RowsOf(MaxAttempts - 1)
        /\ Rows' \subseteq Rows
        /\ \A env \in Rows : env \in Rows' \/ Message(env) \in lost'
        /\ unprocessed = <<>> =>
             unprocessed' = <<>> /\ (envelopeQueue = <<>> => envelopeQueue' = <<>>)
    BY <1>4, ReplayFacts
  <2>2. lost' \subseteq Messages
    BY <1>1, <2>1, RowsOfMessages
  <2>3. ReceiverTypeOK'
    BY <1>2, <2>1, <2>2 DEF ReceiverTypeOK, conversation, Row
  <2>4. AwaitInv' /\ StaysEmpty
    BY <1>2, <2>1 DEF AwaitInv, StaysEmpty, Handed, Running, conversation
  <2>5. Accounts
    BY <1>2, <2>1 DEF Accounts, Concluded, Waiting, Running, conversation
  <2>6. QED
    BY <2>3, <2>4, <2>5 DEF StepKeeps
<1>5. QED
    BY <1>3, <1>4

LEMMA AtMostOneJob ==
    /\ Cardinality({}) <= 1
    /\ \A j : Cardinality({j}) <= 1
<1>1. \A j : Cardinality({j}) = 1
    BY FS_Singleton
<1>2. Cardinality({}) = 0
    BY FS_EmptySet
<1>3. ASSUME NEW j
      PROVE  Cardinality({j}) <= 1
  <2>1. Cardinality({j}) = 1
    BY <1>1
  <2>2. QED
    BY <2>1
<1>4. QED
    BY <1>2, <1>3

LEMMA KeepsQueueSwarmEnvelope ==
    ASSUME ReceiverTypeOK, AwaitInv, queueSwarmEnvelope
    PROVE  StepKeeps
<1> DEFINE env == Head(envelopeQueue)
<1>1. envelopeQueue \in Seq(Envelope) /\ envelopeQueue # <<>>
    BY DEF ReceiverTypeOK, queueSwarmEnvelope
<1>2. /\ env \in Envelope /\ envelopeQueue' \in Seq(Envelope)
      /\ ToSet(envelopeQueue) = {env} \cup ToSet(envelopeQueue')
      /\ Message(env) \in Messages
    BY <1>1, ToSetFacts, EnvelopeFacts DEF queueSwarmEnvelope
<1>3. UNCHANGED <<adding, replayed>>
    BY DEF queueSwarmEnvelope
<1>4. StaysEmpty
    BY <1>1 DEF StaysEmpty
<1> HIDE DEF env
<1>5. CASE innerHandleSwarmContentMessage(env) /\ UNCHANGED late
  <2>1. /\ unprocessed' \in Seq(Row)
        /\ pendingJobs' \in Seq(Envelope)
        /\ consumed \subseteq consumed' /\ consumed' \subseteq Messages
        /\ erred \subseteq erred' /\ erred' \subseteq Messages
        /\ faults' \in 0..MaxFaults
        /\ ToSet(pendingJobs) \subseteq ToSet(pendingJobs')
        /\ ToSet(pendingJobs') \subseteq ToSet(pendingJobs) \cup {env}
        /\ Rows' \subseteq Rows
        /\ \A e \in Rows \ Rows' : Message(e) \in consumed'
        /\ env \in ToSet(pendingJobs') \/ Message(env) \in consumed' \cup erred'
        /\ env \in ToSet(pendingJobs') \/ env \notin Rows' \/ Message(env) \in erred'
        /\ UNCHANGED <<job, overdue, stored, lost, exposed>>
    BY <1>2, <1>5, HandleContent
  <2>2. ReceiverTypeOK'
    BY <1>2, <1>3, <1>5, <2>1 DEF ReceiverTypeOK, Row
  <2>3. AwaitInv'
    BY <1>2, <1>3, <1>5, <2>1 DEF AwaitInv, Handed, Running
  <2>4. Accounts
    BY <1>2, <1>3, <1>5, <2>1 DEF Accounts, Concluded, Waiting, Running
  <2>5. QED
    BY <1>4, <2>2, <2>3, <2>4 DEF StepKeeps
<1>6. CASE TaskTimesOut(env)
  <2>1. /\ late' = late \cup {env} /\ faults' \in 0..MaxFaults
        /\ UNCHANGED <<unprocessed, conversation, outcomes>>
    BY <1>6, ReceiverAssumption DEF TaskTimesOut, Fault, ReceiverTypeOK
  <2>2. ReceiverTypeOK'
    BY <1>2, <1>3, <2>1 DEF ReceiverTypeOK, conversation, outcomes
  <2>3. AwaitInv'
    BY <1>2, <1>3, <2>1 DEF AwaitInv, Handed, Rows, Running, conversation, outcomes
  <2>4. Accounts
    BY <1>2, <1>3, <2>1 DEF Accounts, Concluded, Waiting, Rows, Running, conversation, outcomes
  <2>5. QED
    BY <1>4, <2>2, <2>3, <2>4 DEF StepKeeps
<1>7. QED
    BY <1>5, <1>6 DEF queueSwarmEnvelope, env

LEMMA KeepsLateTask ==
    ASSUME ReceiverTypeOK, AwaitInv, LateTask
    PROVE  StepKeeps
<1>1. PICK env \in late :
        /\ late' = late \ {env}
        /\ innerHandleSwarmContentMessage(env)
        /\ UNCHANGED <<adding, envelopeQueue, replayed>>
    BY DEF LateTask
<1>2. env \in Envelope
    BY DEF ReceiverTypeOK
<1>3. /\ unprocessed' \in Seq(Row)
      /\ pendingJobs' \in Seq(Envelope)
      /\ consumed \subseteq consumed' /\ consumed' \subseteq Messages
      /\ erred \subseteq erred' /\ erred' \subseteq Messages
      /\ faults' \in 0..MaxFaults
      /\ ToSet(pendingJobs) \subseteq ToSet(pendingJobs')
      /\ ToSet(pendingJobs') \subseteq ToSet(pendingJobs) \cup {env}
      /\ Rows' \subseteq Rows
      /\ \A e \in Rows \ Rows' : Message(e) \in consumed'
      /\ env \in ToSet(pendingJobs') \/ Message(env) \in consumed' \cup erred'
      /\ env \in ToSet(pendingJobs') \/ env \notin Rows' \/ Message(env) \in erred'
      /\ unprocessed = <<>> => unprocessed' = <<>>
      /\ UNCHANGED <<job, overdue, stored, lost, exposed>>
    BY <1>1, <1>2, HandleContent
<1>4. ReceiverTypeOK'
    BY <1>1, <1>3 DEF ReceiverTypeOK, Row
<1>5. AwaitInv'
    BY <1>1, <1>3 DEF AwaitInv, Handed, Running
<1>6. Accounts
    BY <1>1, <1>3 DEF Accounts, Concluded, Waiting, Running
<1>7. StaysEmpty
    BY <1>1, <1>3 DEF StaysEmpty
<1>8. QED
    BY <1>4, <1>5, <1>6, <1>7 DEF StepKeeps

LEMMA KeepsStartJob ==
    ASSUME ReceiverTypeOK, AwaitInv, StartJob
    PROVE  StepKeeps
<1> DEFINE env == Head(pendingJobs)
           new == [env |-> env, phase |-> "checked"]
<1>1. /\ pendingJobs \in Seq(Envelope) /\ pendingJobs # <<>>
      /\ unprocessed \in Seq(Row) /\ consumed \subseteq Messages
      /\ job = {}
    BY DEF ReceiverTypeOK, StartJob, MayStart, Row
<1>2. /\ env \in Envelope /\ pendingJobs' \in Seq(Envelope)
      /\ ToSet(pendingJobs) = {env} \cup ToSet(pendingJobs')
      /\ Message(env) \in Messages
    BY <1>1, ToSetFacts, EnvelopeFacts DEF StartJob
<1>3. UNCHANGED <<queues, overdue, replayed, stored, erred, lost, exposed, faults>>
    BY DEF StartJob
<1>4. new \in Job /\ new.env = env /\ new.phase = "checked"
    BY <1>2 DEF Job
<1> HIDE DEF env, new
<1>5. CASE \/ isSwarmMessageDuplicate(env) /\ confirmDuplicate(env) /\ UNCHANGED <<job, consumed>>
           \/ handleMessageReaction(env) /\ UNCHANGED job
  <2>1. removeFromCache(env) /\ job' = job
    BY <1>5 DEF confirmDuplicate, handleMessageReaction
  <2>2. /\ unprocessed' \in Seq(Row) /\ Rows' = Rows \ {env}
        /\ unprocessed = <<>> => unprocessed' = <<>>
    BY <1>1, <2>1, RemoveFacts
  <2>3. /\ consumed \subseteq consumed' /\ consumed' \subseteq Messages
        /\ stored[Message(env)] > 0 \/ Message(env) \in consumed'
    BY <1>1, <1>2, <1>5 DEF isSwarmMessageDuplicate, handleMessageReaction
  <2>4. ReceiverTypeOK'
    BY <1>2, <1>3, <2>1, <2>2, <2>3 DEF ReceiverTypeOK, queues, Row
  <2>5. AwaitInv'
    BY <1>2, <1>3, <2>1, <2>2 DEF AwaitInv, Handed, Running, queues
  <2>6. Accounts
    BY <1>2, <1>3, <2>1, <2>2, <2>3 DEF Accounts, Concluded, Waiting, Running, queues
  <2>7. StaysEmpty
    BY <1>3, <2>2 DEF StaysEmpty, queues
  <2>8. QED
    BY <2>4, <2>5, <2>6, <2>7 DEF StepKeeps
<1>6. CASE ~isSwarmMessageDuplicate(env) /\ job' = job \cup {new} /\ UNCHANGED <<unprocessed, consumed>>
  <2>1. job' = {new} /\ Cardinality(job') <= 1 /\ Rows' = Rows
    BY <1>1, <1>6, AtMostOneJob DEF Rows
  <2>2. ReceiverTypeOK'
    BY <1>2, <1>3, <1>4, <1>6, <2>1 DEF ReceiverTypeOK, queues
  <2>3. AwaitInv'
    BY <1>1, <1>2, <1>3, <1>4, <1>6, <2>1 DEF AwaitInv, Handed, Running, queues
  <2>4. Accounts
    BY <1>1, <1>2, <1>3, <1>4, <1>6, <2>1 DEF Accounts, Concluded, Waiting, Running, queues
  <2>5. StaysEmpty
    BY <1>3, <1>6 DEF StaysEmpty, queues
  <2>6. QED
    BY <2>2, <2>3, <2>4, <2>5 DEF StepKeeps
<1>7. QED
    BY <1>5, <1>6 DEF StartJob, env, new

LEMMA KeepsDuplicateCheckFails ==
    ASSUME ReceiverTypeOK, AwaitInv, DuplicateCheckFails
    PROVE  StepKeeps
<1> DEFINE env == Head(pendingJobs)
           new == [env |-> env, phase |-> "checked"]
<1>1. /\ pendingJobs \in Seq(Envelope) /\ pendingJobs # <<>> /\ job = {}
    BY DEF ReceiverTypeOK, DuplicateCheckFails, MayStart
<1>2. /\ env \in Envelope /\ pendingJobs' \in Seq(Envelope)
      /\ ToSet(pendingJobs) = {env} \cup ToSet(pendingJobs')
      /\ Message(env) \in Messages
    BY <1>1, ToSetFacts, EnvelopeFacts DEF DuplicateCheckFails
<1>3. /\ UNCHANGED <<unprocessed, queues, overdue, replayed, stored, consumed, erred, lost>>
      /\ faults' \in 0..MaxFaults
      /\ exposed' = [exposed EXCEPT ![Message(env)] = @ + 1]
    BY ReceiverAssumption DEF DuplicateCheckFails, Fault, ReceiverTypeOK
<1>4. /\ new \in Job /\ new.env = env /\ new.phase = "checked"
      /\ job' = {new} /\ Cardinality(job') <= 1
  <2>1. new \in Job /\ new.env = env /\ new.phase = "checked"
    BY <1>2 DEF Job
  <2> HIDE DEF new
  <2>2. job' = {new}
    BY <1>1 DEF DuplicateCheckFails, new
  <2>3. QED
    BY <2>1, <2>2, AtMostOneJob
<1>5. exposed' \in [Messages -> Nat]
    BY <1>2, <1>3 DEF ReceiverTypeOK
<1> HIDE DEF env, new
<1>6. ReceiverTypeOK'
    BY <1>2, <1>3, <1>4, <1>5 DEF ReceiverTypeOK, queues
<1>7. AwaitInv'
    BY <1>1, <1>2, <1>3, <1>4 DEF AwaitInv, Handed, Running, Rows, queues
<1>8. Accounts
    BY <1>1, <1>2, <1>3, <1>4 DEF Accounts, Concluded, Waiting, Running, Rows, queues
<1>9. StaysEmpty
    BY <1>3 DEF StaysEmpty, queues
<1>10. QED
    BY <1>6, <1>7, <1>8, <1>9 DEF StepKeeps

-----------------------------------------------------------------------------
(* A job under way, in its time or after it *)

\* handleMessageJob takes a step of job j of jobs, which are left as after.
JobStep(j, jobs, after) ==
    \/ /\ handleMessageJob(j)
       /\ after = (jobs \ {j}) \cup {[j EXCEPT !.phase = "stored"]}
    \/ (InvalidUpdate(j) \/ confirm(j) \/ JobFails(j)) /\ after = jobs \ {j}

\* what that step does
JobEffect(jobs, after) ==
    /\ after \subseteq Job
    /\ unprocessed' \in Seq(Row) /\ (unprocessed = <<>> => unprocessed' = <<>>)
    /\ stored' \in [Messages -> Nat]
    /\ \A m \in Messages : stored[m] > 0 => stored'[m] > 0
    /\ consumed \subseteq consumed' /\ consumed' \subseteq Messages
    /\ erred \subseteq erred' /\ erred' \subseteq Messages
    /\ faults' \in 0..MaxFaults
    /\ lost' = lost /\ exposed' = exposed
    /\ Rows' \subseteq Rows
    /\ \A env \in Rows : env \in Rows' \/ Message(env) \in Concluded'
    /\ \A k \in after : k \in jobs \/ (k.phase = "stored" /\ stored'[Message(k.env)] > 0)
    /\ \A k \in jobs : k \in after \/ k.phase = "stored" \/ Message(k.env) \in Concluded'
    /\ \A k \in jobs : \/ \E l \in after : l.env = k.env
                       \/ k.env \notin Rows' \/ Message(k.env) \in erred'

LEMMA JobFacts ==
    ASSUME ReceiverTypeOK, NEW jobs, NEW after, NEW j \in jobs, jobs \subseteq Job,
           StoredJobs, j \in Running, JobStep(j, jobs, after)
    PROVE  JobEffect(jobs, after)
<1>1. /\ j.env \in Envelope /\ Message(j.env) \in Messages /\ j \in Job
      /\ unprocessed \in Seq(Row) /\ stored \in [Messages -> Nat] /\ consumed \subseteq Messages
      /\ erred \subseteq Messages /\ faults \in 0..MaxFaults
    BY EnvelopeFacts DEF Job, ReceiverTypeOK, Row
<1>2. CASE /\ handleMessageJob(j)
           /\ after = (jobs \ {j}) \cup {[j EXCEPT !.phase = "stored"]}
  <2> DEFINE k == [j EXCEPT !.phase = "stored"]
  <2>1. k \in Job /\ k.phase = "stored" /\ k.env = j.env
    BY <1>1 DEF Job
  <2> HIDE DEF k
  <2>2. /\ stored' = [stored EXCEPT ![Message(j.env)] = @ + 1]
        /\ UNCHANGED <<unprocessed, consumed, erred, lost, exposed, faults>> /\ Rows' = Rows
    BY <1>2 DEF handleMessageJob, Rows
  <2>3. /\ stored' \in [Messages -> Nat]
        /\ stored'[Message(j.env)] = stored[Message(j.env)] + 1
        /\ stored[Message(j.env)] \in Nat
        /\ \A m \in Messages : m # Message(j.env) => stored'[m] = stored[m]
    BY <1>1, <2>2
  <2>4. /\ stored'[Message(j.env)] > 0
        /\ \A m \in Messages : stored[m] > 0 => stored'[m] > 0
    BY <2>3
  <2>5. Message(j.env) \in Concluded'
    BY <1>1, <2>4 DEF Concluded
  <2>6. after = (jobs \ {j}) \cup {k}
    BY <1>2 DEF k
  <2>7. QED
    BY <1>1, <2>1, <2>2, <2>3, <2>4, <2>5, <2>6 DEF JobEffect
<1>3. CASE InvalidUpdate(j) /\ after = jobs \ {j}
  <2>1. /\ unprocessed' \in Seq(Row) /\ Rows' = Rows \ {j.env}
        /\ unprocessed = <<>> => unprocessed' = <<>>
    BY <1>1, <1>3, RemoveFacts DEF InvalidUpdate
  <2>2. /\ consumed' = consumed \cup {Message(j.env)}
        /\ UNCHANGED <<stored, erred, lost, exposed, faults>>
    BY <1>3 DEF InvalidUpdate
  <2>3. Message(j.env) \in Concluded'
    BY <2>2 DEF Concluded
  <2>4. QED
    BY <1>1, <1>3, <2>1, <2>2, <2>3 DEF JobEffect
<1>4. CASE confirm(j) /\ after = jobs \ {j}
  <2>1. /\ unprocessed' \in Seq(Row) /\ Rows' = Rows \ {j.env}
        /\ unprocessed = <<>> => unprocessed' = <<>>
    BY <1>1, <1>4, RemoveFacts DEF confirm
  <2>2. UNCHANGED <<stored, consumed, erred, lost, exposed, faults>> /\ j.phase = "stored"
    BY <1>4 DEF confirm, outcomes
  <2>3. stored[Message(j.env)] > 0 \/ Rows = {}
    BY <2>2 DEF StoredJobs
  <2>4. Message(j.env) \in Concluded' \/ Rows = {}
    BY <1>1, <2>2, <2>3 DEF Concluded
  <2>5. QED
    BY <1>1, <1>4, <2>1, <2>2, <2>4 DEF JobEffect
<1>5. CASE JobFails(j) /\ after = jobs \ {j}
  <2>1. /\ erred' = erred \cup {Message(j.env)}
        /\ UNCHANGED <<unprocessed, stored, consumed, lost, exposed>> /\ Rows' = Rows
        /\ faults' \in 0..MaxFaults
    BY <1>1, <1>5, ReceiverAssumption DEF JobFails, Fault, Rows
  <2>2. Message(j.env) \in Concluded'
    BY <2>1 DEF Concluded
  <2>3. after \subseteq Job
    BY <1>5
  <2>4. \A env \in Rows : env \in Rows' \/ Message(env) \in Concluded'
    BY <2>1
  <2>5. \A k \in after : k \in jobs
    BY <1>5
  <2>6. \A k \in jobs : k \in after \/ k.phase = "stored" \/ Message(k.env) \in Concluded'
    BY <1>5, <2>2
  <2>7. \A k \in jobs : \/ \E l \in after : l.env = k.env
                        \/ k.env \notin Rows' \/ Message(k.env) \in erred'
    BY <1>5, <2>1
  <2>8. QED
    BY <1>1, <2>1, <2>3, <2>4, <2>5, <2>6, <2>7 DEF JobEffect
<1>6. QED
    BY <1>2, <1>3, <1>4, <1>5 DEF JobStep

LEMMA KeepsRunJob ==
    ASSUME ReceiverTypeOK, CommitInv, AwaitInv, StoredJobs, RunJob
    PROVE  StepKeeps
<1>1. UNCHANGED <<queues, pendingJobs, overdue, replayed>>
    BY DEF RunJob
<1>2. PICK j \in job : JobStep(j, job, job')
    BY DEF RunJob, JobStep
<1>3. job \subseteq Job /\ j \in Running
    BY DEF ReceiverTypeOK, Running
<1>4. JobEffect(job, job')
    BY <1>2, <1>3, JobFacts
<1>5. Cardinality(job') <= 1
  <2>1. job = {j}
    BY DEF CommitInv
  <2>2. job' = {} \/ job' = {[j EXCEPT !.phase = "stored"]}
    BY <1>2, <2>1 DEF JobStep
  <2>3. QED
    BY <2>2, AtMostOneJob
<1>6. ReceiverTypeOK'
    BY <1>1, <1>4, <1>5 DEF JobEffect, ReceiverTypeOK, Row, queues
<1>7. AwaitInv'
    BY <1>1, <1>4 DEF JobEffect, AwaitInv, Handed, Running, queues
<1>8. Accounts
  <2>1. Concluded \subseteq Concluded'
    BY <1>4 DEF JobEffect, Concluded
  <2>2. \A env \in ToSet(adding) : env \in ToSet(adding')
    BY <1>1 DEF queues
  <2>3. \A env \in Waiting : env \in Waiting' \/ Message(env) \in Concluded'
    BY <1>1, <1>4 DEF JobEffect, Waiting, Running, queues
  <2>4. \A env \in Waiting' : env \in Waiting
    BY <1>1, <1>4 DEF JobEffect, Waiting, Running, queues
  <2>5. \A k \in Running' : k.phase = "stored" => k \in Running \/ stored'[Message(k.env)] > 0
    BY <1>1, <1>4 DEF JobEffect, Running
  <2>6. QED
    BY <1>4, <2>1, <2>2, <2>3, <2>4, <2>5 DEF JobEffect, Accounts
<1>9. StaysEmpty
    BY <1>1, <1>4 DEF JobEffect, StaysEmpty, queues
<1>10. QED
    BY <1>6, <1>7, <1>8, <1>9 DEF StepKeeps

LEMMA KeepsOverdueJob ==
    ASSUME ReceiverTypeOK, AwaitInv, StoredJobs, OverdueJob
    PROVE  StepKeeps
<1>1. PICK j \in overdue :
        JobStep(j, overdue, overdue') /\ UNCHANGED <<queues, pendingJobs, job, replayed>>
    BY DEF OverdueJob, JobStep
<1>2. overdue \subseteq Job /\ j \in Running
    BY DEF ReceiverTypeOK, Running
<1>3. JobEffect(overdue, overdue')
    BY <1>1, <1>2, JobFacts
<1>4. ReceiverTypeOK'
    BY <1>1, <1>3 DEF JobEffect, ReceiverTypeOK, Row, queues
<1>5. AwaitInv'
    BY <1>1, <1>3 DEF JobEffect, AwaitInv, Handed, Running, queues
<1>6. Accounts
  <2>1. Concluded \subseteq Concluded'
    BY <1>3 DEF JobEffect, Concluded
  <2>2. \A env \in ToSet(adding) : env \in ToSet(adding')
    BY <1>1 DEF queues
  <2>3. \A env \in Waiting : env \in Waiting' \/ Message(env) \in Concluded'
    BY <1>1, <1>3 DEF JobEffect, Waiting, Running, queues
  <2>4. \A env \in Waiting' : env \in Waiting
    BY <1>1, <1>3 DEF JobEffect, Waiting, Running, queues
  <2>5. \A k \in Running' : k.phase = "stored" => k \in Running \/ stored'[Message(k.env)] > 0
    BY <1>1, <1>3 DEF JobEffect, Running
  <2>6. QED
    BY <1>3, <2>1, <2>2, <2>3, <2>4, <2>5 DEF JobEffect, Accounts
<1>7. StaysEmpty
    BY <1>1, <1>3 DEF JobEffect, StaysEmpty, queues
<1>8. QED
    BY <1>4, <1>5, <1>6, <1>7 DEF StepKeeps

LEMMA KeepsJobTimesOut ==
    ASSUME ReceiverTypeOK, CommitInv, AwaitInv, JobTimesOut
    PROVE  StepKeeps
<1>1. /\ overdue' = overdue \cup job /\ job' = {}
      /\ UNCHANGED <<unprocessed, queues, pendingJobs, replayed, stored, consumed, erred, lost>>
      /\ faults' \in 0..MaxFaults
    BY ReceiverAssumption DEF JobTimesOut, Fault, ReceiverTypeOK
<1>2. exposed' \in [Messages -> Nat]
  <2>1. ASSUME NEW m \in Messages
        PROVE  exposed[m] + Cardinality({j \in job : Message(j.env) = m}) \in Nat
    <3>1. IsFiniteSet(job)
      <4>1. PICK j \in job : TRUE
        BY DEF JobTimesOut
      <4>2. job = {j}
        BY DEF CommitInv
      <4>3. QED
        BY <4>2, FS_Singleton
    <3>2. Cardinality({j \in job : Message(j.env) = m}) \in Nat
      BY <3>1, FS_Subset, FS_CardinalityType
    <3>3. QED
      BY <3>2 DEF ReceiverTypeOK
  <2>2. QED
    BY <2>1 DEF JobTimesOut
<1>3. Running' = Running
    BY <1>1 DEF Running
<1>4. ReceiverTypeOK'
    BY <1>1, <1>2, AtMostOneJob DEF ReceiverTypeOK, queues
<1>5. AwaitInv'
    BY <1>1, <1>3 DEF AwaitInv, Handed, Rows, queues
<1>6. Accounts
    BY <1>1, <1>3 DEF Accounts, Concluded, Waiting, Rows, queues
<1>7. StaysEmpty
    BY <1>1 DEF StaysEmpty, queues
<1>8. QED
    BY <1>4, <1>5, <1>6, <1>7 DEF StepKeeps

LEMMA ReceiverKeeps ==
    ASSUME ReceiverTypeOK, CommitInv, AwaitInv, StoredJobs, ReceiverNext
    PROVE  StepKeeps
BY KeepsAddToCache, KeepsAddToCacheFails, KeepsQueueAllCached, KeepsQueueSwarmEnvelope,
   KeepsLateTask, KeepsStartJob, KeepsDuplicateCheckFails, KeepsRunJob, KeepsJobTimesOut,
   KeepsOverdueJob DEF ReceiverNext

-----------------------------------------------------------------------------
(* The commits to come *)

LEMMA CheckedFacts ==
    ASSUME NEW m, NEW js, IsFiniteSet(js)
    PROVE  IsFiniteSet(Checked(m, js)) /\ Cardinality(Checked(m, js)) \in Nat
<1>1. Checked(m, js) \in SUBSET js
    BY DEF Checked
<1>2. QED
    BY <1>1, FS_Subset, FS_CardinalityType

LEMMA CheckedWithout ==
    ASSUME NEW m, NEW js, IsFiniteSet(js), NEW j \in js
    PROVE  /\ IsFiniteSet(js \ {j})
           /\ Cardinality(Checked(m, js \ {j})) <= Cardinality(Checked(m, js))
           /\ j \in Checked(m, js) =>
                Cardinality(Checked(m, js \ {j})) = Cardinality(Checked(m, js)) - 1
<1>1. IsFiniteSet(js \ {j})
    BY FS_RemoveElement
<1>2. Checked(m, js \ {j}) = Checked(m, js) \ {j}
    BY DEF Checked
<1>3. IsFiniteSet(Checked(m, js)) /\ Cardinality(Checked(m, js)) \in Nat
    BY CheckedFacts
<1>4. Cardinality(Checked(m, js) \ {j}) = IF j \in Checked(m, js)
                                          THEN Cardinality(Checked(m, js)) - 1
                                          ELSE Cardinality(Checked(m, js))
    BY <1>3, FS_RemoveElement
<1>5. QED
    BY <1>1, <1>2, <1>3, <1>4

LEMMA CheckedStored ==
    ASSUME NEW m, NEW js, IsFiniteSet(js), NEW k, k.phase = "stored"
    PROVE  IsFiniteSet(js \cup {k}) /\ Checked(m, js \cup {k}) = Checked(m, js)
<1>1. IsFiniteSet(js \cup {k})
    BY FS_AddElement
<1>2. Checked(m, js \cup {k}) = Checked(m, js)
    BY DEF Checked
<1>3. QED
    BY <1>1, <1>2

LEMMA CheckedOne ==
    ASSUME NEW m, NEW k
    PROVE  /\ IsFiniteSet({k}) /\ IsFiniteSet({})
           /\ Cardinality(Checked(m, {})) = 0
           /\ Cardinality(Checked(m, {k})) \in 0..1
           /\ Message(k.env) # m => Cardinality(Checked(m, {k})) = 0
<1>1. Checked(m, {}) = {}
    BY DEF Checked
<1>2. Checked(m, {k}) = {} \/ Checked(m, {k}) = {k}
    BY DEF Checked
<1>3. Message(k.env) # m => Checked(m, {k}) = {}
    BY DEF Checked
<1>4. IsFiniteSet({k}) /\ Cardinality({k}) = 1
    BY FS_Singleton
<1>5. IsFiniteSet({}) /\ Cardinality({}) = 0
    BY FS_EmptySet
<1>6. QED
    BY <1>1, <1>2, <1>3, <1>4, <1>5

\* At most one job runs.
LEMMA JobIsFinite ==
    ASSUME CommitInv
    PROVE  IsFiniteSet(job)
<1>1. job = {} \/ \E j : job = {j}
    BY DEF CommitInv
<1>2. CASE job = {}
    BY <1>2, FS_EmptySet
<1>3. CASE \E j : job = {j}
  <2>1. PICK j : job = {j}
    BY <1>3
  <2>2. QED
    BY <2>1, FS_Singleton
<1>4. QED
    BY <1>1, <1>2, <1>3

\* Nothing is committed, checked or let past its time.
LEMMA CommitStays ==
    ASSUME CommitInv, UNCHANGED <<job, overdue, stored, exposed>>
    PROVE  CommitInv'
BY DEF CommitInv, Checked

\* No job is under way.
LEMMA CommitNone ==
    ASSUME NEW s \in [Messages -> Nat], NEW e \in [Messages -> Nat], stored' = s, exposed' = e,
           job' = {}, overdue' = {}, \A m \in Messages : s[m] <= 1 + e[m]
    PROVE  CommitInv'
<1>1. IsFiniteSet(overdue') /\ \A i, j \in job' : i = j
    BY FS_EmptySet
<1>2. ASSUME NEW m \in Messages
      PROVE  /\ Cardinality(Checked(m, overdue')) = 0 /\ Cardinality(Checked(m, job')) = 0
             /\ s[m] \in Nat /\ e[m] \in Nat
    BY CheckedOne
<1>3. QED
    BY <1>1, <1>2 DEF CommitInv, Checked

LEMMA CommitStartJob ==
    ASSUME ReceiverTypeOK, CommitInv, StartJob
    PROVE  CommitInv'
<1> DEFINE env == Head(pendingJobs)
           new == [env |-> env, phase |-> "checked"]
<1>1. job = {} /\ UNCHANGED <<overdue, stored, exposed>>
    BY DEF StartJob, MayStart
<1>2. CASE job' = job
    BY <1>1, <1>2, CommitStays
<1>3. CASE job' = job \cup {new} /\ ~isSwarmMessageDuplicate(env)
  <2>1. new.env = env
    OBVIOUS
  <2> HIDE DEF new
  <2>2. job' = {new}
    BY <1>1, <1>3
  <2>3. ASSUME NEW m \in Messages
        PROVE  /\ Cardinality(Checked(m, overdue)) <= exposed[m]
               /\ stored[m] + Cardinality(Checked(m, overdue)) + Cardinality(Checked(m, {new}))
                    <= 1 + exposed[m]
    <3> DEFINE old == Cardinality(Checked(m, overdue))
               now == Cardinality(Checked(m, job))
               next == Cardinality(Checked(m, {new}))
    <3>1. old <= exposed[m] /\ stored[m] + old + now <= 1 + exposed[m]
      BY DEF CommitInv
    <3>2. old \in Nat /\ stored[m] \in Nat /\ exposed[m] \in Nat
      BY CheckedFacts DEF CommitInv, ReceiverTypeOK
    <3>3. now = 0 /\ next \in 0..1 /\ (Message(env) # m => next = 0)
      BY <1>1, <2>1, CheckedOne
    <3>4. Message(env) = m => stored[m] = 0
      BY <1>3, <3>2 DEF isSwarmMessageDuplicate
    <3> HIDE DEF old, now, next
    <3>5. QED
      <4>1. old <= exposed[m] /\ stored[m] + old + next <= 1 + exposed[m]
        BY <3>1, <3>2, <3>3, <3>4
      <4>2. QED
        BY <4>1 DEF old, next
  <2>4. IsFiniteSet(overdue)
    BY DEF CommitInv
  <2>5. QED
    BY <1>1, <2>2, <2>3, <2>4 DEF CommitInv, Checked
<1>4. QED
    BY <1>2, <1>3 DEF StartJob

LEMMA CommitDuplicateCheckFails ==
    ASSUME ReceiverTypeOK, CommitInv, DuplicateCheckFails
    PROVE  CommitInv'
<1> DEFINE env == Head(pendingJobs)
           new == [env |-> env, phase |-> "checked"]
<1>1. /\ job = {} /\ job' = job \cup {new} /\ UNCHANGED <<overdue, stored>>
      /\ exposed' = [exposed EXCEPT ![Message(env)] = @ + 1]
    BY DEF DuplicateCheckFails, MayStart
<1>2. new.env = env
    OBVIOUS
<1> HIDE DEF new, env
<1>3. job' = {new}
    BY <1>1
<1>4. ASSUME NEW m \in Messages
      PROVE  /\ Cardinality(Checked(m, overdue)) <= exposed'[m]
             /\ stored[m] + Cardinality(Checked(m, overdue)) + Cardinality(Checked(m, {new}))
                  <= 1 + exposed'[m]
  <2> DEFINE old == Cardinality(Checked(m, overdue))
             now == Cardinality(Checked(m, job))
             next == Cardinality(Checked(m, {new}))
  <2>1. old <= exposed[m] /\ stored[m] + old + now <= 1 + exposed[m]
    BY DEF CommitInv
  <2>2. old \in Nat /\ stored[m] \in Nat /\ exposed[m] \in Nat
    BY CheckedFacts DEF CommitInv, ReceiverTypeOK
  <2>3. now = 0 /\ next \in 0..1 /\ (Message(env) # m => next = 0)
    BY <1>1, <1>2, CheckedOne
  <2>4. exposed'[m] = IF m = Message(env) THEN exposed[m] + 1 ELSE exposed[m]
    BY <1>1 DEF ReceiverTypeOK
  <2> HIDE DEF old, now, next
  <2>5. old <= exposed'[m] /\ stored[m] + old + next <= 1 + exposed'[m]
    BY <2>1, <2>2, <2>3, <2>4
  <2>6. QED
    BY <2>5 DEF old, next
<1>5. IsFiniteSet(overdue)
    BY DEF CommitInv
<1>6. QED
    BY <1>1, <1>3, <1>4, <1>5 DEF CommitInv, Checked

\* A step of a job commits what it was counted for, once.
LEMMA JobCommits ==
    ASSUME ReceiverTypeOK, NEW jobs, NEW after, NEW j \in jobs, jobs \subseteq Job,
           IsFiniteSet(jobs), JobStep(j, jobs, after), NEW m \in Messages
    PROVE  /\ IsFiniteSet(after)
           /\ exposed' = exposed
           /\ Cardinality(Checked(m, after)) \in Nat
           /\ Cardinality(Checked(m, jobs)) \in Nat
           /\ stored'[m] \in Nat
           /\ Cardinality(Checked(m, after)) <= Cardinality(Checked(m, jobs))
           /\ stored'[m] + Cardinality(Checked(m, after))
                <= stored[m] + Cardinality(Checked(m, jobs))
<1>1. Message(j.env) \in Messages /\ stored \in [Messages -> Nat] /\ j \in Job
    BY EnvelopeFacts DEF Job, ReceiverTypeOK
<1> DEFINE rest == jobs \ {j}
           old == Cardinality(Checked(m, jobs))
           left == Cardinality(Checked(m, rest))
<1>2. /\ IsFiniteSet(rest) /\ old \in Nat /\ left \in Nat /\ left <= old
      /\ j \in Checked(m, jobs) => left = old - 1
  <2>1. /\ IsFiniteSet(jobs \ {j})
        /\ Cardinality(Checked(m, jobs \ {j})) <= Cardinality(Checked(m, jobs))
        /\ j \in Checked(m, jobs) =>
             Cardinality(Checked(m, jobs \ {j})) = Cardinality(Checked(m, jobs)) - 1
    BY CheckedWithout
  <2>2. old \in Nat
    BY CheckedFacts
  <2>3. IsFiniteSet(rest)
    BY <2>1
  <2> HIDE DEF rest
  <2>4. left \in Nat
    BY <2>3, CheckedFacts
  <2>5. QED
    BY <2>1, <2>2, <2>3, <2>4 DEF rest
<1>3. CASE /\ handleMessageJob(j)
           /\ after = (jobs \ {j}) \cup {[j EXCEPT !.phase = "stored"]}
  <2> DEFINE k == [j EXCEPT !.phase = "stored"]
  <2>1. k.phase = "stored" /\ after = rest \cup {k}
    BY <1>1, <1>3 DEF Job
  <2> HIDE DEF k
  <2>2. IsFiniteSet(after) /\ Checked(m, after) = Checked(m, rest)
    <3> HIDE DEF rest
    <3>1. IsFiniteSet(rest \cup {k}) /\ Checked(m, rest \cup {k}) = Checked(m, rest)
      BY <1>2, <2>1, CheckedStored
    <3>2. QED
      BY <2>1, <3>1
  <2>3. /\ stored' = [stored EXCEPT ![Message(j.env)] = @ + 1] /\ exposed' = exposed
        /\ j.phase = "checked"
    BY <1>3 DEF handleMessageJob
  <2>4. CASE m = Message(j.env)
    <3>1. j \in Checked(m, jobs)
      BY <2>3, <2>4 DEF Checked
    <3>2. stored'[m] = stored[m] + 1 /\ stored[m] \in Nat
      BY <1>1, <2>3, <2>4
    <3> HIDE DEF old, left
    <3>3. stored'[m] + left <= stored[m] + old
      BY <1>2, <3>1, <3>2
    <3>4. QED
      BY <1>2, <2>2, <2>3, <3>2, <3>3 DEF old, left
  <2>5. CASE m # Message(j.env)
    <3>1. stored'[m] = stored[m] /\ stored[m] \in Nat
      BY <1>1, <2>3, <2>5
    <3> HIDE DEF old, left
    <3>2. stored'[m] + left <= stored[m] + old
      BY <1>2, <3>1
    <3>3. QED
      BY <1>2, <2>2, <2>3, <3>1, <3>2 DEF old, left
  <2>6. QED
    BY <2>4, <2>5
<1>4. CASE (InvalidUpdate(j) \/ confirm(j) \/ JobFails(j)) /\ after = jobs \ {j}
  <2>1. stored' = stored /\ exposed' = exposed /\ after = rest
    BY <1>4 DEF InvalidUpdate, confirm, JobFails, outcomes
  <2>2. stored'[m] = stored[m] /\ stored[m] \in Nat
    BY <1>1, <2>1
  <2> HIDE DEF rest
  <2>3. Checked(m, after) = Checked(m, rest)
    BY <2>1
  <2> HIDE DEF old, left
  <2>4. stored'[m] + left <= stored[m] + old
    BY <1>2, <2>2
  <2>5. QED
    BY <1>2, <2>1, <2>2, <2>3, <2>4 DEF old, left
<1>5. QED
    BY <1>3, <1>4 DEF JobStep

LEMMA CommitRunJob ==
    ASSUME ReceiverTypeOK, CommitInv, RunJob
    PROVE  CommitInv'
<1>1. overdue' = overdue
    BY DEF RunJob
<1>2. PICK j \in job : JobStep(j, job, job')
    BY DEF RunJob, JobStep
<1>3. job = {j} /\ job \subseteq Job
    BY DEF CommitInv, ReceiverTypeOK
<1>4. IsFiniteSet(job)
    BY <1>3, FS_Singleton
<1>5. job' = {} \/ job' = {[j EXCEPT !.phase = "stored"]}
    BY <1>2, <1>3 DEF JobStep
<1>6. ASSUME NEW m \in Messages
      PROVE  /\ Cardinality(Checked(m, overdue)) <= exposed'[m]
             /\ stored'[m] + Cardinality(Checked(m, overdue)) + Cardinality(Checked(m, job'))
                  <= 1 + exposed'[m]
  <2> DEFINE o == Cardinality(Checked(m, overdue))
             now == Cardinality(Checked(m, job))
             next == Cardinality(Checked(m, job'))
  <2>1. o <= exposed[m] /\ stored[m] + o + now <= 1 + exposed[m]
    BY DEF CommitInv
  <2>2. o \in Nat /\ stored[m] \in Nat /\ exposed[m] \in Nat
    BY CheckedFacts DEF CommitInv, ReceiverTypeOK
  <2>3. /\ exposed' = exposed /\ now \in Nat /\ next \in Nat /\ stored'[m] \in Nat
        /\ stored'[m] + next <= stored[m] + now
    BY <1>2, <1>3, <1>4, JobCommits
  <2> HIDE DEF o, now, next
  <2>4. o <= exposed'[m] /\ stored'[m] + o + next <= 1 + exposed'[m]
    BY <2>1, <2>2, <2>3
  <2>5. QED
    BY <2>4 DEF o, next
<1>7. IsFiniteSet(overdue) /\ \A i, k \in job' : i = k
    BY <1>5 DEF CommitInv
<1>8. QED
    BY <1>1, <1>6, <1>7 DEF CommitInv, Checked

LEMMA CommitOverdueJob ==
    ASSUME ReceiverTypeOK, CommitInv, OverdueJob
    PROVE  CommitInv'
<1>1. PICK j \in overdue : JobStep(j, overdue, overdue') /\ job' = job
    BY DEF OverdueJob, JobStep
<1>2. IsFiniteSet(overdue) /\ overdue \subseteq Job
    BY DEF CommitInv, ReceiverTypeOK
<1>3. ASSUME NEW m \in Messages
      PROVE  /\ IsFiniteSet(overdue')
             /\ Cardinality(Checked(m, overdue')) <= exposed'[m]
             /\ stored'[m] + Cardinality(Checked(m, overdue')) + Cardinality(Checked(m, job))
                  <= 1 + exposed'[m]
  <2> DEFINE o == Cardinality(Checked(m, overdue))
             p == Cardinality(Checked(m, overdue'))
             now == Cardinality(Checked(m, job))
  <2>1. o <= exposed[m] /\ stored[m] + o + now <= 1 + exposed[m]
    BY DEF CommitInv
  <2>2. now \in Nat
    <3>1. IsFiniteSet(job)
      <4>1. CASE job = {}
        BY <4>1, FS_EmptySet
      <4>2. ASSUME NEW k \in job
            PROVE  IsFiniteSet(job)
        <5>1. job = {k}
          BY DEF CommitInv
        <5>2. QED
          BY <5>1, FS_Singleton
      <4>3. QED
        BY <4>1, <4>2
    <3>2. QED
      BY <3>1, CheckedFacts
  <2>3. stored[m] \in Nat /\ exposed[m] \in Nat
    BY DEF ReceiverTypeOK
  <2>4. /\ IsFiniteSet(overdue')
        /\ exposed' = exposed /\ o \in Nat /\ p \in Nat /\ stored'[m] \in Nat
        /\ p <= o /\ stored'[m] + p <= stored[m] + o
    BY <1>1, <1>2, JobCommits
  <2> HIDE DEF o, p, now
  <2>5. p <= exposed'[m] /\ stored'[m] + p + now <= 1 + exposed'[m]
    BY <2>1, <2>2, <2>3, <2>4
  <2>6. QED
    BY <2>4, <2>5 DEF p, now
<1>4. IsFiniteSet(overdue')
  <2>1. Message(j.env) \in Messages
    BY <1>2, EnvelopeFacts DEF Job
  <2>2. QED
    BY <1>3, <2>1
<1>5. QED
    BY <1>1, <1>3, <1>4 DEF CommitInv, Checked

LEMMA CommitJobTimesOut ==
    ASSUME ReceiverTypeOK, CommitInv, JobTimesOut
    PROVE  CommitInv'
<1>1. /\ overdue' = overdue \cup job /\ job' = {} /\ stored' = stored
      /\ exposed' = [m \in Messages |->
           exposed[m] + Cardinality({j \in job : Message(j.env) = m})]
    BY DEF JobTimesOut
<1>2. PICK j \in job : TRUE
    BY DEF JobTimesOut
<1>3. job = {j} /\ IsFiniteSet(overdue)
    BY DEF CommitInv
<1>4. IsFiniteSet(overdue')
    BY <1>1, <1>3, FS_AddElement
<1>5. ASSUME NEW m \in Messages
      PROVE  /\ Cardinality(Checked(m, overdue')) <= exposed'[m]
             /\ stored[m] + Cardinality(Checked(m, overdue')) + Cardinality(Checked(m, {}))
                  <= 1 + exposed'[m]
  <2> DEFINE of == {k \in job : Message(k.env) = m}
             o == Cardinality(Checked(m, overdue))
             p == Cardinality(Checked(m, overdue'))
             now == Cardinality(Checked(m, job))
             none == Cardinality(Checked(m, {}))
             more == Cardinality(of)
  <2>1. o <= exposed[m] /\ stored[m] + o + now <= 1 + exposed[m]
    BY DEF CommitInv
  <2>2. /\ o \in Nat /\ stored[m] \in Nat /\ exposed[m] \in Nat /\ p \in Nat /\ none = 0
        /\ IsFiniteSet(Checked(m, overdue))
    BY <1>3, <1>4, CheckedFacts, CheckedOne DEF ReceiverTypeOK
  <2>3. exposed'[m] = exposed[m] + more
    BY <1>1
  <2>4. /\ IsFiniteSet(of) /\ more \in Nat /\ now \in Nat /\ now <= more
        /\ IsFiniteSet(Checked(m, job))
    <3>1. IsFiniteSet(job)
      BY <1>3, FS_Singleton
    <3>2. of \in SUBSET job /\ Checked(m, job) \in SUBSET of
      BY DEF Checked
    <3> HIDE DEF of
    <3>3. IsFiniteSet(of)
      BY <3>1, <3>2, FS_Subset
    <3>4. QED
      BY <3>2, <3>3, FS_Subset, FS_CardinalityType
  <2>5. p <= o + now
    <3>1. Checked(m, overdue') = Checked(m, overdue) \cup Checked(m, job)
      BY <1>1 DEF Checked
    <3>2. /\ Cardinality(Checked(m, overdue) \cup Checked(m, job)) =
                o + now - Cardinality(Checked(m, overdue) \cap Checked(m, job))
          /\ Cardinality(Checked(m, overdue) \cap Checked(m, job)) \in Nat
      BY <2>2, <2>4, FS_Union, FS_Intersection, FS_CardinalityType
    <3> DEFINE both == Cardinality(Checked(m, overdue) \cap Checked(m, job))
    <3>3. p = o + now - both
      BY <3>1, <3>2
    <3>4. both \in Nat
      BY <3>2
    <3> HIDE DEF both, o, p, now
    <3>5. QED
      BY <2>2, <2>4, <3>3, <3>4
  <2> HIDE DEF o, p, now, none, more
  <2>6. p <= exposed'[m] /\ stored[m] + p + none <= 1 + exposed'[m]
    BY <2>1, <2>2, <2>3, <2>4, <2>5
  <2>7. QED
    BY <2>6 DEF p, none
<1>6. QED
    BY <1>1, <1>4, <1>5 DEF CommitInv, Checked

LEMMA ReceiverCommits ==
    ASSUME ReceiverTypeOK, CommitInv, ReceiverNext
    PROVE  CommitInv'
<1>1. CASE addToCache \/ addToCacheFails \/ queueAllCached \/ LateTask
  <2>1. UNCHANGED <<job, overdue, stored, exposed>>
    BY <1>1 DEF addToCache, addToCacheFails, queueAllCached, LateTask,
                innerHandleSwarmContentMessage, conversation, outcomes
  <2>2. QED
    BY <2>1, CommitStays
<1>2. CASE queueSwarmEnvelope
  <2>1. UNCHANGED <<job, overdue, stored, exposed>>
    BY <1>2 DEF queueSwarmEnvelope, innerHandleSwarmContentMessage, TaskTimesOut,
                conversation, outcomes
  <2>2. QED
    BY <2>1, CommitStays
<1>3. QED
    BY <1>1, <1>2, CommitStartJob, CommitDuplicateCheckFails, CommitRunJob, CommitJobTimesOut,
       CommitOverdueJob DEF ReceiverNext
=============================================================================
