------------------------- MODULE MessageQueueProofs -------------------------
(***************************************************************************)
(* What holds of the outgoing message queue for every set of destinations  *)
(* and messages and every number of calls, restarts and failures.          *)
(***************************************************************************)
EXTENDS MessageQueue, SequenceTheorems, FiniteSetTheorems, TLAPS

-----------------------------------------------------------------------------
(* Sequences: what the filters of the cache return where the code uses them. *)

LEMMA IntervalCardinality ==
    ASSUME NEW a \in Int, NEW b \in Int, a <= b + 1
    PROVE  IsFiniteSet(a..b) /\ Cardinality(a..b) = b - a + 1
<1>1. CASE a > b
  <2>1. a..b = {}
    BY <1>1
  <2>2. b - a + 1 = 0
    BY <1>1
  <2>3. QED
    BY <2>1, <2>2, FS_EmptySet
<1>2. CASE a <= b
    BY <1>2, FS_Interval
<1>3. QED
    BY <1>1, <1>2

\* Where keeps a suffix when the indices it is given are the last ones.
LEMMA WhereSuffix ==
    ASSUME NEW s \in Seq(Identifier), NEW a \in 1..Len(s) + 1, NEW I, I = a..Len(s)
    PROVE  /\ Where(s, I) \in Seq(Identifier)
           /\ Len(Where(s, I)) = Len(s) - a + 1
           /\ \A k \in 1..Len(s) - a + 1 : Where(s, I)[k] = s[a + k - 1]
<1> DEFINE n == Len(s) - a + 1
           Nth(k) == CHOOSE i \in I : Cardinality({j \in I : j <= i}) = k
<1>1. n \in Nat /\ Cardinality(I) = n
    BY IntervalCardinality
<1>2. ASSUME NEW i \in I
      PROVE  Cardinality({j \in I : j <= i}) = i - a + 1
  <2>1. {j \in I : j <= i} = a..i
    OBVIOUS
  <2>2. a \in Int /\ i \in Int /\ a <= i + 1
    OBVIOUS
  <2>3. QED
    BY <2>1, <2>2, IntervalCardinality
<1>3. ASSUME NEW k \in 1..n
      PROVE  Nth(k) = a + k - 1
  <2>0. PICK i \in I : i = a + k - 1
    BY <1>1
  <2>1. i \in I /\ Cardinality({j \in I : j <= i}) = k
    <3>1. i - a + 1 = k
      BY <1>1, <2>0
    <3>2. QED
      BY <1>2, <3>1
  <2>2. Nth(k) \in I /\ Cardinality({j \in I : j <= Nth(k)}) = k
    BY <2>1
  <2>3. Cardinality({j \in I : j <= Nth(k)}) = Nth(k) - a + 1
    BY <1>2, <2>2
  <2>4. Nth(k) \in Int
    BY <2>2
  <2> HIDE DEF Nth
  <2>5. QED
    BY <2>2, <2>3, <2>4
<1>4. Where(s, I) = [k \in 1..n |-> s[Nth(k)]]
    BY <1>1 DEF Where
<1> HIDE DEF Nth
<1>5. \A k \in 1..n : Where(s, I)[k] = s[a + k - 1] /\ s[a + k - 1] \in Identifier
    BY <1>3, <1>4
<1>6. Where(s, I) \in [1..n -> Identifier]
    BY <1>4, <1>5
<1>7. Where(s, I) \in Seq(Identifier) /\ Len(Where(s, I)) = n
    BY <1>1, <1>6
<1>8. QED
    BY <1>5, <1>7

LEMMA PrefixFacts ==
    ASSUME NEW s \in Seq(Identifier), NEW t \in Seq(Identifier)
    PROVE  IsPrefix(s, t) <=> Len(s) <= Len(t) /\ \A i \in 1..Len(s) : s[i] = t[i]
<1>1. /\ SubSeq(s, 1, Len(s)) \in Seq(Identifier)
      /\ Len(SubSeq(s, 1, Len(s))) = Len(s)
      /\ \A i \in 1..Len(s) : SubSeq(s, 1, Len(s))[i] = s[i]
    BY SubSeqProperties
<1>2. ASSUME Len(s) <= Len(t)
      PROVE  /\ SubSeq(t, 1, Len(s)) \in Seq(Identifier)
             /\ Len(SubSeq(t, 1, Len(s))) = Len(s)
             /\ \A i \in 1..Len(s) : SubSeq(t, 1, Len(s))[i] = t[i]
    BY <1>2, SubSeqProperties
<1>3. ASSUME IsPrefix(s, t)
      PROVE  Len(s) <= Len(t) /\ \A i \in 1..Len(s) : s[i] = t[i]
    BY <1>1, <1>2, <1>3 DEF IsPrefix
<1>4. ASSUME Len(s) <= Len(t), \A i \in 1..Len(s) : s[i] = t[i]
      PROVE  IsPrefix(s, t)
  <2>1. SubSeq(s, 1, Len(s)) = SubSeq(t, 1, Len(s))
    BY <1>1, <1>2, <1>4, SeqEqual
  <2>2. QED
    BY <1>4, <2>1 DEF IsPrefix
<1>5. QED
    BY <1>3, <1>4

LEMMA ConcatToSet ==
    ASSUME NEW s \in Seq(Identifier), NEW t \in Seq(Identifier)
    PROVE  /\ ToSet(s \o t) = ToSet(s) \cup ToSet(t)
           /\ s \o t = <<>> <=> s = <<>> /\ t = <<>>
<1>1. ASSUME NEW r
      PROVE  ToSet(r) = Range(r)
    BY DEF ToSet, Range
<1>2. Range(s \o t) = Range(s) \cup Range(t)
    BY RangeConcatenation
<1>3. s \o t \in Seq(Identifier) /\ Len(s \o t) = Len(s) + Len(t)
    BY ConcatProperties
<1>4. QED
    BY <1>1, <1>2, <1>3, EmptySeq

\* A chain that gets a job for everything it misses of the cache is the cache.
LEMMA WholeChain ==
    ASSUME NEW q \in Seq(Identifier), NEW c \in Seq(Identifier), IsPrefix(q, c),
           IsInjective(c)
    PROVE  /\ Where(c, {i \in DOMAIN c : c[i] \notin ToSet(q)}) \in Seq(Identifier)
           /\ q \o Where(c, {i \in DOMAIN c : c[i] \notin ToSet(q)}) = c
<1> DEFINE I == {i \in DOMAIN c : c[i] \notin ToSet(q)}
           rest == Where(c, I)
           a == Len(q) + 1
<1>1. Len(q) <= Len(c) /\ \A i \in 1..Len(q) : q[i] = c[i]
    BY PrefixFacts
<1>2. a \in 1..Len(c) + 1
    BY <1>1
<1>3. I = a..Len(c)
  <2>1. ASSUME NEW i \in 1..Len(c)
        PROVE  c[i] \in ToSet(q) <=> i <= Len(q)
    <3>1. CASE i <= Len(q)
        BY <1>1, <3>1 DEF ToSet
    <3>2. ASSUME NEW k \in 1..Len(q), q[k] = c[i]
          PROVE  i <= Len(q)
        BY <1>1, <3>2 DEF IsInjective
    <3>3. QED
        BY <3>1, <3>2 DEF ToSet
  <2>2. QED
    BY <1>1, <2>1
<1> HIDE DEF I
<1>4. /\ rest \in Seq(Identifier)
      /\ Len(rest) = Len(c) - Len(q)
      /\ \A k \in 1..Len(c) - Len(q) : rest[k] = c[Len(q) + k]
  <2>1. /\ rest \in Seq(Identifier)
        /\ Len(rest) = Len(c) - a + 1
        /\ \A k \in 1..Len(c) - a + 1 : rest[k] = c[a + k - 1]
    BY <1>2, <1>3, WhereSuffix
  <2>2. Len(c) - a + 1 = Len(c) - Len(q)
    OBVIOUS
  <2>3. \A k \in 1..Len(c) - Len(q) : a + k - 1 = Len(q) + k
    OBVIOUS
  <2>4. QED
    BY <2>1, <2>2, <2>3
<1> HIDE DEF rest
<1>5. /\ q \o rest \in Seq(Identifier)
      /\ Len(q \o rest) = Len(c)
      /\ \A i \in 1..Len(c) :
            (q \o rest)[i] = IF i <= Len(q) THEN q[i] ELSE rest[i - Len(q)]
    BY <1>1, <1>4, ConcatProperties
<1>6. \A i \in 1..Len(c) : (q \o rest)[i] = c[i]
    BY <1>1, <1>4, <1>5
<1>7. q \o rest = c
    BY <1>5, <1>6, SeqEqual
<1>8. QED
    BY <1>4, <1>7 DEF rest, I

\* The end of the first job of a chain takes out the head of the cache.
LEMMA HeadLeaves ==
    ASSUME NEW q \in Seq(Identifier), NEW c \in Seq(Identifier), IsPrefix(q, c),
           IsInjective(c), IsInjective(q), q # <<>>
    PROVE  /\ Head(q) \in Identifier /\ c # <<>> /\ Head(c) = Head(q)
           /\ Where(c, {i \in DOMAIN c : c[i] # Head(q)}) = Tail(c)
           /\ IsPrefix(Tail(q), Tail(c))
           /\ IsInjective(Tail(c))
           /\ ToSet(Tail(q)) = ToSet(q) \ {Head(q)}
           /\ ToSet(Tail(c)) = ToSet(c) \ {Head(q)}
<1> DEFINE I == {i \in DOMAIN c : c[i] # Head(q)}
<1>1. Len(q) <= Len(c) /\ \A i \in 1..Len(q) : q[i] = c[i]
    BY PrefixFacts
<1>2. /\ Head(q) = q[1] /\ Head(q) \in Identifier /\ 1 \in 1..Len(q) /\ 1 \in 1..Len(c)
      /\ c[1] = Head(q) /\ c # <<>> /\ Head(c) = Head(q)
    BY <1>1
<1>3. I = 2..Len(c)
    BY <1>2 DEF IsInjective
<1>4. /\ Tail(c) \in Seq(Identifier) /\ Len(Tail(c)) = Len(c) - 1
      /\ \A k \in 1..Len(c) - 1 : Tail(c)[k] = c[k + 1]
    BY <1>2, HeadTailProperties
<1>5. /\ Tail(q) \in Seq(Identifier) /\ Len(Tail(q)) = Len(q) - 1
      /\ \A k \in 1..Len(q) - 1 : Tail(q)[k] = q[k + 1]
    BY <1>2, HeadTailProperties
<1> HIDE DEF I
<1>6. /\ Where(c, I) \in Seq(Identifier)
      /\ Len(Where(c, I)) = Len(c) - 1
      /\ \A k \in 1..Len(c) - 1 : Where(c, I)[k] = c[k + 1]
  <2>1. 2 \in 1..Len(c) + 1
    BY <1>2
  <2>2. /\ Where(c, I) \in Seq(Identifier)
        /\ Len(Where(c, I)) = Len(c) - 2 + 1
        /\ \A k \in 1..Len(c) - 2 + 1 : Where(c, I)[k] = c[2 + k - 1]
    BY <1>3, <2>1, WhereSuffix
  <2>3. QED
    BY <2>2
<1>7. Where(c, I) = Tail(c)
    BY <1>4, <1>6, SeqEqual
<1>8. IsPrefix(Tail(q), Tail(c))
  <2>1. \A k \in 1..Len(q) - 1 : k + 1 \in 1..Len(q) /\ k \in 1..Len(c) - 1
    BY <1>1
  <2>2. \A k \in 1..Len(q) - 1 : Tail(q)[k] = Tail(c)[k]
    BY <1>1, <1>4, <1>5, <2>1
  <2>3. Len(Tail(q)) <= Len(Tail(c))
    BY <1>1, <1>4, <1>5
  <2>4. QED
    BY <1>4, <1>5, <2>2, <2>3, PrefixFacts
<1>9. IsInjective(Tail(c))
    BY <1>4 DEF IsInjective
<1>10. ASSUME NEW s \in Seq(Identifier), s # <<>>, IsInjective(s)
       PROVE  ToSet(Tail(s)) = ToSet(s) \ {Head(s)}
  <2>1. /\ Tail(s) \in Seq(Identifier) /\ Len(Tail(s)) = Len(s) - 1
        /\ \A k \in 1..Len(s) - 1 : Tail(s)[k] = s[k + 1]
        /\ Head(s) = s[1] /\ 1 \in 1..Len(s)
    BY <1>10, HeadTailProperties
  <2>2. ASSUME NEW k \in 1..Len(s) - 1
        PROVE  s[k + 1] \in ToSet(s) \ {Head(s)}
      BY <1>10, <2>1 DEF IsInjective, ToSet
  <2>3. ASSUME NEW i \in 1..Len(s), s[i] # Head(s)
        PROVE  s[i] \in ToSet(Tail(s))
    <3>1. i # 1
        BY <2>1, <2>3
    <3>2. i - 1 \in DOMAIN Tail(s) /\ Tail(s)[i - 1] = s[i]
        BY <2>1, <3>1
    <3>3. QED
        BY <3>2 DEF ToSet
  <2>4. ToSet(Tail(s)) \subseteq ToSet(s) \ {Head(s)}
      BY <2>1, <2>2 DEF ToSet
  <2>5. ToSet(s) \ {Head(s)} \subseteq ToSet(Tail(s))
      BY <2>3 DEF ToSet
  <2>6. QED
      BY <2>4, <2>5
<1>11. QED
    BY <1>2, <1>7, <1>8, <1>9, <1>10 DEF I

\* What push does.
LEMMA PushFacts ==
    ASSUME NEW s \in Seq(Identifier), NEW id \in Identifier
    PROVE  /\ Append(s, id) \in Seq(Identifier)
           /\ ToSet(Append(s, id)) = ToSet(s) \cup {id}
           /\ IsInjective(s) /\ id \notin ToSet(s) => IsInjective(Append(s, id))
           /\ \A q \in Seq(Identifier) : IsPrefix(q, s) => IsPrefix(q, Append(s, id))
<1>1. /\ Append(s, id) \in Seq(Identifier)
      /\ Len(Append(s, id)) = Len(s) + 1
      /\ \A i \in 1..Len(s) : Append(s, id)[i] = s[i]
      /\ Append(s, id)[Len(s) + 1] = id
    BY AppendProperties
<1> DEFINE t == Append(s, id)
<1> HIDE DEF t
<1>2. ToSet(t) = ToSet(s) \cup {id}
    BY <1>1 DEF ToSet, t
<1>3. ASSUME IsInjective(s), id \notin ToSet(s)
      PROVE  IsInjective(t)
    BY <1>1, <1>3 DEF IsInjective, ToSet, t
<1>4. ASSUME NEW q \in Seq(Identifier), IsPrefix(q, s)
      PROVE  IsPrefix(q, t)
  <2>1. Len(q) <= Len(s) /\ \A i \in 1..Len(q) : q[i] = s[i]
    BY <1>4, PrefixFacts
  <2>2. t \in Seq(Identifier) /\ Len(q) <= Len(t) /\ \A i \in 1..Len(q) : q[i] = t[i]
    BY <1>1, <2>1 DEF t
  <2>3. QED
    BY <2>2, PrefixFacts
<1>5. QED
    BY <1>1, <1>2, <1>3, <1>4 DEF t

-----------------------------------------------------------------------------
(* The operations. *)

LEMMA FindIsMember ==
    ASSUME NEW CONSTANT d, NEW CONSTANT id
    PROVE  /\ find(d, id) <=> id \in ToSet(cache[d])
           /\ find(d, id)' <=> id \in ToSet(cache'[d])
BY DEF find, ToSet

LEMMA SaveFacts ==
    ASSUME writes \in Seq(Write), NEW by \in Caller, NEW pending \in Pending,
           saveToDB(by, pending)
    PROVE  /\ writes' \in Seq(Write)
           /\ Len(writes') = Len(writes) + 1
           /\ \A p \in 1..Len(writes) : writes'[p] = writes[p]
           /\ writes'[Len(writes) + 1].by = by
           /\ writes'[Len(writes) + 1].pending = pending
<1> DEFINE w == [by |-> by, pending |-> pending]
<1>1. w \in Write /\ w.by = by /\ w.pending = pending
    BY DEF Write
<1>2. writes' = Append(writes, w)
    BY DEF saveToDB
<1> HIDE DEF w
<1>3. QED
    BY <1>1, <1>2, AppendProperties

LEMMA ReplyFacts ==
    ASSUME writes \in Seq(Write), writes # <<>>, writes' = Tail(writes)
    PROVE  /\ writes' \in Seq(Write)
           /\ Len(writes') = Len(writes) - 1
           /\ \A p \in 1..Len(writes) - 1 : writes'[p] = writes[p + 1]
           /\ 1 \in 1..Len(writes) /\ Head(writes) = writes[1] /\ Head(writes) \in Write
           /\ Head(writes).pending \in Pending /\ Head(writes).by \in Caller
<1>1. Head(writes) \in Write /\ Head(writes) = writes[1] /\ Len(writes) # 0
    BY HeadTailProperties
<1>2. Head(writes).pending \in Pending /\ Head(writes).by \in Caller
    BY <1>1 DEF Write
<1>3. QED
    BY <1>1, <1>2, HeadTailProperties

LEMMA ProcessPendingFacts ==
    ASSUME TypeOK, JobInv, NEW D \in SUBSET Device, NEW pending \in Pending,
           \A d \in D : IsPrefix(queue[d], pending[d]) /\ IsInjective(pending[d]),
           processPending(D, pending)
    PROVE  /\ queue' = [d \in Device |-> IF d \in D THEN pending[d] ELSE queue[d]]
           /\ queue' \in Pending
           /\ jobs' \in [Device -> SUBSET Identifier]
           /\ phase' \in [Device -> {"idle", "sending", "callback", "failing"}]
           /\ \A d \in Device : jobs'[d] = ToSet(queue'[d])
           /\ \A d \in Device : phase'[d] = "idle" <=> queue'[d] = <<>>
           /\ starts' \in [Message -> Nat]
           /\ \A m \in Message :
                starts'[m] = IF /\ m[1] \in D
                                /\ queue[m[1]] = <<>>
                                /\ pending[m[1]] # <<>>
                                /\ Head(pending[m[1]]) = m[2]
                             THEN starts[m] + 1 ELSE starts[m]
<1> DEFINE new == [d \in Device |-> IF d \in D THEN Missing(d, pending[d]) ELSE <<>>]
<1>1. ASSUME NEW d \in Device
      PROVE  /\ queue[d] \in Seq(Identifier) /\ pending[d] \in Seq(Identifier)
             /\ jobs[d] = ToSet(queue[d])
             /\ phase[d] = "idle" <=> queue[d] = <<>>
    BY DEF TypeOK, JobInv, Pending
<1>2. ASSUME NEW d \in Device
      PROVE  /\ new[d] \in Seq(Identifier)
             /\ queue[d] \o new[d] = IF d \in D THEN pending[d] ELSE queue[d]
  <2>1. CASE d \in D
    <3>1. Missing(d, pending[d])
            = Where(pending[d], {i \in DOMAIN pending[d] : pending[d][i] \notin ToSet(queue[d])})
        BY <1>1 DEF Missing
    <3>2. QED
        BY <1>1, <2>1, <3>1, WholeChain
  <2>2. CASE d \notin D
    <3>1. queue[d] \o <<>> = queue[d]
        BY <1>1, ConcatEmptySeq
    <3>2. QED
        BY <2>2, <3>1
  <2>3. QED
    BY <2>1, <2>2
<1>3. /\ queue' = [d \in Device |-> queue[d] \o new[d]]
      /\ jobs' = [d \in Device |-> jobs[d] \cup ToSet(new[d])]
      /\ phase' = [d \in Device |->
            IF queue[d] = <<>> /\ new[d] # <<>> THEN "sending" ELSE phase[d]]
      /\ starts' = [m \in Message |->
            IF queue[m[1]] = <<>> /\ new[m[1]] # <<>> /\ Head(new[m[1]]) = m[2]
            THEN starts[m] + 1 ELSE starts[m]]
    BY DEF processPending
<1> HIDE DEF new
<1>4. \A d \in Device : queue'[d] = queue[d] \o new[d]
    BY <1>3
<1>5. /\ queue' = [d \in Device |-> IF d \in D THEN pending[d] ELSE queue[d]]
      /\ queue' \in Pending
    BY <1>1, <1>2, <1>3 DEF Pending
<1>6. ASSUME NEW d \in Device
      PROVE  jobs'[d] = ToSet(queue'[d]) /\ jobs'[d] \subseteq Identifier
  <2>1. queue[d] \in Seq(Identifier) /\ new[d] \in Seq(Identifier)
    BY <1>1, <1>2
  <2>2. ToSet(queue[d] \o new[d]) = ToSet(queue[d]) \cup ToSet(new[d])
    BY <2>1, ConcatToSet
  <2>3. ToSet(queue[d]) \subseteq Identifier /\ ToSet(new[d]) \subseteq Identifier
    BY <2>1 DEF ToSet
  <2>4. jobs'[d] = ToSet(queue[d]) \cup ToSet(new[d])
    BY <1>1, <1>3
  <2>5. queue'[d] = queue[d] \o new[d]
    BY <1>4
  <2>6. QED
    BY <2>2, <2>3, <2>4, <2>5, Zenon
<1>7. ASSUME NEW d \in Device
      PROVE  phase'[d] = "idle" <=> queue'[d] = <<>>
  <2>1. queue'[d] = <<>> <=> queue[d] = <<>> /\ new[d] = <<>>
    <3>1. queue[d] \in Seq(Identifier) /\ new[d] \in Seq(Identifier)
      BY <1>1, <1>2
    <3>2. queue[d] \o new[d] = <<>> <=> queue[d] = <<>> /\ new[d] = <<>>
      BY <3>1, ConcatToSet
    <3>3. QED
      BY <1>4, <3>2, Zenon
  <2>2. QED
    BY <1>1, <1>3, <2>1
<1>8. phase' \in [Device -> {"idle", "sending", "callback", "failing"}]
    BY <1>3 DEF TypeOK
<1>9. jobs' \in [Device -> SUBSET Identifier]
    BY <1>3, <1>6
<1>10. starts' \in [Message -> Nat]
    BY <1>3 DEF TypeOK
<1>11. ASSUME NEW m \in Message
       PROVE  starts'[m] = IF /\ m[1] \in D
                              /\ queue[m[1]] = <<>>
                              /\ pending[m[1]] # <<>>
                              /\ Head(pending[m[1]]) = m[2]
                           THEN starts[m] + 1 ELSE starts[m]
  <2>1. m[1] \in Device
    BY MessageQueueAssumption
  <2>2. queue[m[1]] = <<>> => new[m[1]] = IF m[1] \in D THEN pending[m[1]] ELSE <<>>
    BY <1>2, <2>1, ConcatEmptySeq
  <2>3. QED
    BY <1>3, <2>2
<1>12. QED
    BY <1>5, <1>6, <1>7, <1>8, <1>9, <1>10, <1>11

LEMMA FinishFacts ==
    ASSUME TypeOK, CacheInv, JobInv, NEW d \in Device, queue[d] # <<>>,
           NEW left \in SUBSET Identifier, Finish(d, left)
    PROVE  /\ Head(queue[d]) \in Identifier
           /\ cache[d] # <<>> /\ Head(cache[d]) = Head(queue[d])
           /\ cache' = [cache EXCEPT ![d] = Tail(cache[d])]
           /\ cache' \in Pending
           /\ NoRepetition(cache')
           /\ ToSet(cache'[d]) = ToSet(cache[d]) \ {Head(queue[d])}
           /\ callbacks' = left \ {Head(queue[d])}
           /\ saveToDB(<<"remove">>, cache')
           /\ queue' = [queue EXCEPT ![d] = Tail(queue[d])]
           /\ queue' \in Pending
           /\ jobs' \in [Device -> SUBSET Identifier]
           /\ phase' \in [Device -> {"idle", "sending", "callback", "failing"}]
           /\ starts' \in [Message -> Nat]
           /\ JobInv'
<1> DEFINE id == Head(queue[d])
<1>1. /\ queue[d] \in Seq(Identifier) /\ cache[d] \in Seq(Identifier)
      /\ IsPrefix(queue[d], cache[d]) /\ IsInjective(cache[d])
      /\ jobs[d] = ToSet(queue[d])
    BY DEF TypeOK, Pending, JobInv, CacheInv, NoRepetition
<1>2. IsInjective(queue[d])
  <2>1. Len(queue[d]) <= Len(cache[d]) /\ \A i \in 1..Len(queue[d]) : queue[d][i] = cache[d][i]
    BY <1>1, PrefixFacts
  <2>2. QED
    BY <1>1, <2>1 DEF IsInjective
<1>3. /\ id \in Identifier /\ cache[d] # <<>> /\ Head(cache[d]) = id
      /\ Where(cache[d], {i \in DOMAIN cache[d] : cache[d][i] # id}) = Tail(cache[d])
      /\ IsPrefix(Tail(queue[d]), Tail(cache[d]))
      /\ IsInjective(Tail(cache[d]))
      /\ ToSet(Tail(queue[d])) = ToSet(queue[d]) \ {id}
      /\ ToSet(Tail(cache[d])) = ToSet(cache[d]) \ {id}
    BY <1>1, <1>2, HeadLeaves
<1>4. /\ Tail(queue[d]) \in Seq(Identifier) /\ Tail(cache[d]) \in Seq(Identifier)
    BY <1>1, <1>3, HeadTailProperties
<1>5. find(d, id)
  <2>1. 1 \in DOMAIN cache[d] /\ cache[d][1] = id
    BY <1>1, <1>3
  <2>2. QED
    BY <2>1 DEF find
<1>6. Without(d, id) = [cache EXCEPT ![d] = Tail(cache[d])]
    BY <1>3 DEF Without
<1>7. /\ cache' = [cache EXCEPT ![d] = Tail(cache[d])]
      /\ callbacks' = left \ {id}
      /\ saveToDB(<<"remove">>, cache')
  <2>1. remove(d, id, left)
    BY DEF Finish
  <2>2. cache' = Without(d, id) /\ callbacks' = left \ {id} /\ saveToDB(<<"remove">>, cache')
    BY <1>5, <2>1 DEF remove
  <2>3. QED
    BY <1>6, <2>2
<1>8. /\ queue' = [queue EXCEPT ![d] = Tail(queue[d])]
      /\ jobs' = [jobs EXCEPT ![d] = jobs[d] \ {id}]
      /\ phase' = [phase EXCEPT ![d] = IF Tail(queue[d]) = <<>> THEN "idle" ELSE "sending"]
      /\ starts' = [m \in Message |->
            IF m[1] = d /\ Tail(queue[d]) # <<>> /\ Head(Tail(queue[d])) = m[2]
            THEN starts[m] + 1 ELSE starts[m]]
    BY DEF Finish
<1> HIDE DEF id
<1>9. cache' \in Pending /\ queue' \in Pending
    BY <1>4, <1>7, <1>8 DEF TypeOK, Pending
<1>10. /\ jobs' \in [Device -> SUBSET Identifier]
       /\ phase' \in [Device -> {"idle", "sending", "callback", "failing"}]
       /\ starts' \in [Message -> Nat]
    BY <1>8 DEF TypeOK
<1>11. NoRepetition(cache')
    BY <1>3, <1>7 DEF TypeOK, Pending, CacheInv, NoRepetition
<1>12. ToSet(cache'[d]) = ToSet(cache[d]) \ {id}
    BY <1>3, <1>7 DEF TypeOK, Pending
<1>13. ASSUME NEW e \in Device
       PROVE  /\ IsPrefix(queue'[e], cache'[e])
              /\ jobs'[e] = ToSet(queue'[e])
              /\ phase'[e] = "idle" <=> queue'[e] = <<>>
  <2>1. CASE e = d
    <3>1. /\ queue'[e] = Tail(queue[d]) /\ cache'[e] = Tail(cache[d])
          /\ jobs'[e] = jobs[d] \ {id}
          /\ phase'[e] = IF Tail(queue[d]) = <<>> THEN "idle" ELSE "sending"
        BY <1>7, <1>8, <2>1 DEF TypeOK, Pending
    <3>2. QED
        BY <1>1, <1>3, <3>1
  <2>2. CASE e # d
    <3>1. /\ queue'[e] = queue[e] /\ cache'[e] = cache[e]
          /\ jobs'[e] = jobs[e] /\ phase'[e] = phase[e]
        BY <1>7, <1>8, <2>2 DEF TypeOK, Pending
    <3>2. QED
        BY <3>1 DEF JobInv
  <2>3. QED
    BY <2>1, <2>2
<1>14. JobInv'
    BY <1>13 DEF JobInv
<1>15. QED
    BY <1>3, <1>7, <1>8, <1>9, <1>10, <1>11, <1>12, <1>14 DEF id

LEMMA WriteInvSave ==
    ASSUME writes \in Seq(Write), WriteInv, NEW by \in Caller, NEW pending \in Pending,
           saveToDB(by, pending), NoRepetition(pending),
           \A d \in Device, id \in Identifier :
                by = <<"add", d, id>> => id \in ToSet(pending[d])
    PROVE  WriteInv'
<1>1. ASSUME NEW p \in DOMAIN writes'
      PROVE  /\ NoRepetition(writes'[p].pending)
             /\ \A d \in Device, id \in Identifier :
                    writes'[p].by = <<"add", d, id>> => id \in ToSet(writes'[p].pending[d])
  <2>1. CASE p \in 1..Len(writes)
    <3>1. writes'[p] = writes[p] /\ p \in DOMAIN writes
        BY <2>1, SaveFacts
    <3>2. QED
        BY <3>1 DEF WriteInv
  <2>2. CASE p = Len(writes) + 1
    <3>1. writes'[p].by = by /\ writes'[p].pending = pending
        BY <2>2, SaveFacts
    <3>2. QED
        BY <3>1
  <2>3. p \in 1..Len(writes) \/ p = Len(writes) + 1
    BY SaveFacts
  <2>4. QED
    BY <2>1, <2>2, <2>3
<1>2. QED
    BY <1>1 DEF WriteInv

LEMMA WriteInvReply ==
    ASSUME writes \in Seq(Write), WriteInv, writes # <<>>, writes' = Tail(writes)
    PROVE  WriteInv'
<1>1. ASSUME NEW p \in DOMAIN writes'
      PROVE  writes'[p] = writes[p + 1] /\ p + 1 \in DOMAIN writes
    BY ReplyFacts
<1>2. QED
    BY <1>1 DEF WriteInv

-----------------------------------------------------------------------------
(* Types, the cache, the load and the jobs are one induction: that a filter of *)
(* the cache is a sequence of identifiers follows from what is in the chains.  *)

BaseInv == TypeOK /\ CacheInv /\ LoadInv /\ JobInv

\* what an action that saves leaves true of the load
LEMMA LoadInvSave ==
    ASSUME writes \in Seq(Write), LoadInv, Loaded, UNCHANGED loadPromise,
           NEW by \in Caller, NEW pending \in Pending, saveToDB(by, pending),
           by # <<"load">>
    PROVE  LoadInv'
<1>1. ASSUME NEW p \in DOMAIN writes'
      PROVE  writes'[p].by # <<"load">>
  <2>1. CASE p \in 1..Len(writes)
    <3>1. writes'[p] = writes[p] /\ p \in DOMAIN writes
        BY <2>1, SaveFacts
    <3>2. QED
        BY <3>1 DEF LoadInv
  <2>2. CASE p = Len(writes) + 1
    BY <2>2, SaveFacts
  <2>3. p \in 1..Len(writes) \/ p = Len(writes) + 1
    BY SaveFacts
  <2>4. QED
    BY <2>1, <2>2, <2>3
<1>2. QED
    BY <1>1 DEF LoadInv, Loaded

LEMMA LoadInvReply ==
    ASSUME writes \in Seq(Write), LoadInv, Loaded, UNCHANGED loadPromise,
           writes # <<>>, writes' = Tail(writes)
    PROVE  LoadInv' /\ Head(writes).by # <<"load">>
<1>1. ASSUME NEW p \in DOMAIN writes'
      PROVE  writes'[p] = writes[p + 1] /\ p + 1 \in DOMAIN writes
    BY ReplyFacts
<1>2. Head(writes) = writes[1] /\ 1 \in DOMAIN writes
    BY ReplyFacts
<1>3. QED
    BY <1>1, <1>2 DEF LoadInv, Loaded

\* A load writes alone.
LEMMA LoadWrites ==
    ASSUME TypeOK, LoadInv, writes # <<>>, Head(writes).by = <<"load">>
    PROVE  /\ loadPromise = "saving" /\ Tail(writes) = <<>>
           /\ Head(writes).pending = disk
           /\ queue = NothingPending /\ cache = NothingPending
<1>1. Head(writes) = writes[1] /\ 1 \in DOMAIN writes
    BY DEF TypeOK
<1>2. loadPromise = "saving"
    BY <1>1 DEF LoadInv, TypeOK, Loaded
<1>3. Len(writes) = 1
    BY <1>2 DEF LoadInv
<1>4. Tail(writes) = <<>>
  <2>1. Tail(writes) \in Seq(Write) /\ Len(Tail(writes)) = 0
    BY <1>3, HeadTailProperties DEF TypeOK
  <2>2. QED
    BY <2>1, EmptySeq
<1>5. Head(writes).pending = disk
    BY <1>1, <1>2 DEF LoadInv
<1>6. queue = NothingPending /\ cache = NothingPending
    BY <1>2 DEF LoadInv, Loaded
<1>7. QED
    BY <1>2, <1>4, <1>5, <1>6

LEMMA EmptyIsPrefix ==
    ASSUME NEW s \in Seq(Identifier), NEW t \in Seq(Identifier), s = <<>>
    PROVE  IsPrefix(s, t)
<1>1. Len(s) = 0 /\ Len(t) \in Nat
    OBVIOUS
<1>2. Len(s) <= Len(t) /\ \A i \in 1..Len(s) : s[i] = t[i]
    BY <1>1
<1>3. QED
    BY <1>2, PrefixFacts

LEMMA PrefixReflexive ==
    ASSUME NEW s \in Seq(Identifier)
    PROVE  IsPrefix(s, s)
BY PrefixFacts

LEMMA BaseInit == Init => BaseInv
<1> SUFFICES ASSUME Init PROVE BaseInv
    OBVIOUS
<1>1. <<>> \in Seq(Identifier) /\ <<>> \in Seq(Write)
    OBVIOUS
<1>2. TypeOK
    BY <1>1 DEF Init, TypeOK, NothingPending, Pending
<1>3. NoRepetition(NothingPending)
    BY DEF NoRepetition, NothingPending, IsInjective
<1>4. CacheInv
    BY <1>3 DEF Init, CacheInv, WriteInv
<1>5. LoadInv
    BY DEF Init, LoadInv, Loaded
<1>6. ToSet(<<>>) = {}
    BY DEF ToSet
<1>7. IsPrefix(<<>>, <<>>)
    BY <1>1, PrefixReflexive
<1>8. JobInv
    BY <1>6, <1>7 DEF Init, JobInv, NothingPending
<1>9. QED
    BY <1>2, <1>4, <1>5, <1>8 DEF BaseInv

\* Finish, in each of the three actions that end a job
LEMMA BaseFinish ==
    ASSUME BaseInv, NEW d \in Device, phase[d] # "idle",
           NEW left \in SUBSET Identifier, Finish(d, left)
    PROVE  BaseInv' /\ Loaded
<1>1. queue[d] # <<>>
    BY DEF BaseInv, JobInv
<1>2. Loaded
    BY <1>1 DEF BaseInv, LoadInv, NothingPending
<1>3. /\ Head(queue[d]) \in Identifier
      /\ cache' \in Pending /\ NoRepetition(cache')
      /\ callbacks' = left \ {Head(queue[d])}
      /\ saveToDB(<<"remove">>, cache')
      /\ queue' \in Pending
      /\ jobs' \in [Device -> SUBSET Identifier]
      /\ phase' \in [Device -> {"idle", "sending", "callback", "failing"}]
      /\ starts' \in [Message -> Nat]
      /\ JobInv'
    BY <1>1, FinishFacts DEF BaseInv
<1>4. /\ owed' = owed \ {<<d, Head(queue[d])>>}
      /\ UNCHANGED <<loadPromise, disk, accepted, counters>>
    BY DEF Finish
<1>5. <<"remove">> \in Caller
    BY DEF Caller
<1>6. writes' \in Seq(Write)
    BY <1>3, <1>5, SaveFacts DEF BaseInv, TypeOK
<1>7. TypeOK'
    BY <1>3, <1>4, <1>6 DEF BaseInv, TypeOK, counters
<1>8. CacheInv'
  <2>1. \A e \in Device, id \in Identifier : <<"remove">> # <<"add", e, id>>
    OBVIOUS
  <2>2. WriteInv'
    BY <1>3, <1>5, <2>1, WriteInvSave DEF BaseInv, TypeOK, CacheInv
  <2>3. QED
    BY <1>3, <1>4, <2>2 DEF BaseInv, CacheInv
<1>9. LoadInv'
  <2>1. <<"remove">> # <<"load">>
    OBVIOUS
  <2>2. QED
    BY <1>2, <1>3, <1>4, <1>5, <2>1, LoadInvSave DEF BaseInv, TypeOK
<1>10. QED
    BY <1>2, <1>3, <1>7, <1>8, <1>9 DEF BaseInv

\* processPending of what is in the cache
LEMMA BaseProcessPending ==
    ASSUME BaseInv, NEW D \in SUBSET Device, processPending(D, cache)
    PROVE  /\ queue' \in Pending
           /\ jobs' \in [Device -> SUBSET Identifier]
           /\ phase' \in [Device -> {"idle", "sending", "callback", "failing"}]
           /\ starts' \in [Message -> Nat]
           /\ UNCHANGED cache => JobInv'
<1>1. cache \in Pending /\ \A d \in D : IsPrefix(queue[d], cache[d]) /\ IsInjective(cache[d])
    BY DEF BaseInv, TypeOK, JobInv, CacheInv, NoRepetition
<1>2. /\ queue' = [d \in Device |-> IF d \in D THEN cache[d] ELSE queue[d]]
      /\ queue' \in Pending
      /\ jobs' \in [Device -> SUBSET Identifier]
      /\ phase' \in [Device -> {"idle", "sending", "callback", "failing"}]
      /\ \A d \in Device : jobs'[d] = ToSet(queue'[d])
      /\ \A d \in Device : phase'[d] = "idle" <=> queue'[d] = <<>>
      /\ starts' \in [Message -> Nat]
    BY <1>1, ProcessPendingFacts DEF BaseInv
<1>3. ASSUME UNCHANGED cache, NEW d \in Device
      PROVE  IsPrefix(queue'[d], cache'[d])
  <2>1. cache[d] \in Seq(Identifier) /\ IsPrefix(queue[d], cache[d])
    BY DEF BaseInv, TypeOK, Pending, JobInv
  <2>2. IsPrefix(cache[d], cache[d])
    BY <2>1, PrefixReflexive
  <2>3. queue'[d] = IF d \in D THEN cache[d] ELSE queue[d]
    BY <1>2
  <2>4. QED
    BY <1>3, <2>1, <2>2, <2>3
<1>4. QED
    BY <1>2, <1>3 DEF JobInv

\* what a step that touches nothing of a part leaves of it
LEMMA BaseStutter ==
    /\ CacheInv /\ UNCHANGED <<cache, disk, writes>> => CacheInv'
    /\ LoadInv /\ UNCHANGED <<loadPromise, cache, queue, callbacks, disk, writes>> => LoadInv'
    /\ JobInv /\ UNCHANGED <<cache, queue, jobs, phase>> => JobInv'
<1>1. ASSUME CacheInv, UNCHANGED <<cache, disk, writes>>
      PROVE  CacheInv'
    BY <1>1 DEF CacheInv, WriteInv
<1>2. ASSUME LoadInv, UNCHANGED <<loadPromise, cache, queue, callbacks, disk, writes>>
      PROVE  LoadInv'
    BY <1>2 DEF LoadInv, Loaded
<1>3. ASSUME JobInv, UNCHANGED <<cache, queue, jobs, phase>>
      PROVE  JobInv'
    BY <1>3 DEF JobInv
<1>4. QED
    BY <1>1, <1>2, <1>3

\* add(), in process()
LEMMA BaseAdd ==
    ASSUME BaseInv, Loaded, NEW d \in Device, NEW id \in Identifier,
           <<d, id>> \in Message, add(d, id),
           UNCHANGED <<queue, jobs, phase, starts, loadPromise, disk, owed, crashes,
                       writeFailures, loadFailures>>,
           calls' \in Nat
    PROVE  BaseInv'
<1>1. /\ id \notin ToSet(cache[d])
      /\ cache' = [cache EXCEPT ![d] = Append(cache[d], id)]
      /\ callbacks' = callbacks \cup (IF <<d, id>> \in WithCallback THEN {id} ELSE {})
      /\ saveToDB(<<"add", d, id>>, cache')
      /\ accepted' = [accepted EXCEPT ![<<d, id>>] = accepted[<<d, id>>] + 1]
    BY FindIsMember DEF BaseInv, add
<1>2. cache[d] \in Seq(Identifier) /\ IsInjective(cache[d])
    BY DEF BaseInv, TypeOK, Pending, CacheInv, NoRepetition
<1>3. /\ Append(cache[d], id) \in Seq(Identifier)
      /\ ToSet(Append(cache[d], id)) = ToSet(cache[d]) \cup {id}
      /\ IsInjective(Append(cache[d], id))
      /\ \A q \in Seq(Identifier) : IsPrefix(q, cache[d]) => IsPrefix(q, Append(cache[d], id))
    BY <1>1, <1>2, PushFacts
<1>4. /\ cache' \in Pending
      /\ cache'[d] = Append(cache[d], id)
      /\ \A e \in Device \ {d} : cache'[e] = cache[e]
    BY <1>1, <1>3 DEF BaseInv, TypeOK, Pending
<1>5. NoRepetition(cache')
    BY <1>3, <1>4 DEF BaseInv, CacheInv, NoRepetition
<1>6. <<"add", d, id>> \in Caller
  <2>1. <<d, id>>[1] = d /\ <<d, id>>[2] = id
    OBVIOUS
  <2>2. QED
    BY <2>1 DEF Caller
<1>7. writes' \in Seq(Write)
    BY <1>1, <1>4, <1>6, SaveFacts DEF BaseInv, TypeOK
<1>8. accepted' \in [Message -> Nat]
    BY <1>1 DEF BaseInv, TypeOK
<1>9. TypeOK'
    BY <1>1, <1>4, <1>7, <1>8 DEF BaseInv, TypeOK
<1>10. CacheInv'
  <2>1. \A e \in Device, k \in Identifier :
            <<"add", d, id>> = <<"add", e, k>> => k \in ToSet(cache'[e])
    BY <1>3, <1>4
  <2>2. WriteInv'
    BY <1>1, <1>4, <1>5, <1>6, <2>1, WriteInvSave DEF BaseInv, TypeOK, CacheInv
  <2>3. QED
    BY <1>5, <2>2 DEF BaseInv, CacheInv
<1>11. LoadInv'
  <2>1. <<"add", d, id>> # <<"load">>
    OBVIOUS
  <2>2. QED
    BY <1>1, <1>4, <1>6, <2>1, LoadInvSave DEF BaseInv, TypeOK
<1>12. JobInv'
  <2>1. ASSUME NEW e \in Device
        PROVE  IsPrefix(queue[e], cache'[e])
    <3>1. queue[e] \in Seq(Identifier) /\ IsPrefix(queue[e], cache[e])
        BY DEF BaseInv, TypeOK, Pending, JobInv
    <3>2. QED
        BY <1>3, <1>4, <3>1
  <2>2. QED
    BY <2>1 DEF BaseInv, JobInv
<1>13. QED
    BY <1>9, <1>10, <1>11, <1>12 DEF BaseInv

\* the reply to a write, whoever awaits it
LEMMA BaseWriteDone ==
    ASSUME BaseInv, WriteDone
    PROVE  BaseInv'
<1> DEFINE w == Head(writes)
<1>1. /\ writes # <<>> /\ disk' = w.pending /\ writes' = Tail(writes)
      /\ UNCHANGED <<callbacks, accepted, counters>>
    BY DEF WriteDone
<1>2. /\ writes' \in Seq(Write) /\ 1 \in DOMAIN writes /\ w = writes[1]
      /\ w.pending \in Pending /\ w.by \in Caller
    BY <1>1, ReplyFacts DEF BaseInv, TypeOK
<1>3. WriteInv' /\ NoRepetition(w.pending)
  <2>1. WriteInv'
    BY <1>1, WriteInvReply DEF BaseInv, TypeOK, CacheInv
  <2>2. NoRepetition(w.pending)
    BY <1>2 DEF BaseInv, CacheInv, WriteInv
  <2>3. QED
    BY <2>1, <2>2
<1> HIDE DEF w
<1>4. CASE LoadSaved
  <2>1. /\ w.by = <<"load">> /\ loadPromise' = "done" /\ cache' = w.pending
        /\ processPending(Device, w.pending) /\ UNCHANGED owed
    BY <1>4 DEF LoadSaved, w
  <2>2. /\ writes' = <<>> /\ queue = NothingPending
    BY <1>1, <2>1, LoadWrites DEF BaseInv, w
  <2>3. \A d \in Device : IsPrefix(queue[d], w.pending[d]) /\ IsInjective(w.pending[d])
    <3>1. ASSUME NEW d \in Device
          PROVE  IsPrefix(queue[d], w.pending[d])
      <4>1. queue[d] \in Seq(Identifier) /\ w.pending[d] \in Seq(Identifier)
        BY <1>2 DEF BaseInv, TypeOK, Pending
      <4>2. queue[d] = <<>>
        BY <2>2 DEF NothingPending
      <4>3. QED
        BY <4>1, <4>2, EmptyIsPrefix
    <3>2. QED
      BY <1>3, <3>1 DEF NoRepetition
  <2>4. /\ queue' = [d \in Device |-> w.pending[d]]
        /\ queue' \in Pending
        /\ jobs' \in [Device -> SUBSET Identifier]
        /\ phase' \in [Device -> {"idle", "sending", "callback", "failing"}]
        /\ \A d \in Device : jobs'[d] = ToSet(queue'[d])
        /\ \A d \in Device : phase'[d] = "idle" <=> queue'[d] = <<>>
        /\ starts' \in [Message -> Nat]
    <3>1. TypeOK /\ JobInv /\ Device \in SUBSET Device
      BY DEF BaseInv
    <3>2. /\ queue' = [d \in Device |-> IF d \in Device THEN w.pending[d] ELSE queue[d]]
          /\ queue' \in Pending
          /\ jobs' \in [Device -> SUBSET Identifier]
          /\ phase' \in [Device -> {"idle", "sending", "callback", "failing"}]
          /\ \A d \in Device : jobs'[d] = ToSet(queue'[d])
          /\ \A d \in Device : phase'[d] = "idle" <=> queue'[d] = <<>>
          /\ starts' \in [Message -> Nat]
      BY <1>2, <2>1, <2>3, <3>1, ProcessPendingFacts
    <3>3. QED
      BY <3>2
  <2>5. TypeOK'
    BY <1>1, <1>2, <2>1, <2>4 DEF BaseInv, TypeOK, counters
  <2>6. CacheInv'
    BY <1>1, <1>3, <2>1 DEF CacheInv
  <2>7. LoadInv'
    BY <2>1, <2>2 DEF LoadInv, Loaded
  <2>8. JobInv'
    <3>1. ASSUME NEW d \in Device
          PROVE  IsPrefix(queue'[d], cache'[d])
      BY <1>2, <2>1, <2>4, PrefixReflexive DEF Pending
    <3>2. QED
      BY <2>4, <3>1 DEF JobInv
  <2>9. QED
    BY <2>5, <2>6, <2>7, <2>8 DEF BaseInv
<1>5. CASE AddSaved
  <2>1. PICK d \in Device, id \in Identifier :
            /\ w.by = <<"add", d, id>>
            /\ processPending({d}, cache)
            /\ owed' = IF Standing(d, id) THEN owed \cup {<<d, id>>} ELSE owed
            /\ UNCHANGED <<loadPromise, cache>>
    BY <1>5 DEF AddSaved, w
  <2>2. Loaded
    <3>1. <<"add", d, id>> # <<"load">>
      OBVIOUS
    <3>2. loadPromise # "saving" /\ loadPromise \notin {"reading", "rejected"}
      BY <1>1, <1>2, <2>1, <3>1 DEF BaseInv, LoadInv
    <3>3. QED
      BY <3>2 DEF BaseInv, TypeOK, Loaded
  <2>3. /\ queue' \in Pending
        /\ jobs' \in [Device -> SUBSET Identifier]
        /\ phase' \in [Device -> {"idle", "sending", "callback", "failing"}]
        /\ starts' \in [Message -> Nat]
        /\ JobInv'
    BY <2>1, BaseProcessPending
  <2>4. owed' \subseteq Message
    <3>1. PICK m \in Message : w.by = <<"add", m[1], m[2]>>
      BY <1>2, <2>1 DEF Caller
    <3>2. m = <<d, id>>
      BY <2>1, <3>1, MessageQueueAssumption
    <3>3. QED
      BY <2>1, <3>2 DEF BaseInv, TypeOK
  <2>5. TypeOK'
    BY <1>1, <1>2, <2>1, <2>3, <2>4 DEF BaseInv, TypeOK, counters
  <2>6. CacheInv'
    BY <1>1, <1>3, <2>1 DEF BaseInv, CacheInv
  <2>7. LoadInv'
    BY <1>1, <2>1, <2>2, LoadInvReply DEF BaseInv, TypeOK
  <2>8. QED
    BY <2>3, <2>5, <2>6, <2>7 DEF BaseInv
<1>6. CASE RemoveSaved
  <2>1. /\ w.by = <<"remove">>
        /\ UNCHANGED <<loadPromise, cache, queue, jobs, phase, starts, owed>>
    BY <1>6 DEF RemoveSaved, w
  <2>2. Loaded
    <3>1. <<"remove">> # <<"load">>
      OBVIOUS
    <3>2. loadPromise # "saving" /\ loadPromise \notin {"reading", "rejected"}
      BY <1>1, <1>2, <2>1, <3>1 DEF BaseInv, LoadInv
    <3>3. QED
      BY <3>2 DEF BaseInv, TypeOK, Loaded
  <2>3. TypeOK'
    BY <1>1, <1>2, <2>1 DEF BaseInv, TypeOK, counters
  <2>4. CacheInv'
    BY <1>1, <1>3, <2>1 DEF BaseInv, CacheInv
  <2>5. LoadInv'
    BY <1>1, <2>1, <2>2, LoadInvReply DEF BaseInv, TypeOK
  <2>6. JobInv'
    BY <2>1, BaseStutter DEF BaseInv
  <2>7. QED
    BY <2>3, <2>4, <2>5, <2>6 DEF BaseInv
<1>7. QED
    BY <1>4, <1>5, <1>6 DEF WriteDone

\* what the steps of a job that do not end it leave true
LEMMA BasePhase ==
    ASSUME BaseInv, NEW d \in Device, NEW p \in {"callback", "failing"},
           phase[d] # "idle", phase' = [phase EXCEPT ![d] = p],
           UNCHANGED <<loadPromise, cache, callbacks, disk, writes, queue, jobs, owed,
                       accepted, starts, counters>>
    PROVE  BaseInv'
<1>1. TypeOK'
    BY DEF BaseInv, TypeOK, counters
<1>2. CacheInv' /\ LoadInv'
    BY BaseStutter DEF BaseInv
<1>3. ASSUME NEW e \in Device
      PROVE  phase'[e] = "idle" <=> phase[e] = "idle"
    BY DEF BaseInv, TypeOK
<1>4. JobInv'
    BY <1>3 DEF BaseInv, JobInv
<1>5. QED
    BY <1>1, <1>2, <1>4 DEF BaseInv

LEMMA BaseStep == BaseInv /\ [Next]_vars => BaseInv'
<1> SUFFICES ASSUME BaseInv, [Next]_vars PROVE BaseInv'
    OBVIOUS
<1>1. CASE getFromStorage
  <2>1. /\ loadPromise = "reading" /\ loadPromise' = "saving" /\ saveToDB(<<"load">>, disk)
        /\ UNCHANGED <<cache, callbacks, disk, queue, jobs, phase, owed, accepted, starts>>
        /\ UNCHANGED counters
    BY <1>1 DEF getFromStorage
  <2>2. writes = <<>> /\ Len(writes) = 0
    BY <2>1 DEF BaseInv, LoadInv
  <2>3. <<"load">> \in Caller
    BY DEF Caller
  <2>4. /\ writes' \in Seq(Write) /\ Len(writes') = 1
        /\ writes'[1].by = <<"load">> /\ writes'[1].pending = disk
    <3>1. /\ writes' \in Seq(Write) /\ Len(writes') = Len(writes) + 1
          /\ writes'[Len(writes) + 1].by = <<"load">>
          /\ writes'[Len(writes) + 1].pending = disk
      BY <2>1, <2>3, SaveFacts DEF BaseInv, TypeOK
    <3>2. QED
      BY <2>2, <3>1
  <2>5. TypeOK'
    BY <2>1, <2>4 DEF BaseInv, TypeOK, counters
  <2>6. CacheInv'
    <3>1. \A d \in Device, id \in Identifier : <<"load">> # <<"add", d, id>>
      OBVIOUS
    <3>2. WriteInv'
      BY <2>1, <2>3, <3>1, WriteInvSave DEF BaseInv, TypeOK, CacheInv
    <3>3. QED
      BY <2>1, <3>2 DEF BaseInv, CacheInv
  <2>7. LoadInv'
    BY <2>1, <2>4 DEF BaseInv, LoadInv, Loaded
  <2>8. JobInv'
    BY <2>1, BaseStutter DEF BaseInv
  <2>9. QED
    BY <2>5, <2>6, <2>7, <2>8 DEF BaseInv
<1>2. CASE LoadRejected
  <2>1. /\ loadPromise = "reading" /\ loadPromise' = "rejected"
        /\ UNCHANGED <<cache, callbacks, disk, writes, queue, jobs, phase, owed, accepted,
                       starts, calls, crashes, writeFailures>>
        /\ loadFailures' = loadFailures + 1
    BY <1>2 DEF LoadRejected
  <2>2. TypeOK'
    BY <2>1 DEF BaseInv, TypeOK
  <2>3. LoadInv'
    BY <2>1 DEF BaseInv, LoadInv, Loaded
  <2>4. QED
    BY <2>1, <2>2, <2>3, BaseStutter DEF BaseInv
<1>3. ASSUME NEW m \in Message, process(m[1], m[2])
      PROVE  BaseInv'
  <2>1. /\ m[1] \in Device /\ m[2] \in Identifier /\ <<m[1], m[2]>> = m
    BY MessageQueueAssumption
  <2>2. /\ Loaded /\ calls' = calls + 1 /\ calls' \in Nat
        /\ UNCHANGED <<loadPromise, disk, owed, crashes, writeFailures, loadFailures>>
    BY <1>3 DEF process, BaseInv, TypeOK
  <2>3. CASE add(m[1], m[2]) /\ UNCHANGED <<queue, jobs, phase, starts>>
    BY <2>1, <2>2, <2>3, BaseAdd
  <2>4. CASE /\ processPending({m[1]}, cache)
             /\ UNCHANGED <<cache, callbacks, writes, accepted>>
    <3>1. /\ queue' \in Pending
          /\ jobs' \in [Device -> SUBSET Identifier]
          /\ phase' \in [Device -> {"idle", "sending", "callback", "failing"}]
          /\ starts' \in [Message -> Nat]
          /\ JobInv'
      BY <2>1, <2>4, BaseProcessPending
    <3>2. TypeOK'
      BY <2>2, <2>4, <3>1 DEF BaseInv, TypeOK
    <3>3. CacheInv'
      BY <2>2, <2>4, BaseStutter DEF BaseInv
    <3>4. LoadInv'
      BY <2>2, <2>4 DEF BaseInv, LoadInv, Loaded
    <3>5. QED
      BY <3>1, <3>2, <3>3, <3>4 DEF BaseInv
  <2>5. QED
    BY <1>3, <2>3, <2>4 DEF process
<1>4. CASE processAllPending
  <2>1. /\ Loaded /\ processPending(Device, cache)
        /\ UNCHANGED <<loadPromise, cache, callbacks, disk, writes, owed, accepted>>
        /\ UNCHANGED counters
    BY <1>4 DEF processAllPending
  <2>2. /\ queue' \in Pending
        /\ jobs' \in [Device -> SUBSET Identifier]
        /\ phase' \in [Device -> {"idle", "sending", "callback", "failing"}]
        /\ starts' \in [Message -> Nat]
        /\ JobInv'
    <3>1. Device \in SUBSET Device
      OBVIOUS
    <3>2. QED
      BY <2>1, <3>1, BaseProcessPending
  <2>3. TypeOK'
    BY <2>1, <2>2 DEF BaseInv, TypeOK, counters
  <2>4. CacheInv'
    BY <2>1, BaseStutter DEF BaseInv
  <2>5. LoadInv'
    BY <2>1 DEF BaseInv, LoadInv, Loaded
  <2>6. QED
    BY <2>2, <2>3, <2>4, <2>5 DEF BaseInv
<1>5. CASE WriteDone
    BY <1>5, BaseWriteDone
<1>6. CASE WriteFailed
  <2>1. /\ writes # <<>> /\ Head(writes).by # <<"load">> /\ writes' = Tail(writes)
        /\ writeFailures' = writeFailures + 1
        /\ UNCHANGED <<loadPromise, cache, callbacks, disk, queue, jobs, phase, owed,
                       accepted, starts, calls, crashes, loadFailures>>
    BY <1>6 DEF WriteFailed
  <2>2. /\ writes' \in Seq(Write) /\ 1 \in DOMAIN writes /\ Head(writes) = writes[1]
    BY <2>1, ReplyFacts DEF BaseInv, TypeOK
  <2>3. Loaded
    <3>1. loadPromise # "saving" /\ loadPromise \notin {"reading", "rejected"}
      BY <2>1, <2>2 DEF BaseInv, LoadInv
    <3>2. QED
      BY <3>1 DEF BaseInv, TypeOK, Loaded
  <2>4. TypeOK'
    BY <2>1, <2>2 DEF BaseInv, TypeOK
  <2>5. CacheInv'
    <3>1. WriteInv'
      BY <2>1, WriteInvReply DEF BaseInv, TypeOK, CacheInv
    <3>2. QED
      BY <2>1, <3>1 DEF BaseInv, CacheInv
  <2>6. LoadInv'
    BY <2>1, <2>3, LoadInvReply DEF BaseInv, TypeOK
  <2>7. QED
    BY <2>1, <2>4, <2>5, <2>6, BaseStutter DEF BaseInv
<1>7. CASE LoadSaveFailed
  <2>1. /\ writes # <<>> /\ Head(writes).by = <<"load">> /\ writes' = Tail(writes)
        /\ loadFailures' = loadFailures + 1 /\ loadPromise' = "done"
        /\ UNCHANGED <<cache, callbacks, disk, queue, jobs, phase, owed, accepted, starts,
                       calls, crashes, writeFailures>>
    BY <1>7 DEF LoadSaveFailed
  <2>2. writes' = <<>>
    BY <2>1, LoadWrites DEF BaseInv
  <2>3. TypeOK'
    BY <2>1, <2>2 DEF BaseInv, TypeOK
  <2>4. CacheInv'
    BY <2>1, <2>2 DEF BaseInv, CacheInv, WriteInv
  <2>5. LoadInv'
    BY <2>1, <2>2 DEF LoadInv, Loaded
  <2>6. QED
    BY <2>1, <2>3, <2>4, <2>5, BaseStutter DEF BaseInv
<1>8. ASSUME NEW d \in Device, SendSucceeds(d)
      PROVE  BaseInv'
  <2>1. phase[d] # "idle" /\ callbacks \in SUBSET Identifier
    BY <1>8 DEF SendSucceeds, BaseInv, TypeOK
  <2>2. QED
    BY <1>8, <2>1, BaseFinish, BasePhase DEF SendSucceeds
<1>9. ASSUME NEW d \in Device, SendThrows(d)
      PROVE  BaseInv'
  <2>1. phase[d] # "idle"
    BY <1>9 DEF SendThrows
  <2>2. QED
    BY <1>9, <2>1, BasePhase DEF SendThrows
<1>10. ASSUME NEW d \in Device, CallbackResolves(d)
       PROVE  BaseInv'
  <2>1. phase[d] # "idle" /\ callbacks \ {Head(queue[d])} \in SUBSET Identifier
    BY <1>10 DEF CallbackResolves, BaseInv, TypeOK
  <2>2. QED
    BY <1>10, <2>1, BaseFinish DEF CallbackResolves
<1>11. ASSUME NEW d \in Device, CallbackThrows(d)
       PROVE  BaseInv'
  <2>1. phase[d] # "idle"
    BY <1>11 DEF CallbackThrows
  <2>2. QED
    BY <1>11, <2>1, BasePhase DEF CallbackThrows
<1>12. ASSUME NEW d \in Device, FailureHandled(d)
       PROVE  BaseInv'
  <2>1. phase[d] # "idle" /\ callbacks \in SUBSET Identifier
    BY <1>12 DEF FailureHandled, BaseInv, TypeOK
  <2>2. QED
    BY <1>12, <2>1, BaseFinish DEF FailureHandled
<1>13. CASE Crash
  <2>1. PICK n \in 0..Len(writes) : disk' = IF n = 0 THEN disk ELSE writes[n].pending
    BY <1>13 DEF Crash
  <2>2. /\ crashes' = crashes + 1 /\ loadPromise' = "reading" /\ cache' = NothingPending
        /\ callbacks' = {} /\ writes' = <<>> /\ queue' = NothingPending
        /\ jobs' = [d \in Device |-> {}] /\ phase' = [d \in Device |-> "idle"]
        /\ UNCHANGED <<owed, accepted, starts, calls, writeFailures, loadFailures>>
    BY <1>13 DEF Crash
  <2>3. disk' \in Pending /\ NoRepetition(disk')
    <3>1. CASE n = 0
      BY <2>1, <3>1 DEF BaseInv, TypeOK, CacheInv
    <3>2. CASE n # 0
      <4>1. n \in DOMAIN writes /\ disk' = writes[n].pending /\ writes[n] \in Write
        BY <2>1, <3>2 DEF BaseInv, TypeOK
      <4>2. QED
        BY <4>1 DEF BaseInv, CacheInv, WriteInv, Write
    <3>3. QED
      BY <3>1, <3>2
  <2>4. NothingPending \in Pending /\ <<>> \in Seq(Write) /\ NoRepetition(NothingPending)
    <3>1. <<>> \in Seq(Identifier) /\ <<>> \in Seq(Write)
      OBVIOUS
    <3>2. QED
      BY <3>1 DEF NothingPending, Pending, NoRepetition, IsInjective
  <2>5. TypeOK'
    BY <2>2, <2>3, <2>4 DEF BaseInv, TypeOK
  <2>6. CacheInv'
    BY <2>2, <2>3, <2>4 DEF CacheInv, WriteInv
  <2>7. LoadInv'
    BY <2>2 DEF LoadInv, Loaded
  <2>8. JobInv'
    <3>1. ToSet(<<>>) = {}
      BY DEF ToSet
    <3>2. <<>> \in Seq(Identifier)
      OBVIOUS
    <3>3. IsPrefix(<<>>, <<>>)
      BY <3>2, PrefixReflexive
    <3>4. QED
      BY <2>2, <3>1, <3>3 DEF JobInv, NothingPending
  <2>9. QED
    BY <2>5, <2>6, <2>7, <2>8 DEF BaseInv
<1>14. CASE UNCHANGED vars
  <2>1. TypeOK'
    BY <1>14 DEF BaseInv, TypeOK, vars, memory, counters
  <2>2. QED
    BY <1>14, <2>1, BaseStutter DEF BaseInv, vars, memory, counters
<1>15. QED
    BY <1>1, <1>2, <1>3, <1>4, <1>5, <1>6, <1>7, <1>8, <1>9, <1>10, <1>11, <1>12, <1>13,
       <1>14 DEF Next

-----------------------------------------------------------------------------
(* What is saved stays saved. *)

\* the message m is in every save on its way
Written(m) == \A p \in DOMAIN writes : m[2] \in ToSet(writes[p].pending[m[1]])

LEMMA WrittenSave ==
    ASSUME writes \in Seq(Write), NEW by \in Caller, NEW pending \in Pending,
           saveToDB(by, pending), NEW m \in Message, Written(m),
           m[2] \in ToSet(pending[m[1]])
    PROVE  Written(m)'
<1>1. ASSUME NEW p \in DOMAIN writes'
      PROVE  m[2] \in ToSet(writes'[p].pending[m[1]])
  <2>1. CASE p \in 1..Len(writes)
    <3>1. writes'[p] = writes[p] /\ p \in DOMAIN writes
        BY <2>1, SaveFacts
    <3>2. QED
        BY <3>1 DEF Written
  <2>2. CASE p = Len(writes) + 1
    BY <2>2, SaveFacts
  <2>3. p \in 1..Len(writes) \/ p = Len(writes) + 1
    BY SaveFacts
  <2>4. QED
    BY <2>1, <2>2, <2>3
<1>2. QED
    BY <1>1 DEF Written

LEMMA WrittenReply ==
    ASSUME writes \in Seq(Write), writes # <<>>, writes' = Tail(writes),
           NEW m \in Message, \A p \in 2..Len(writes) : m[2] \in ToSet(writes[p].pending[m[1]])
    PROVE  Written(m)'
<1>1. ASSUME NEW p \in DOMAIN writes'
      PROVE  writes'[p] = writes[p + 1] /\ p + 1 \in 2..Len(writes)
    BY ReplyFacts
<1>2. QED
    BY <1>1 DEF Written

\* SavedIsDurable, for one message
Safe(m) ==
    /\ m[2] \in ToSet(disk[m[1]])
    /\ Written(m)
    /\ Loaded => m[2] \in ToSet(cache[m[1]])

LEMMA SafeIsDurable ==
    /\ SavedIsDurable <=> (loadFailures = 0 => \A m \in owed : Safe(m))
    /\ SavedIsDurable' <=> (loadFailures' = 0 => \A m \in owed' : Safe(m)')
<1>1. ASSUME NEW m
      PROVE  /\ find(m[1], m[2]) <=> m[2] \in ToSet(cache[m[1]])
             /\ find(m[1], m[2])' <=> m[2] \in ToSet(cache'[m[1]])
    BY FindIsMember
<1>2. QED
    BY <1>1 DEF SavedIsDurable, Safe, Written

LEMMA SafeStutter ==
    ASSUME NEW m, Safe(m), UNCHANGED <<disk, writes, loadPromise, cache>>
    PROVE  Safe(m)'
BY DEF Safe, Written, Loaded

LEMMA SafeFinish ==
    ASSUME BaseInv, NEW d \in Device, phase[d] # "idle",
           NEW left \in SUBSET Identifier, Finish(d, left),
           \A m \in owed : Safe(m)
    PROVE  \A m \in owed' : Safe(m)'
<1>1. queue[d] # <<>>
    BY DEF BaseInv, JobInv
<1>2. /\ cache' = [cache EXCEPT ![d] = Tail(cache[d])]
      /\ cache' \in Pending
      /\ ToSet(cache'[d]) = ToSet(cache[d]) \ {Head(queue[d])}
      /\ saveToDB(<<"remove">>, cache')
    BY <1>1, FinishFacts DEF BaseInv
<1>3. owed' = owed \ {<<d, Head(queue[d])>>} /\ UNCHANGED <<loadPromise, disk>> /\ Loaded
    BY BaseFinish DEF Finish
<1>4. <<"remove">> \in Caller
    BY DEF Caller
<1>5. ASSUME NEW m \in owed'
      PROVE  Safe(m)'
  <2>1. /\ m \in owed /\ m \in Message /\ Safe(m) /\ m # <<d, Head(queue[d])>>
        /\ m[1] \in Device /\ m = <<m[1], m[2]>>
    BY <1>3, MessageQueueAssumption DEF BaseInv, TypeOK
  <2>2. m[2] \in ToSet(cache'[m[1]])
    <3>1. CASE m[1] = d
      BY <1>2, <1>3, <2>1, <3>1 DEF Safe
    <3>2. CASE m[1] # d
      BY <1>2, <1>3, <2>1, <3>2 DEF Safe, BaseInv, TypeOK, Pending
    <3>3. QED
      BY <3>1, <3>2
  <2>3. Written(m)'
    BY <1>2, <1>4, <2>1, <2>2, WrittenSave DEF Safe, BaseInv, TypeOK
  <2>4. QED
    BY <1>3, <2>1, <2>2, <2>3 DEF Safe
<1>6. QED
    BY <1>5

LEMMA SafeWriteDone ==
    ASSUME BaseInv, WriteDone, \A m \in owed : Safe(m)
    PROVE  \A m \in owed' : Safe(m)'
<1> DEFINE w == Head(writes)
<1>1. writes # <<>> /\ disk' = w.pending /\ writes' = Tail(writes)
    BY DEF WriteDone
<1>2. /\ writes' \in Seq(Write) /\ 1 \in DOMAIN writes /\ w = writes[1]
      /\ w.pending \in Pending /\ w.by \in Caller
    BY <1>1, ReplyFacts DEF BaseInv, TypeOK
<1> HIDE DEF w
<1>3. ASSUME NEW m \in owed
      PROVE  m[2] \in ToSet(disk'[m[1]]) /\ Written(m)'
  <2>1. m \in Message /\ \A p \in DOMAIN writes : m[2] \in ToSet(writes[p].pending[m[1]])
    BY DEF BaseInv, TypeOK, Safe, Written
  <2>2. Written(m)'
    BY <1>1, <2>1, WrittenReply DEF BaseInv, TypeOK
  <2>3. QED
    BY <1>1, <1>2, <2>1, <2>2
<1>4. CASE LoadSaved
  <2>1. /\ owed' = owed /\ cache' = disk'
    BY <1>1, <1>4 DEF LoadSaved, w
  <2>2. QED
    BY <1>3, <2>1 DEF Safe
<1>5. CASE RemoveSaved
  <2>1. UNCHANGED <<owed, loadPromise, cache>>
    BY <1>5 DEF RemoveSaved
  <2>2. QED
    BY <1>3, <2>1 DEF Safe, Loaded
<1>6. CASE AddSaved
  <2>1. PICK d \in Device, id \in Identifier :
            /\ w.by = <<"add", d, id>>
            /\ owed' = IF Standing(d, id) THEN owed \cup {<<d, id>>} ELSE owed
            /\ UNCHANGED <<loadPromise, cache>>
    BY <1>6 DEF AddSaved, w
  <2>2. ASSUME NEW m \in owed
        PROVE  Safe(m)'
    BY <1>3, <2>1 DEF Safe, Loaded
  <2>3. ASSUME Standing(d, id), NEW m, m = <<d, id>>, m \in Message
        PROVE  Safe(m)'
    <3>1. id \in ToSet(disk'[d])
      BY <1>1, <1>2, <2>1 DEF BaseInv, CacheInv, WriteInv
    <3>2. \A p \in 2..Len(writes) : id \in ToSet(writes[p].pending[d])
      BY <2>3 DEF Standing
    <3>3. m[1] = d /\ m[2] = id
      BY <2>3
    <3>4. Written(m)'
      BY <1>1, <2>3, <3>2, <3>3, WrittenReply DEF BaseInv, TypeOK
    <3>5. id \in ToSet(cache[d])
      BY <2>3, FindIsMember DEF Standing
    <3>6. QED
      BY <2>1, <3>1, <3>3, <3>4, <3>5 DEF Safe
  <2>4. owed' \subseteq Message
    BY BaseWriteDone DEF BaseInv, TypeOK
  <2>5. QED
    BY <2>1, <2>2, <2>3, <2>4
<1>7. QED
    BY <1>4, <1>5, <1>6 DEF WriteDone

\* SavedIsDurable is inductive: a step of the queue leaves every saved message saved.
LEMMA DurableStep == BaseInv /\ SavedIsDurable /\ [Next]_vars => SavedIsDurable'
<1> SUFFICES ASSUME BaseInv, SavedIsDurable, [Next]_vars, loadFailures' = 0
             PROVE  \A m \in owed' : Safe(m)'
    BY SafeIsDurable
<1>0. /\ loadFailures = 0
      /\ ~LoadRejected /\ ~LoadSaveFailed
  <2>1. loadFailures \in Nat
    BY DEF BaseInv, TypeOK
  <2>2. ~LoadRejected /\ ~LoadSaveFailed
    BY <2>1 DEF LoadRejected, LoadSaveFailed
  <2>3. UNCHANGED loadFailures
    BY <2>2 DEF Next, vars, counters, getFromStorage, process, processAllPending, WriteDone,
       WriteFailed, SendSucceeds, SendThrows, CallbackResolves, CallbackThrows,
       FailureHandled, Finish, Crash
  <2>4. QED
    BY <2>2, <2>3
<1>1. /\ \A m \in owed : Safe(m)
      /\ \A m \in owed : m \in Message /\ m[1] \in Device /\ m[2] \in Identifier
    BY <1>0, SafeIsDurable, MessageQueueAssumption DEF BaseInv, TypeOK
<1>2. CASE getFromStorage
  <2>1. /\ loadPromise = "reading" /\ loadPromise' = "saving" /\ saveToDB(<<"load">>, disk)
        /\ UNCHANGED <<disk, owed>>
    BY <1>2 DEF getFromStorage
  <2>2. <<"load">> \in Caller
    BY DEF Caller
  <2>3. ASSUME NEW m \in owed
        PROVE  Written(m)'
    <3>1. m \in Message /\ m[2] \in ToSet(disk[m[1]]) /\ Written(m)
      BY <1>1 DEF Safe
    <3>2. QED
      BY <2>1, <2>2, <3>1, WrittenSave DEF BaseInv, TypeOK
  <2>4. QED
    BY <1>1, <2>1, <2>3 DEF Safe, Loaded
<1>3. ASSUME NEW n \in Message, process(n[1], n[2])
      PROVE  \A m \in owed' : Safe(m)'
  <2>1. /\ n[1] \in Device /\ n[2] \in Identifier /\ <<n[1], n[2]>> = n /\ Loaded
        /\ UNCHANGED <<owed, disk, loadPromise>>
    BY <1>3, MessageQueueAssumption DEF process
  <2>2. CASE add(n[1], n[2])
    <3>1. /\ cache' = [cache EXCEPT ![n[1]] = Append(cache[n[1]], n[2])]
          /\ saveToDB(<<"add", n[1], n[2]>>, cache')
      BY <2>2 DEF add
    <3>2. /\ Append(cache[n[1]], n[2]) \in Seq(Identifier)
          /\ ToSet(Append(cache[n[1]], n[2])) = ToSet(cache[n[1]]) \cup {n[2]}
      BY <2>1, PushFacts DEF BaseInv, TypeOK, Pending
    <3>3. cache' \in Pending /\ <<"add", n[1], n[2]>> \in Caller
      BY <2>1, <3>1, <3>2 DEF BaseInv, TypeOK, Pending, Caller
    <3>4. ASSUME NEW m \in owed
          PROVE  m[2] \in ToSet(cache'[m[1]])
      <4>1. m[1] \in Device /\ m[2] \in ToSet(cache[m[1]])
        BY <1>1, <2>1 DEF Safe
      <4>2. CASE m[1] = n[1]
        BY <2>1, <3>1, <3>2, <4>1, <4>2 DEF BaseInv, TypeOK, Pending
      <4>3. CASE m[1] # n[1]
        BY <3>1, <4>1, <4>3 DEF BaseInv, TypeOK, Pending
      <4>4. QED
        BY <4>2, <4>3
    <3>5. ASSUME NEW m \in owed
          PROVE  Written(m)'
      BY <1>1, <3>1, <3>3, <3>4, WrittenSave DEF BaseInv, TypeOK, Safe
    <3>6. QED
      BY <1>1, <2>1, <3>4, <3>5 DEF Safe
  <2>3. CASE UNCHANGED <<cache, callbacks, writes, accepted>>
    BY <1>1, <2>1, <2>3, SafeStutter
  <2>4. QED
    BY <1>3, <2>2, <2>3 DEF process
<1>4. CASE processAllPending
    BY <1>1, <1>4, SafeStutter DEF processAllPending
<1>5. CASE WriteDone
    BY <1>1, <1>5, SafeWriteDone
<1>6. CASE WriteFailed
  <2>1. writes # <<>> /\ writes' = Tail(writes) /\ UNCHANGED <<loadPromise, cache, disk, owed>>
    BY <1>6 DEF WriteFailed
  <2>2. ASSUME NEW m \in owed
        PROVE  Written(m)'
    <3>1. m \in Message /\ \A p \in DOMAIN writes : m[2] \in ToSet(writes[p].pending[m[1]])
      BY <1>1 DEF Safe, Written
    <3>2. \A p \in 2..Len(writes) : p \in DOMAIN writes
      BY DEF BaseInv, TypeOK
    <3>3. QED
      BY <2>1, <3>1, <3>2, WrittenReply DEF BaseInv, TypeOK
  <2>3. QED
    BY <1>1, <2>1, <2>2 DEF Safe, Loaded
<1>7. ASSUME NEW d \in Device, SendSucceeds(d)
      PROVE  \A m \in owed' : Safe(m)'
  <2>1. phase[d] # "idle" /\ callbacks \in SUBSET Identifier
    BY <1>7 DEF SendSucceeds, BaseInv, TypeOK
  <2>2. QED
    BY <1>1, <1>7, <2>1, SafeFinish, SafeStutter DEF SendSucceeds
<1>8. ASSUME NEW d \in Device, SendThrows(d)
      PROVE  \A m \in owed' : Safe(m)'
    BY <1>1, <1>8, SafeStutter DEF SendThrows
<1>9. ASSUME NEW d \in Device, CallbackResolves(d)
      PROVE  \A m \in owed' : Safe(m)'
  <2>1. phase[d] # "idle" /\ callbacks \ {Head(queue[d])} \in SUBSET Identifier
    BY <1>9 DEF CallbackResolves, BaseInv, TypeOK
  <2>2. QED
    BY <1>1, <1>9, <2>1, SafeFinish DEF CallbackResolves
<1>10. ASSUME NEW d \in Device, CallbackThrows(d)
       PROVE  \A m \in owed' : Safe(m)'
    BY <1>1, <1>10, SafeStutter DEF CallbackThrows
<1>11. ASSUME NEW d \in Device, FailureHandled(d)
       PROVE  \A m \in owed' : Safe(m)'
  <2>1. phase[d] # "idle" /\ callbacks \in SUBSET Identifier
    BY <1>11 DEF FailureHandled, BaseInv, TypeOK
  <2>2. QED
    BY <1>1, <1>11, <2>1, SafeFinish DEF FailureHandled
<1>12. CASE Crash
  <2>1. PICK n \in 0..Len(writes) : disk' = IF n = 0 THEN disk ELSE writes[n].pending
    BY <1>12 DEF Crash
  <2>2. loadPromise' = "reading" /\ writes' = <<>> /\ owed' = owed
    BY <1>12 DEF Crash
  <2>3. ASSUME NEW m \in owed
        PROVE  m[2] \in ToSet(disk'[m[1]])
    <3>1. CASE n = 0
      BY <1>1, <2>1, <3>1 DEF Safe
    <3>2. CASE n # 0
      BY <1>1, <2>1, <3>2 DEF Safe, Written, BaseInv, TypeOK
    <3>3. QED
      BY <3>1, <3>2
  <2>4. QED
    BY <2>2, <2>3 DEF Safe, Written, Loaded
<1>13. CASE UNCHANGED vars
    BY <1>1, <1>13, SafeStutter DEF vars, memory
<1>14. QED
    BY <1>0, <1>2, <1>3, <1>4, <1>5, <1>6, <1>7, <1>8, <1>9, <1>10, <1>11, <1>12, <1>13
    DEF Next

-----------------------------------------------------------------------------
(* Callbacks. *)

LEMMA CallbackFinish ==
    ASSUME BaseInv, NoCallbackLeaks, NEW d \in Device, phase[d] # "idle",
           NEW left \in SUBSET callbacks, Finish(d, left)
    PROVE  NoCallbackLeaks'
<1>1. queue[d] # <<>> /\ left \in SUBSET Identifier
    BY DEF BaseInv, JobInv, TypeOK
<1>2. /\ cache' = [cache EXCEPT ![d] = Tail(cache[d])]
      /\ ToSet(cache'[d]) = ToSet(cache[d]) \ {Head(queue[d])}
      /\ callbacks' = left \ {Head(queue[d])}
    BY <1>1, FinishFacts DEF BaseInv
<1>3. ASSUME NEW id \in callbacks'
      PROVE  \E e \in Device : find(e, id)'
  <2>1. id \in callbacks /\ id # Head(queue[d])
    BY <1>2
  <2>2. PICK e \in Device : id \in ToSet(cache[e])
    BY <2>1, FindIsMember DEF NoCallbackLeaks
  <2>3. id \in ToSet(cache'[e])
    <3>1. CASE e = d
      BY <1>2, <2>1, <2>2, <3>1
    <3>2. CASE e # d
      BY <1>2, <2>2, <3>2 DEF BaseInv, TypeOK, Pending
    <3>3. QED
      BY <3>1, <3>2
  <2>4. QED
    BY <2>3, FindIsMember
<1>4. QED
    BY <1>3 DEF NoCallbackLeaks

LEMMA CallbackStutter ==
    ASSUME NoCallbackLeaks, UNCHANGED <<callbacks, cache>>
    PROVE  NoCallbackLeaks'
BY DEF NoCallbackLeaks, find

LEMMA CallbackStep == BaseInv /\ NoCallbackLeaks /\ [Next]_vars => NoCallbackLeaks'
<1> SUFFICES ASSUME BaseInv, NoCallbackLeaks, [Next]_vars PROVE NoCallbackLeaks'
    OBVIOUS
<1>1. CASE getFromStorage \/ LoadRejected \/ processAllPending \/ WriteFailed \/ LoadSaveFailed
    BY <1>1, CallbackStutter DEF getFromStorage, LoadRejected, processAllPending, WriteFailed,
       LoadSaveFailed
<1>2. ASSUME NEW n \in Message, process(n[1], n[2])
      PROVE  NoCallbackLeaks'
  <2>1. n[1] \in Device /\ n[2] \in Identifier
    BY MessageQueueAssumption
  <2>2. CASE add(n[1], n[2])
    <3>1. /\ cache' = [cache EXCEPT ![n[1]] = Append(cache[n[1]], n[2])]
          /\ callbacks' \subseteq callbacks \cup {n[2]}
      BY <2>2 DEF add
    <3>2. ToSet(Append(cache[n[1]], n[2])) = ToSet(cache[n[1]]) \cup {n[2]}
      BY <2>1, PushFacts DEF BaseInv, TypeOK, Pending
    <3>3. \A e \in Device : ToSet(cache[e]) \subseteq ToSet(cache'[e])
      BY <2>1, <3>1, <3>2 DEF BaseInv, TypeOK, Pending
    <3>4. n[2] \in ToSet(cache'[n[1]])
      BY <2>1, <3>1, <3>2 DEF BaseInv, TypeOK, Pending
    <3>5. ASSUME NEW id \in callbacks'
          PROVE  \E e \in Device : find(e, id)'
      <4>1. CASE id = n[2]
        BY <2>1, <3>4, <4>1, FindIsMember
      <4>2. CASE id # n[2]
        <5>1. PICK e \in Device : id \in ToSet(cache[e])
          BY <3>1, <4>2, FindIsMember DEF NoCallbackLeaks
        <5>2. QED
          BY <3>3, <5>1, FindIsMember
      <4>3. QED
        BY <4>1, <4>2
    <3>6. QED
      BY <3>5 DEF NoCallbackLeaks
  <2>3. CASE UNCHANGED <<cache, callbacks, writes, accepted>>
    BY <2>3, CallbackStutter
  <2>4. QED
    BY <1>2, <2>2, <2>3 DEF process
<1>3. CASE WriteDone
  <2>1. UNCHANGED callbacks
    BY <1>3 DEF WriteDone
  <2>2. CASE LoadSaved
    <3>1. writes # <<>> /\ Head(writes).by = <<"load">>
      BY <1>3, <2>2 DEF WriteDone, LoadSaved
    <3>2. loadPromise = "saving"
      BY <3>1, LoadWrites DEF BaseInv
    <3>3. callbacks' = {}
      BY <2>1, <3>2 DEF BaseInv, LoadInv, Loaded
    <3>4. QED
      BY <3>3 DEF NoCallbackLeaks
  <2>3. CASE AddSaved \/ RemoveSaved
    BY <2>1, <2>3, CallbackStutter DEF AddSaved, RemoveSaved
  <2>4. QED
    BY <1>3, <2>2, <2>3 DEF WriteDone
<1>4. ASSUME NEW d \in Device, SendSucceeds(d)
      PROVE  NoCallbackLeaks'
  <2>1. phase[d] # "idle" /\ callbacks \in SUBSET callbacks
    BY <1>4 DEF SendSucceeds
  <2>2. QED
    BY <1>4, <2>1, CallbackFinish, CallbackStutter DEF SendSucceeds
<1>5. ASSUME NEW d \in Device, SendThrows(d) \/ CallbackThrows(d)
      PROVE  NoCallbackLeaks'
    BY <1>5, CallbackStutter DEF SendThrows, CallbackThrows
<1>6. ASSUME NEW d \in Device, CallbackResolves(d)
      PROVE  NoCallbackLeaks'
  <2>1. phase[d] # "idle" /\ callbacks \ {Head(queue[d])} \in SUBSET callbacks
    BY <1>6 DEF CallbackResolves
  <2>2. QED
    BY <1>6, <2>1, CallbackFinish DEF CallbackResolves
<1>7. ASSUME NEW d \in Device, FailureHandled(d)
      PROVE  NoCallbackLeaks'
  <2>1. phase[d] # "idle" /\ callbacks \in SUBSET callbacks
    BY <1>7 DEF FailureHandled
  <2>2. QED
    BY <1>7, <2>1, CallbackFinish DEF FailureHandled
<1>8. CASE Crash
    BY <1>8 DEF Crash, NoCallbackLeaks
<1>9. CASE UNCHANGED vars
    BY <1>9, CallbackStutter DEF vars, memory
<1>10. QED
    BY <1>1, <1>2, <1>3, <1>4, <1>5, <1>6, <1>7, <1>8, <1>9 DEF Next

-----------------------------------------------------------------------------
(* Starts. *)

\* StartInv, for one message
Start(m) == starts[m] + (IF ToStart(m) THEN 1 ELSE 0) <= accepted[m] + crashes

LEMMA StartIsInv ==
    /\ StartInv <=> \A m \in Message : Start(m)
    /\ StartInv' <=> \A m \in Message : Start(m)'
BY DEF StartInv, Start

\* A start uses up the claim of a message to one; nothing else touches the count.
LEMMA StartKept ==
    ASSUME TypeOK, NEW m \in Message, Start(m),
           UNCHANGED <<accepted, crashes>>,
           \/ starts'[m] = starts[m] /\ (ToStart(m)' => ToStart(m))
           \/ starts'[m] = starts[m] + 1 /\ ToStart(m) /\ ~ToStart(m)'
    PROVE  Start(m)'
<1> DEFINE before == ToStart(m)
           after == ToStart(m)'
<1>1. /\ starts[m] \in Nat /\ accepted[m] \in Nat /\ crashes \in Nat
      /\ starts[m] + (IF before THEN 1 ELSE 0) <= accepted[m] + crashes
    BY DEF TypeOK, Start
<1>2. Start(m)' <=> starts'[m] + (IF after THEN 1 ELSE 0) <= accepted'[m] + crashes'
    BY DEF Start
<1> HIDE DEF before, after
<1>3. CASE starts'[m] = starts[m] /\ (after => before)
    BY <1>1, <1>2, <1>3
<1>4. CASE starts'[m] = starts[m] + 1 /\ before /\ ~after
    BY <1>1, <1>2, <1>4
<1>5. QED
    BY <1>3, <1>4 DEF before, after

LEMMA HeadIsMember ==
    ASSUME NEW s \in Seq(Identifier), s # <<>>
    PROVE  Head(s) \in ToSet(s)
<1>1. 1 \in DOMAIN s /\ Head(s) = s[1]
    OBVIOUS
<1>2. QED
    BY <1>1 DEF ToSet

\* what ToStart is, in the terms of the facts about the operations
LEMMA ToStartFacts ==
    ASSUME NEW m
    PROVE  /\ ToStart(m) <=>
                IF Loaded
                THEN m[2] \in ToSet(cache[m[1]]) /\ (queue[m[1]] = <<>> \/ Head(queue[m[1]]) # m[2])
                ELSE m[2] \in ToSet(disk[m[1]])
           /\ ToStart(m)' <=>
                IF Loaded'
                THEN m[2] \in ToSet(cache'[m[1]]) /\ (queue'[m[1]] = <<>> \/ Head(queue'[m[1]]) # m[2])
                ELSE m[2] \in ToSet(disk'[m[1]])
BY DEF ToStart, find, ToSet

\* processPending starts the oldest message of an idle chain, and only that.
LEMMA StartPending ==
    ASSUME TypeOK, JobInv, NEW D \in SUBSET Device, NEW pending \in Pending,
           \A d \in D : IsPrefix(queue[d], pending[d]) /\ IsInjective(pending[d]),
           processPending(D, pending), Loaded', cache' = pending,
           UNCHANGED <<accepted, crashes>>,
           NEW m \in Message, Start(m),
           \A d \in Device : pending[d] = IF Loaded THEN cache[d] ELSE disk[d],
           ~Loaded => queue = NothingPending
    PROVE  Start(m)'
<1> DEFINE d == m[1]
           id == m[2]
<1>1. d \in Device /\ id \in Identifier
    BY MessageQueueAssumption
<1>2. /\ queue' = [e \in Device |-> IF e \in D THEN pending[e] ELSE queue[e]]
      /\ starts'[m] = IF /\ d \in D
                         /\ queue[d] = <<>>
                         /\ pending[d] # <<>>
                         /\ Head(pending[d]) = id
                      THEN starts[m] + 1 ELSE starts[m]
  <2>1. /\ queue' = [e \in Device |-> IF e \in D THEN pending[e] ELSE queue[e]]
        /\ \A n \in Message :
                starts'[n] = IF /\ n[1] \in D
                                /\ queue[n[1]] = <<>>
                                /\ pending[n[1]] # <<>>
                                /\ Head(pending[n[1]]) = n[2]
                             THEN starts[n] + 1 ELSE starts[n]
    BY ProcessPendingFacts
  <2>2. QED
    BY <2>1, Zenon
<1>3. queue[d] \in Seq(Identifier) /\ pending[d] \in Seq(Identifier)
    BY <1>1 DEF TypeOK, Pending
<1>4. ToStart(m) <=> id \in ToSet(pending[d]) /\ (queue[d] = <<>> \/ Head(queue[d]) # id)
  <2>1. CASE Loaded
    BY <1>1, <2>1, ToStartFacts
  <2>2. CASE ~Loaded
    <3>1. queue[d] = <<>>
      BY <1>1, <2>2 DEF NothingPending
    <3>2. QED
      BY <1>1, <2>2, <3>1, ToStartFacts
  <2>3. QED
    BY <2>1, <2>2
<1>5. ToStart(m)' <=> id \in ToSet(pending[d]) /\ (queue'[d] = <<>> \/ Head(queue'[d]) # id)
    BY ToStartFacts
<1>6. queue'[d] = IF d \in D THEN pending[d] ELSE queue[d]
    BY <1>1, <1>2
<1> HIDE DEF d, id
<1>7. CASE d \in D /\ queue[d] = <<>> /\ pending[d] # <<>> /\ Head(pending[d]) = id
  <2>1. starts'[m] = starts[m] + 1
    BY <1>2, <1>7
  <2>2. ToStart(m)
    BY <1>3, <1>4, <1>7, HeadIsMember
  <2>3. ~ToStart(m)'
    BY <1>5, <1>6, <1>7
  <2>4. QED
    BY <2>1, <2>2, <2>3, StartKept
<1>8. CASE ~(d \in D /\ queue[d] = <<>> /\ pending[d] # <<>> /\ Head(pending[d]) = id)
  <2>1. starts'[m] = starts[m]
    BY <1>2, <1>8
  <2>2. ToStart(m)' => ToStart(m)
    <3>1. CASE d \notin D
      BY <1>4, <1>5, <1>6, <3>1
    <3>2. CASE d \in D /\ queue[d] = <<>>
      BY <1>4, <1>5, <3>2
    <3>3. CASE d \in D /\ queue[d] # <<>>
      <4>1. Len(queue[d]) <= Len(pending[d]) /\ queue[d][1] = pending[d][1]
        BY <1>3, <3>3, PrefixFacts DEF d
      <4>2. pending[d] # <<>> /\ Head(pending[d]) = Head(queue[d])
        BY <1>3, <3>3, <4>1
      <4>3. QED
        BY <1>4, <1>5, <1>6, <3>3, <4>2
    <3>4. QED
      BY <3>1, <3>2, <3>3
  <2>3. QED
    BY <2>1, <2>2, StartKept
<1>9. QED
    BY <1>7, <1>8

\* The end of a job starts the next one of its chain.
LEMMA StartFinish ==
    ASSUME BaseInv, NEW d \in Device, phase[d] # "idle",
           NEW left \in SUBSET Identifier, Finish(d, left), NEW m \in Message, Start(m)
    PROVE  Start(m)'
<1> DEFINE q == queue[d]
           c == cache[d]
<1>1. q # <<>> /\ Loaded /\ q \in Seq(Identifier) /\ c \in Seq(Identifier)
    BY BaseFinish DEF BaseInv, JobInv, TypeOK, Pending
<1>2. /\ ToSet(cache'[d]) = ToSet(c) \ {Head(q)}
      /\ cache' = [cache EXCEPT ![d] = Tail(c)]
      /\ queue' = [queue EXCEPT ![d] = Tail(q)]
    BY <1>1, FinishFacts DEF BaseInv
<1>3. /\ starts'[m] = IF m[1] = d /\ Tail(q) # <<>> /\ Head(Tail(q)) = m[2]
                      THEN starts[m] + 1 ELSE starts[m]
      /\ UNCHANGED <<accepted, crashes, loadPromise>>
    BY DEF Finish, counters
<1>4. Loaded'
    BY <1>1, <1>3 DEF Loaded
<1>5. m[1] \in Device
    BY MessageQueueAssumption
<1>6. /\ ToStart(m) <=> m[2] \in ToSet(cache[m[1]]) /\ (queue[m[1]] = <<>> \/ Head(queue[m[1]]) # m[2])
      /\ ToStart(m)' <=>
            m[2] \in ToSet(cache'[m[1]]) /\ (queue'[m[1]] = <<>> \/ Head(queue'[m[1]]) # m[2])
    BY <1>1, <1>4, ToStartFacts
<1>7. TypeOK
    BY DEF BaseInv
<1>8. CASE m[1] # d
  <2>1. starts'[m] = starts[m] /\ cache'[m[1]] = cache[m[1]] /\ queue'[m[1]] = queue[m[1]]
    BY <1>2, <1>3, <1>5, <1>7, <1>8 DEF TypeOK, Pending
  <2>2. ToStart(m)' => ToStart(m)
    BY <1>6, <2>1
  <2>3. QED
    BY <1>3, <1>7, <2>1, <2>2, StartKept
<1>9. CASE m[1] = d
  <2>1. queue'[d] = Tail(q)
    BY <1>2, <1>7 DEF TypeOK, Pending
  <2>2. /\ ToStart(m) <=> m[2] \in ToSet(c) /\ Head(q) # m[2]
        /\ ToStart(m)' <=> m[2] \in ToSet(c) \ {Head(q)} /\ (Tail(q) = <<>> \/ Head(Tail(q)) # m[2])
    BY <1>1, <1>2, <1>6, <1>9, <2>1
  <2>3. CASE Tail(q) # <<>> /\ Head(Tail(q)) = m[2]
    <3>1. starts'[m] = starts[m] + 1 /\ ~ToStart(m)'
      BY <1>3, <1>9, <2>2, <2>3
    <3>2. /\ 1 \in DOMAIN q /\ 2 \in DOMAIN q /\ Head(q) = q[1] /\ m[2] = q[2]
      BY <1>1, <2>3
    <3>3. Len(q) <= Len(c) /\ \A i \in 1..Len(q) : q[i] = c[i]
      BY <1>1, PrefixFacts DEF BaseInv, JobInv
    <3>4. /\ 1 \in DOMAIN c /\ 2 \in DOMAIN c /\ Head(q) = c[1] /\ m[2] = c[2]
      BY <1>1, <3>2, <3>3
    <3>5. Head(q) # m[2] /\ m[2] \in ToSet(c)
      BY <3>4 DEF BaseInv, CacheInv, NoRepetition, IsInjective, ToSet
    <3>6. ToStart(m)
      BY <2>2, <3>5
    <3>7. QED
      BY <1>3, <1>7, <3>1, <3>6, StartKept
  <2>4. CASE ~(Tail(q) # <<>> /\ Head(Tail(q)) = m[2])
    <3>1. starts'[m] = starts[m]
      BY <1>3, <2>4
    <3>2. ToStart(m)' => ToStart(m)
      BY <2>2
    <3>3. QED
      BY <1>3, <1>7, <3>1, <3>2, StartKept
  <2>5. QED
    BY <2>3, <2>4
<1>10. QED
    BY <1>8, <1>9

\* a step that starts nothing and leaves what is pending, and its jobs, as they are
LEMMA StartStutter ==
    ASSUME TypeOK, NEW m \in Message, Start(m), UNCHANGED <<starts, accepted, crashes>>,
           (ToStart(m)' => ToStart(m))
    PROVE  Start(m)'
<1>1. starts'[m] = starts[m]
    OBVIOUS
<1>2. QED
    BY <1>1, StartKept

LEMMA StartAdd ==
    ASSUME BaseInv, BaseInv', Loaded, Loaded', NEW n \in Message, add(n[1], n[2]),
           UNCHANGED <<queue, starts, crashes>>, NEW m \in Message, Start(m)
    PROVE  Start(m)'
<1>1. /\ n[1] \in Device /\ n[2] \in Identifier /\ <<n[1], n[2]>> = n
      /\ m[1] \in Device /\ m = <<m[1], m[2]>>
    BY MessageQueueAssumption
<1>2. /\ n[2] \notin ToSet(cache[n[1]])
      /\ cache' = [cache EXCEPT ![n[1]] = Append(cache[n[1]], n[2])]
      /\ accepted' = [accepted EXCEPT ![n] = accepted[n] + 1]
    BY <1>1, FindIsMember DEF add
<1>3. TypeOK /\ TypeOK'
    BY DEF BaseInv
<1>4. CASE m = n
  <2>1. ~ToStart(m)
    BY <1>2, <1>4, ToStartFacts
  <2>2. accepted'[m] = accepted[m] + 1 /\ accepted[m] \in Nat /\ starts[m] \in Nat /\ crashes \in Nat
    BY <1>2, <1>3, <1>4 DEF TypeOK
  <2>3. starts[m] <= accepted[m] + crashes
    BY <2>1, <2>2 DEF Start
  <2> DEFINE after == ToStart(m)'
  <2>4. Start(m)' <=> starts'[m] + (IF after THEN 1 ELSE 0) <= accepted'[m] + crashes'
    BY DEF Start
  <2> HIDE DEF after
  <2>5. QED
    BY <2>2, <2>3, <2>4
<1>5. CASE m # n
  <2>1. m[2] \in ToSet(cache'[m[1]]) => m[2] \in ToSet(cache[m[1]])
    <3>1. CASE m[1] # n[1]
      BY <1>1, <1>2, <1>3, <3>1 DEF TypeOK, Pending
    <3>2. CASE m[1] = n[1]
      <4>1. m[2] # n[2]
        BY <1>1, <1>5, <3>2
      <4>2. cache'[n[1]] = Append(cache[n[1]], n[2])
        BY <1>1, <1>2, <1>3 DEF TypeOK, Pending
      <4>3. ToSet(Append(cache[n[1]], n[2])) = ToSet(cache[n[1]]) \cup {n[2]}
        BY <1>1, <1>3, PushFacts DEF TypeOK, Pending
      <4>4. QED
        BY <3>2, <4>1, <4>2, <4>3
    <3>3. QED
      BY <3>1, <3>2
  <2>2. ToStart(m)' => ToStart(m)
    BY <2>1, ToStartFacts
  <2>3. accepted'[m] = accepted[m] /\ starts'[m] = starts[m] /\ starts[m] \in Nat
    BY <1>2, <1>3, <1>5 DEF TypeOK
  <2> DEFINE after == ToStart(m)'
             before == ToStart(m)
  <2>4. /\ Start(m)' <=> starts'[m] + (IF after THEN 1 ELSE 0) <= accepted'[m] + crashes'
        /\ starts[m] + (IF before THEN 1 ELSE 0) <= accepted[m] + crashes
        /\ accepted[m] \in Nat /\ crashes \in Nat /\ (after => before)
    BY <1>3, <2>2 DEF Start, TypeOK
  <2> HIDE DEF after, before
  <2>5. QED
    BY <2>3, <2>4
<1>6. QED
    BY <1>4, <1>5

LEMMA StartStep == BaseInv /\ StartInv /\ [Next]_vars => StartInv'
<1> SUFFICES ASSUME BaseInv, StartInv, [Next]_vars, NEW m \in Message PROVE Start(m)'
    BY StartIsInv
<1>1. BaseInv' /\ TypeOK /\ TypeOK' /\ Start(m)
    BY BaseStep, StartIsInv DEF BaseInv
<1>2. /\ ToStart(m) <=>
            IF Loaded
            THEN m[2] \in ToSet(cache[m[1]]) /\ (queue[m[1]] = <<>> \/ Head(queue[m[1]]) # m[2])
            ELSE m[2] \in ToSet(disk[m[1]])
      /\ ToStart(m)' <=>
            IF Loaded'
            THEN m[2] \in ToSet(cache'[m[1]]) /\ (queue'[m[1]] = <<>> \/ Head(queue'[m[1]]) # m[2])
            ELSE m[2] \in ToSet(disk'[m[1]])
    BY ToStartFacts
<1>3. m[1] \in Device /\ m[2] \in Identifier
    BY MessageQueueAssumption
<1>4. ASSUME UNCHANGED <<loadPromise, cache, queue, starts, accepted, crashes>>,
             Loaded \/ UNCHANGED disk
      PROVE  Start(m)'
  <2>1. ToStart(m)' => ToStart(m)
    BY <1>2, <1>4 DEF Loaded
  <2>2. QED
    BY <1>1, <1>4, <2>1, StartStutter
<1>5. ASSUME NEW D \in SUBSET Device, processPending(D, cache), Loaded,
             UNCHANGED <<loadPromise, cache, accepted, crashes>>
      PROVE  Start(m)'
  <2>1. Loaded' /\ cache' = cache /\ cache \in Pending
    BY <1>1, <1>5 DEF Loaded, TypeOK
  <2>2. \A d \in D : IsPrefix(queue[d], cache[d]) /\ IsInjective(cache[d])
    BY DEF BaseInv, JobInv, CacheInv, NoRepetition
  <2>3. \A d \in Device : cache[d] = IF Loaded THEN cache[d] ELSE disk[d]
    BY <1>5
  <2>4. QED
    BY <1>1, <1>5, <2>1, <2>2, <2>3, StartPending DEF BaseInv
<1>6. CASE getFromStorage
  <2>1. ~Loaded /\ ~Loaded' /\ UNCHANGED <<disk, starts, accepted, crashes>>
    BY <1>6 DEF getFromStorage, Loaded, counters
  <2>2. QED
    BY <1>1, <1>2, <2>1, StartStutter
<1>7. CASE LoadRejected
  <2>1. ~Loaded /\ ~Loaded' /\ UNCHANGED <<disk, starts, accepted, crashes>>
    BY <1>7 DEF LoadRejected, Loaded
  <2>2. QED
    BY <1>1, <1>2, <2>1, StartStutter
<1>8. ASSUME NEW n \in Message, process(n[1], n[2])
      PROVE  Start(m)'
  <2>1. Loaded /\ Loaded' /\ UNCHANGED <<loadPromise, crashes>> /\ n[1] \in Device
    BY <1>8, MessageQueueAssumption DEF process, Loaded
  <2>2. CASE add(n[1], n[2]) /\ UNCHANGED <<queue, jobs, phase, starts>>
    BY <1>1, <2>1, <2>2, StartAdd
  <2>3. CASE processPending({n[1]}, cache) /\ UNCHANGED <<cache, callbacks, writes, accepted>>
    BY <1>5, <2>1, <2>3
  <2>4. QED
    BY <1>8, <2>2, <2>3 DEF process
<1>9. CASE processAllPending
  <2>1. /\ Loaded /\ processPending(Device, cache) /\ Device \in SUBSET Device
        /\ UNCHANGED <<loadPromise, cache, accepted, crashes>>
    BY <1>9 DEF processAllPending, counters
  <2>2. QED
    BY <1>5, <2>1
<1>10. CASE WriteDone
  <2>1. /\ writes # <<>> /\ disk' = Head(writes).pending
        /\ UNCHANGED <<accepted, crashes>>
    BY <1>10 DEF WriteDone, counters
  <2>2. CASE LoadSaved
    <3> DEFINE pending == Head(writes).pending
    <3>1. /\ Head(writes).by = <<"load">> /\ loadPromise' = "done" /\ cache' = pending
          /\ processPending(Device, pending)
      BY <2>2 DEF LoadSaved
    <3>2. pending = disk /\ loadPromise = "saving" /\ queue = NothingPending
      BY <2>1, <3>1, LoadWrites DEF BaseInv
    <3> HIDE DEF pending
    <3>3. /\ ~Loaded /\ Loaded' /\ pending \in Pending
          /\ \A d \in Device : pending[d] = IF Loaded THEN cache[d] ELSE disk[d]
      BY <1>1, <3>1, <3>2 DEF Loaded, TypeOK
    <3>4. ASSUME NEW d \in Device
          PROVE  IsPrefix(queue[d], pending[d]) /\ IsInjective(pending[d])
      <4>1. queue[d] \in Seq(Identifier) /\ pending[d] \in Seq(Identifier) /\ queue[d] = <<>>
        BY <1>1, <3>2, <3>3 DEF TypeOK, Pending, NothingPending
      <4>2. IsPrefix(queue[d], pending[d])
        BY <4>1, EmptyIsPrefix
      <4>3. QED
        BY <3>2, <4>2 DEF BaseInv, CacheInv, NoRepetition
    <3>5. JobInv /\ Device \in SUBSET Device
      BY DEF BaseInv
    <3>6. QED
      BY <1>1, <2>1, <3>1, <3>2, <3>3, <3>4, <3>5, StartPending
  <2>3. CASE AddSaved
    <3>1. PICK d \in Device, id \in Identifier :
            /\ Head(writes).by = <<"add", d, id>>
            /\ processPending({d}, cache) /\ UNCHANGED <<loadPromise, cache>>
      BY <2>3 DEF AddSaved
    <3>2. Loaded
      <4>1. /\ <<"add", d, id>> # <<"load">> /\ Head(writes) = writes[1] /\ 1 \in DOMAIN writes
        BY <1>1, <2>1 DEF TypeOK
      <4>2. loadPromise # "saving" /\ loadPromise \notin {"reading", "rejected"}
        BY <2>1, <3>1, <4>1 DEF BaseInv, LoadInv
      <4>3. QED
        BY <1>1, <4>2 DEF TypeOK, Loaded
    <3>3. QED
      BY <1>5, <2>1, <3>1, <3>2
  <2>4. CASE RemoveSaved
    <3>1. /\ Head(writes).by = <<"remove">>
          /\ UNCHANGED <<loadPromise, cache, queue, starts>>
      BY <2>4 DEF RemoveSaved
    <3>2. Loaded
      <4>1. /\ <<"remove">> # <<"load">> /\ Head(writes) = writes[1] /\ 1 \in DOMAIN writes
        BY <1>1, <2>1 DEF TypeOK
      <4>2. loadPromise # "saving" /\ loadPromise \notin {"reading", "rejected"}
        BY <2>1, <3>1, <4>1 DEF BaseInv, LoadInv
      <4>3. QED
        BY <1>1, <4>2 DEF TypeOK, Loaded
    <3>3. QED
      BY <1>4, <2>1, <3>1, <3>2
  <2>5. QED
    BY <1>10, <2>2, <2>3, <2>4 DEF WriteDone
<1>11. CASE WriteFailed
    BY <1>4, <1>11 DEF WriteFailed
<1>12. CASE LoadSaveFailed
  <2>1. /\ writes # <<>> /\ Head(writes).by = <<"load">> /\ loadPromise' = "done"
        /\ UNCHANGED <<cache, starts, accepted, crashes>>
    BY <1>12 DEF LoadSaveFailed
  <2>2. cache = NothingPending
    BY <2>1, LoadWrites DEF BaseInv
  <2>3. ToSet(cache'[m[1]]) = {}
    BY <1>3, <2>1, <2>2 DEF NothingPending, ToSet
  <2>4. ~ToStart(m)'
    BY <1>2, <2>1, <2>3 DEF Loaded
  <2>5. QED
    BY <1>1, <2>1, <2>4, StartStutter
<1>13. ASSUME NEW d \in Device, SendSucceeds(d)
       PROVE  Start(m)'
  <2>1. phase[d] # "idle" /\ callbacks \in SUBSET Identifier
    BY <1>1, <1>13 DEF SendSucceeds, TypeOK
  <2>2. CASE Finish(d, callbacks)
    BY <1>1, <2>1, <2>2, StartFinish
  <2>3. CASE UNCHANGED <<loadPromise, cache, callbacks, disk, writes, queue, jobs, owed,
                         accepted, starts, counters>>
    BY <1>4, <2>3 DEF counters
  <2>4. QED
    BY <1>13, <2>2, <2>3 DEF SendSucceeds
<1>14. ASSUME NEW d \in Device, SendThrows(d) \/ CallbackThrows(d)
       PROVE  Start(m)'
    BY <1>4, <1>14 DEF SendThrows, CallbackThrows, counters
<1>15. ASSUME NEW d \in Device, CallbackResolves(d)
       PROVE  Start(m)'
  <2>1. phase[d] # "idle" /\ callbacks \ {Head(queue[d])} \in SUBSET Identifier
    BY <1>1, <1>15 DEF CallbackResolves, TypeOK
  <2>2. QED
    BY <1>1, <1>15, <2>1, StartFinish DEF CallbackResolves
<1>16. ASSUME NEW d \in Device, FailureHandled(d)
       PROVE  Start(m)'
  <2>1. phase[d] # "idle" /\ callbacks \in SUBSET Identifier
    BY <1>1, <1>16 DEF FailureHandled, TypeOK
  <2>2. QED
    BY <1>1, <1>16, <2>1, StartFinish DEF FailureHandled
<1>17. CASE Crash
  <2>1. crashes' = crashes + 1 /\ UNCHANGED <<starts, accepted>>
    BY <1>17 DEF Crash
  <2> DEFINE after == ToStart(m)'
             before == ToStart(m)
  <2>2. /\ Start(m)' <=> starts'[m] + (IF after THEN 1 ELSE 0) <= accepted'[m] + crashes'
        /\ starts[m] + (IF before THEN 1 ELSE 0) <= accepted[m] + crashes
        /\ accepted[m] \in Nat /\ starts[m] \in Nat /\ crashes \in Nat
    BY <1>1 DEF Start, TypeOK
  <2> HIDE DEF after, before
  <2>3. QED
    BY <2>1, <2>2
<1>18. CASE UNCHANGED vars
    BY <1>4, <1>18 DEF vars, memory, counters
<1>19. QED
    BY <1>6, <1>7, <1>8, <1>9, <1>10, <1>11, <1>12, <1>13, <1>14, <1>15, <1>16, <1>17, <1>18
    DEF Next

-----------------------------------------------------------------------------
(* The theorems. *)

\* QueueInv and the types are an inductive invariant of the queue: the chains follow
\* the caches, the load has the database for itself, and what is counted is due.
THEOREM QueueInvariant == Spec => [](TypeOK /\ QueueInv)
<1>1. Init => TypeOK /\ QueueInv
  <2> SUFFICES ASSUME Init PROVE TypeOK /\ QueueInv
    OBVIOUS
  <2>1. BaseInv
    BY BaseInit
  <2>2. NoCallbackLeaks /\ SavedIsDurable
    BY DEF Init, NoCallbackLeaks, SavedIsDurable
  <2>3. ASSUME NEW m \in Message
        PROVE  Start(m)
    <3>1. m[1] \in Device
      BY MessageQueueAssumption
    <3>2. ~ToStart(m)
      BY <3>1 DEF Init, ToStart, Loaded, NothingPending, ToSet
    <3>3. QED
      BY <3>2 DEF Init, Start
  <2>4. QED
    BY <2>1, <2>2, <2>3, StartIsInv DEF BaseInv, QueueInv
<1>2. TypeOK /\ QueueInv /\ [Next]_vars => (TypeOK /\ QueueInv)'
    BY BaseStep, DurableStep, CallbackStep, StartStep DEF BaseInv, QueueInv
<1>3. QED
    BY <1>1, <1>2, PTL DEF Spec

\* Every variable of the queue has its type: what a filter of the cache returns is
\* a sequence of identifiers wherever the code filters it.
THEOREM TypeCorrect == Spec => []TypeOK
BY QueueInvariant, PTL

\* The jobs of a destination are the oldest messages of its cache, in their order,
\* whatever callers, restarts and failures come between (processPending, remove).
THEOREM JobsInOrder == Spec => []JobsFollowCache
<1>1. TypeOK /\ QueueInv => JobsFollowCache
    BY DEF QueueInv, JobInv, JobsFollowCache
<1>2. QED
    BY <1>1, QueueInvariant, PTL

\* As long as no load failed, a message that was saved and has no outcome yet is in
\* the row, in every save on its way there, and in the cache (saveToDB, loadFromDB).
THEOREM Durability == Spec => []SavedIsDurable
<1>1. TypeOK /\ QueueInv => SavedIsDurable
    BY DEF QueueInv
<1>2. QED
    BY <1>1, QueueInvariant, PTL

\* A callback never outlives the messages of its identifier (PendingMessageCache.remove).
THEOREM CallbacksDropped == Spec => []NoCallbackLeaks
<1>1. TypeOK /\ QueueInv => NoCallbackLeaks
    BY DEF QueueInv
<1>2. QED
    BY <1>1, QueueInvariant, PTL

\* A message is sent at most once for every time it was accepted and every end of the
\* process, however often it is asked for (JobQueue.has, add's test of the cache).
THEOREM SendsAreBounded == Spec => []SendsBounded
<1>1. TypeOK /\ QueueInv => SendsBounded
  <2> SUFFICES ASSUME TypeOK, StartInv, NEW m \in Message
               PROVE  starts[m] <= accepted[m] + crashes
    BY DEF QueueInv, SendsBounded
  <2> DEFINE before == ToStart(m)
  <2>1. /\ starts[m] + (IF before THEN 1 ELSE 0) <= accepted[m] + crashes
        /\ starts[m] \in Nat /\ accepted[m] \in Nat /\ crashes \in Nat
    BY DEF StartInv, TypeOK
  <2> HIDE DEF before
  <2>2. QED
    BY <2>1
<1>2. QED
    BY <1>1, QueueInvariant, PTL

-----------------------------------------------------------------------------
(* The queue implements the outbox. *)

LEMMA BeforeIsMember ==
    ASSUME NEW s, NEW a, NEW b, Promised!Before(s, a, b)
    PROVE  a \in ToSet(s) /\ b \in ToSet(s)
    BY DEF Promised!Before, ToSet

\* a message that is added comes last
LEMMA AppendBefore ==
    ASSUME NEW s \in Seq(Identifier), NEW id \in Identifier, NEW a, NEW b,
           a # id, b # id, Promised!Before(Append(s, id), a, b)
    PROVE  Promised!Before(s, a, b)
<1>1. /\ DOMAIN Append(s, id) = 1..Len(s) + 1 /\ DOMAIN s = 1..Len(s)
      /\ \A i \in 1..Len(s) : Append(s, id)[i] = s[i]
      /\ Append(s, id)[Len(s) + 1] = id
    OBVIOUS
<1>2. PICK i, j \in 1..Len(s) + 1 :
        i < j /\ Append(s, id)[i] = a /\ Append(s, id)[j] = b
    BY <1>1 DEF Promised!Before
<1>3. i \in 1..Len(s) /\ j \in 1..Len(s)
    BY <1>1, <1>2
<1>4. QED
    BY <1>1, <1>2, <1>3 DEF Promised!Before

\* the oldest message leaves the others in their order
LEMMA TailBefore ==
    ASSUME NEW s \in Seq(Identifier), s # <<>>, NEW a, NEW b,
           Promised!Before(Tail(s), a, b)
    PROVE  Promised!Before(s, a, b)
<1>1. /\ DOMAIN s = 1..Len(s) /\ Len(s) \in Nat
      /\ DOMAIN Tail(s) = 1..Len(s) - 1
      /\ \A i \in 1..Len(s) - 1 : Tail(s)[i] = s[i + 1]
    OBVIOUS
<1>2. PICK i, j \in 1..Len(s) - 1 : i < j /\ Tail(s)[i] = a /\ Tail(s)[j] = b
    BY <1>1 DEF Promised!Before
<1>3. i + 1 \in 1..Len(s) /\ j + 1 \in 1..Len(s) /\ i + 1 < j + 1
      /\ s[i + 1] = a /\ s[j + 1] = b
    BY <1>1, <1>2
<1>4. QED
    BY <1>1, <1>3 DEF Promised!Before

\* A save of a cache whose messages are in the order they had.
LEMMA OrderSave ==
    ASSUME BaseInv, OrderInv, Loaded, UNCHANGED <<loadPromise, disk, loadFailures>>,
           owed' \subseteq owed, NEW by \in Caller, cache' \in Pending,
           saveToDB(by, cache'),
           \A d \in Device, a, b \in Identifier :
              a \in ToSet(cache[d]) /\ b \in ToSet(cache[d])
                /\ Promised!Before(cache'[d], a, b) => Promised!Before(cache[d], a, b),
           loadFailures = 0 => \A m \in owed : m[2] \in ToSet(cache[m[1]])
    PROVE  OrderInv'
<1> DEFINE new == Len(writes) + 1
<1>1. /\ DOMAIN writes' = 1..new /\ DOMAIN writes = 1..Len(writes) /\ Len(writes) \in Nat
      /\ Len(writes') = new
      /\ \A p \in 1..Len(writes) : writes'[p] = writes[p]
      /\ writes'[new].pending = cache'
    BY SaveFacts DEF BaseInv, TypeOK
<1>2. \A m \in owed : m[1] \in Device /\ m[2] \in Identifier
    BY MessageQueueAssumption DEF BaseInv, TypeOK
<1>3. ASSUME NEW p \in DOMAIN writes', NEW d \in Device, NEW a \in Identifier,
             NEW b \in Identifier, HeldSince(p, d, a)', HeldSince(p, d, b)',
             Promised!Before(cache'[d], a, b)
      PROVE  Promised!Before(writes'[p].pending[d], a, b)
  <2>1. CASE p = new
    BY <1>1, <1>3, <2>1
  <2>2. CASE p \in 1..Len(writes)
    <3>1. Len(writes) \in DOMAIN writes /\ Len(writes) >= p /\ writes # <<>>
          /\ Len(writes) \in DOMAIN writes' /\ writes'[Len(writes)] = writes[Len(writes)]
      BY <1>1, <2>2
    <3>2. writes[Len(writes)].pending = cache
      BY <3>1 DEF OrderInv
    <3>3. a \in ToSet(cache[d]) /\ b \in ToSet(cache[d])
      BY <1>3, <3>1, <3>2 DEF HeldSince
    <3>4. HeldSince(p, d, a) /\ HeldSince(p, d, b)
      BY <1>1, <1>3 DEF HeldSince
    <3>5. Promised!Before(writes[p].pending[d], a, b)
      BY <1>1, <1>3, <2>2, <3>3, <3>4 DEF OrderInv
    <3>6. QED
      BY <1>1, <2>2, <3>5
  <2>3. QED
    BY <1>1, <2>1, <2>2
<1>4. ASSUME loadFailures = 0, NEW m \in owed, NEW n \in owed, m[1] = n[1],
             Promised!Before(cache'[m[1]], m[2], n[2])
      PROVE  Promised!Before(disk[m[1]], m[2], n[2])
  <2>1. Promised!Before(cache[m[1]], m[2], n[2])
    BY <1>2, <1>4
  <2>2. QED
    BY <1>4, <2>1 DEF OrderInv
<1>5. writes'[Len(writes')].pending = cache'
    BY <1>1
<1>6. QED
    BY <1>3, <1>4, <1>5 DEF OrderInv

LEMMA OtherCallers ==
    /\ <<"remove">> # <<"load">>
    /\ \A d \in Device, id \in Identifier : <<"add", d, id>> # <<"load">>
    OBVIOUS

\* The oldest write leaves, done or not.
LEMMA OrderReply ==
    ASSUME BaseInv, OrderInv, Loaded, UNCHANGED <<loadPromise, cache, loadFailures>>,
           writes # <<>>, writes' = Tail(writes),
           loadFailures = 0 => \A m, n \in owed' :
              m[1] = n[1] /\ Promised!Before(cache[m[1]], m[2], n[2]) =>
                Promised!Before(disk'[m[1]], m[2], n[2])
    PROVE  OrderInv'
<1>1. /\ DOMAIN writes = 1..Len(writes) /\ DOMAIN writes' = 1..Len(writes) - 1
      /\ Len(writes) \in Nat /\ Len(writes) # 0 /\ Len(writes') = Len(writes) - 1
      /\ \A p \in 1..Len(writes) - 1 : writes'[p] = writes[p + 1]
    BY ReplyFacts, EmptySeq DEF BaseInv, TypeOK
<1>2. ASSUME writes' # <<>>
      PROVE  writes'[Len(writes')].pending = cache
  <2>1. Len(writes) - 1 # 0
    <3>1. writes' \in Seq(Write)
      BY ReplyFacts DEF BaseInv, TypeOK
    <3>2. Len(writes') # 0
      BY <1>2, <3>1, EmptySeq
    <3>3. QED
      BY <1>1, <3>2
  <2>2. writes'[Len(writes')] = writes[Len(writes)]
    BY <1>1, <2>1
  <2>3. QED
    BY <2>2 DEF OrderInv
<1>3. ASSUME NEW p \in DOMAIN writes', NEW d \in Device, NEW a \in Identifier,
             NEW b \in Identifier, HeldSince(p, d, a)', HeldSince(p, d, b)',
             Promised!Before(cache[d], a, b)
      PROVE  Promised!Before(writes'[p].pending[d], a, b)
  <2>1. p + 1 \in DOMAIN writes /\ writes'[p] = writes[p + 1]
    BY <1>1
  <2>2. ASSUME NEW id, HeldSince(p, d, id)'
        PROVE  HeldSince(p + 1, d, id)
    <3> SUFFICES ASSUME NEW q \in DOMAIN writes, q >= p + 1
                 PROVE  id \in ToSet(writes[q].pending[d])
      BY DEF HeldSince
    <3>1. q - 1 \in DOMAIN writes' /\ q - 1 >= p /\ writes'[q - 1] = writes[q]
      BY <1>1
    <3>2. QED
      BY <2>2, <3>1 DEF HeldSince
  <2>3. HeldSince(p + 1, d, a) /\ HeldSince(p + 1, d, b)
    BY <1>3, <2>2
  <2>4. Promised!Before(writes[p + 1].pending[d], a, b)
    BY <1>3, <2>1, <2>3 DEF OrderInv
  <2>5. QED
    BY <2>1, <2>4
<1>4. QED
    BY <1>2, <1>3 DEF OrderInv

LEMMA OrderStutter ==
    ASSUME OrderInv, UNCHANGED <<loadPromise, cache, disk, writes, owed, loadFailures>>
    PROVE  OrderInv'
    BY DEF OrderInv, HeldSince, Loaded

LEMMA OrderFinish ==
    ASSUME BaseInv, SavedIsDurable, OrderInv, NEW d \in Device, phase[d] # "idle",
           NEW left \in SUBSET Identifier, Finish(d, left)
    PROVE  OrderInv'
<1>1. queue[d] # <<>> /\ Loaded
    BY BaseFinish DEF BaseInv, JobInv
<1>2. /\ cache[d] # <<>> /\ cache' = [cache EXCEPT ![d] = Tail(cache[d])]
      /\ cache' \in Pending /\ saveToDB(<<"remove">>, cache')
    BY <1>1, FinishFacts DEF BaseInv
<1>3. owed' \subseteq owed /\ UNCHANGED <<loadPromise, disk, loadFailures>>
    BY DEF Finish, counters
<1>4. <<"remove">> \in Caller
    BY DEF Caller
<1>5. ASSUME NEW e \in Device, NEW a, NEW b, Promised!Before(cache'[e], a, b)
      PROVE  Promised!Before(cache[e], a, b)
  <2>1. cache[e] \in Seq(Identifier) /\ cache'[e] = IF e = d THEN Tail(cache[e]) ELSE cache[e]
    BY <1>2 DEF BaseInv, TypeOK, Pending
  <2>2. QED
    BY <1>2, <1>5, <2>1, TailBefore
<1>6. loadFailures = 0 => \A m \in owed : m[2] \in ToSet(cache[m[1]])
    BY <1>1, SafeIsDurable DEF Safe
<1>7. QED
    BY <1>1, <1>2, <1>3, <1>4, <1>5, <1>6, OrderSave

LEMMA OrderAdd ==
    ASSUME BaseInv, SavedIsDurable, OrderInv, Loaded, NEW d \in Device,
           NEW id \in Identifier, <<d, id>> \in Message, add(d, id),
           UNCHANGED <<loadPromise, disk, owed, loadFailures>>
    PROVE  OrderInv'
<1>1. /\ id \notin ToSet(cache[d])
      /\ cache' = [cache EXCEPT ![d] = Append(cache[d], id)]
      /\ saveToDB(<<"add", d, id>>, cache')
    BY FindIsMember DEF add
<1>2. cache[d] \in Seq(Identifier) /\ Append(cache[d], id) \in Seq(Identifier)
    BY DEF BaseInv, TypeOK, Pending
<1>3. cache' \in Pending
    BY <1>1, <1>2 DEF BaseInv, TypeOK, Pending
<1>4. <<"add", d, id>> \in Caller
  <2>1. <<d, id>>[1] = d /\ <<d, id>>[2] = id
    OBVIOUS
  <2>2. QED
    BY <2>1 DEF Caller
<1>5. ASSUME NEW e \in Device, NEW a, NEW b, a \in ToSet(cache[e]), b \in ToSet(cache[e]),
             Promised!Before(cache'[e], a, b)
      PROVE  Promised!Before(cache[e], a, b)
  <2>1. cache'[e] = IF e = d THEN Append(cache[d], id) ELSE cache[e]
    BY <1>1 DEF BaseInv, TypeOK, Pending
  <2>2. e = d => a # id /\ b # id
    BY <1>1, <1>5
  <2>3. QED
    BY <1>2, <1>5, <2>1, <2>2, AppendBefore
<1>6. loadFailures = 0 => \A m \in owed : m[2] \in ToSet(cache[m[1]])
    BY SafeIsDurable DEF Safe
<1>7. QED
    BY <1>1, <1>3, <1>4, <1>5, <1>6, OrderSave

\* a write that reached the row had the owed messages in their order
LEMMA OrderWriteDone ==
    ASSUME BaseInv, SavedIsDurable, OrderInv, WriteDone
    PROVE  OrderInv'
<1> DEFINE w == Head(writes)
<1>1. writes # <<>> /\ disk' = w.pending /\ writes' = Tail(writes)
      /\ UNCHANGED loadFailures
    BY DEF WriteDone, counters
<1>2. /\ 1 \in DOMAIN writes /\ w = writes[1] /\ w.pending \in Pending
      /\ DOMAIN writes = 1..Len(writes)
    BY <1>1, ReplyFacts DEF BaseInv, TypeOK
<1>3. CASE w.by = <<"load">>
  <2>1. LoadSaved
    BY <1>3, OtherCallers DEF WriteDone, AddSaved, RemoveSaved
  <2>2. cache' = disk' /\ writes' = <<>>
    BY <1>1, <1>3, <2>1, LoadWrites DEF LoadSaved, BaseInv
  <2>3. DOMAIN writes' = {}
    BY <2>2
  <2>4. QED
    BY <2>2, <2>3 DEF OrderInv
<1>4. CASE w.by # <<"load">>
  <2>1. Loaded
    BY <1>1, <1>2, <1>4 DEF BaseInv, LoadInv, Loaded, TypeOK
  <2>2. AddSaved \/ RemoveSaved
    BY <1>4 DEF WriteDone, LoadSaved
  <2>3. UNCHANGED <<loadPromise, cache>>
    BY <2>2 DEF AddSaved, RemoveSaved
  <2>4. ASSUME loadFailures = 0, NEW m \in owed'
        PROVE  m[1] \in Device /\ m[2] \in Identifier /\ HeldSince(1, m[1], m[2])
    <3>1. CASE m \in owed
      BY <2>4, <3>1, SafeIsDurable, MessageQueueAssumption
      DEF Safe, Written, HeldSince, BaseInv, TypeOK
    <3>2. CASE m \notin owed
      <4>1. PICK d \in Device, id \in Identifier :
                w.by = <<"add", d, id>> /\ Standing(d, id) /\ m = <<d, id>>
        BY <2>2, <2>4, <3>2 DEF AddSaved, RemoveSaved
      <4>2. id \in ToSet(writes[1].pending[d])
        BY <1>2, <4>1 DEF BaseInv, CacheInv, WriteInv
      <4>3. \A p \in 2..Len(writes) : id \in ToSet(writes[p].pending[d])
        BY <4>1 DEF Standing
      <4>4. \A p \in DOMAIN writes : p = 1 \/ p \in 2..Len(writes)
        BY <1>2 DEF BaseInv, TypeOK
      <4>5. HeldSince(1, d, id)
        BY <4>2, <4>3, <4>4 DEF HeldSince
      <4>6. m[1] = d /\ m[2] = id
        BY <4>1
      <4>7. QED
        BY <4>5, <4>6
    <3>3. QED
      BY <3>1, <3>2
  <2>5. ASSUME loadFailures = 0, NEW m \in owed', NEW n \in owed', m[1] = n[1],
               Promised!Before(cache[m[1]], m[2], n[2])
        PROVE  Promised!Before(disk'[m[1]], m[2], n[2])
    <3>1. /\ m[1] \in Device /\ m[2] \in Identifier /\ n[2] \in Identifier
          /\ HeldSince(1, m[1], m[2]) /\ HeldSince(1, m[1], n[2])
      BY <2>4, <2>5
    <3>2. Promised!Before(writes[1].pending[m[1]], m[2], n[2])
      BY <1>2, <2>1, <2>5, <3>1 DEF OrderInv
    <3>3. QED
      BY <1>1, <1>2, <3>2
  <2>6. QED
    BY <1>1, <2>1, <2>3, <2>5, OrderReply
<1>5. QED
    BY <1>3, <1>4

LEMMA OrderStep == BaseInv /\ SavedIsDurable /\ OrderInv /\ [Next]_vars => OrderInv'
<1> SUFFICES ASSUME BaseInv, SavedIsDurable, OrderInv, [Next]_vars
             PROVE  OrderInv'
    OBVIOUS
<1>1. CASE getFromStorage \/ LoadRejected \/ Crash
  <2>1. ~Loaded'
    BY <1>1 DEF getFromStorage, LoadRejected, Crash, Loaded
  <2>2. QED
    BY <2>1 DEF OrderInv
<1>2. ASSUME NEW m \in Message, process(m[1], m[2])
      PROVE  OrderInv'
  <2>1. /\ m[1] \in Device /\ m[2] \in Identifier /\ <<m[1], m[2]>> \in Message
        /\ UNCHANGED <<loadPromise, disk, owed, loadFailures>> /\ Loaded
    BY <1>2, MessageQueueAssumption DEF process
  <2>2. add(m[1], m[2]) \/ UNCHANGED <<cache, writes>>
    BY <1>2 DEF process
  <2>3. QED
    BY <2>1, <2>2, OrderAdd, OrderStutter
<1>3. CASE WriteDone
    BY <1>3, OrderWriteDone
<1>4. CASE WriteFailed
  <2>1. /\ writes # <<>> /\ writes' = Tail(writes) /\ Head(writes).by # <<"load">>
        /\ UNCHANGED <<loadPromise, cache, disk, owed, loadFailures>>
    BY <1>4 DEF WriteFailed
  <2>2. Head(writes) = writes[1] /\ 1 \in DOMAIN writes
    BY <2>1, ReplyFacts DEF BaseInv, TypeOK
  <2>3. Loaded
    BY <2>1, <2>2 DEF BaseInv, LoadInv, Loaded, TypeOK
  <2>4. QED
    BY <2>1, <2>3, OrderReply DEF OrderInv
<1>5. CASE LoadSaveFailed
  <2>1. /\ writes # <<>> /\ Head(writes).by = <<"load">> /\ writes' = Tail(writes)
        /\ loadFailures' = loadFailures + 1
    BY <1>5 DEF LoadSaveFailed
  <2>2. writes' = <<>> /\ DOMAIN writes' = {}
    BY <2>1, LoadWrites DEF BaseInv
  <2>3. loadFailures' # 0
    BY <2>1 DEF BaseInv, TypeOK
  <2>4. QED
    BY <2>2, <2>3 DEF OrderInv
<1>6. ASSUME NEW d \in Device, SendSucceeds(d) \/ CallbackResolves(d) \/ FailureHandled(d)
      PROVE  OrderInv'
  <2>1. /\ phase[d] # "idle" /\ callbacks \in SUBSET Identifier
        /\ callbacks \ {Head(queue[d])} \in SUBSET Identifier
    BY <1>6 DEF SendSucceeds, CallbackResolves, FailureHandled, BaseInv, TypeOK
  <2>2. \/ \E left \in SUBSET Identifier : Finish(d, left)
        \/ UNCHANGED <<loadPromise, cache, disk, writes, owed, loadFailures>>
    BY <1>6, <2>1 DEF SendSucceeds, CallbackResolves, FailureHandled, counters
  <2>3. QED
    BY <2>1, <2>2, OrderFinish, OrderStutter
<1>7. CASE \/ processAllPending \/ UNCHANGED vars
           \/ \E d \in Device : SendThrows(d) \/ CallbackThrows(d)
    BY <1>7, OrderStutter
    DEF processAllPending, SendThrows, CallbackThrows, vars, memory, counters
<1>8. QED
    BY <1>1, <1>2, <1>3, <1>4, <1>5, <1>6, <1>7 DEF Next

\* What is pending: the cache, or the row as long as it was not loaded.
Waiting == IF Loaded THEN cache ELSE disk

LEMMA MapsToStutter ==
    ASSUME Waiting' = Waiting, owed' = owed, loadFailures' = loadFailures
    PROVE  UNCHANGED Promised!vars
    BY DEF Waiting, Promised!vars

\* Only the message at the head of a chain has an outcome (the finally of a job).
LEMMA MapsToSettle ==
    ASSUME BaseInv, NEW d \in Device, phase[d] # "idle",
           NEW left \in SUBSET Identifier, Finish(d, left)
    PROVE  Promised!Next
<1>1. queue[d] # <<>> /\ Loaded
    BY BaseFinish DEF BaseInv, JobInv
<1>2. /\ cache[d] # <<>> /\ cache' = [cache EXCEPT ![d] = Tail(cache[d])]
      /\ Head(cache[d]) = Head(queue[d])
    BY <1>1, FinishFacts DEF BaseInv
<1>3. /\ owed' = owed \ {<<d, Head(queue[d])>>}
      /\ loadPromise' = loadPromise /\ loadFailures' = loadFailures
    BY DEF Finish, counters
<1>4. Loaded'
    BY <1>1, <1>3 DEF Loaded
<1>5. Promised!Settle(d)
    BY <1>1, <1>2, <1>3, <1>4 DEF Promised!Settle
<1>6. QED
    BY <1>5 DEF Promised!Next

\* The next process finds what was promised, in its order, unless a load failed.
LEMMA MapsToRestart ==
    ASSUME BaseInv, SavedIsDurable, OrderInv, Crash
    PROVE  Promised!Next
<1>1. PICK n \in 0..Len(writes) : disk' = IF n = 0 THEN disk ELSE writes[n].pending
    BY DEF Crash
<1>2. ~Loaded' /\ owed' = owed /\ loadFailures' = loadFailures
    BY DEF Crash, Loaded
<1>3. n # 0 => n \in DOMAIN writes /\ writes[n] \in Write
    BY DEF BaseInv, TypeOK
<1>4. disk' \in Pending /\ NoRepetition(disk')
    BY <1>1, <1>3 DEF BaseInv, TypeOK, CacheInv, WriteInv, Write
<1>5. ASSUME loadFailures = 0, NEW m \in owed
      PROVE  /\ m[1] \in Device /\ m[2] \in Identifier
             /\ m[2] \in ToSet(disk'[m[1]])
             /\ n # 0 => HeldSince(n, m[1], m[2])
    BY <1>1, <1>3, <1>5, SafeIsDurable, MessageQueueAssumption
    DEF Safe, Written, HeldSince, BaseInv, TypeOK
<1>6. ASSUME loadFailures = 0, NEW m \in owed, NEW k \in owed, m[1] = k[1],
             Promised!Before(Waiting[m[1]], m[2], k[2])
      PROVE  Promised!Before(disk'[m[1]], m[2], k[2])
  <2>1. CASE Loaded /\ n = 0
    BY <1>1, <1>6, <2>1 DEF Waiting, OrderInv
  <2>2. CASE Loaded /\ n # 0
    <3>1. /\ m[1] \in Device /\ m[2] \in Identifier /\ k[2] \in Identifier
          /\ HeldSince(n, m[1], m[2]) /\ HeldSince(n, m[1], k[2])
      BY <1>5, <1>6, <2>2
    <3>2. Promised!Before(writes[n].pending[m[1]], m[2], k[2])
      BY <1>3, <1>6, <2>2, <3>1 DEF Waiting, OrderInv
    <3>3. QED
      BY <1>1, <2>2, <3>2
  <2>3. CASE ~Loaded
    <3>1. disk' = disk
      <4>1. CASE n # 0
        <5>1. loadPromise = "saving" /\ Len(writes) = 1 /\ writes[1].pending = disk
          BY <1>3, <2>3, <4>1 DEF BaseInv, LoadInv, TypeOK, Loaded
        <5>2. n = 1
          BY <4>1, <5>1
        <5>3. QED
          BY <1>1, <5>1, <5>2
      <4>2. QED
        BY <1>1, <4>1
    <3>2. QED
      BY <1>6, <2>3, <3>1 DEF Waiting
  <2>4. QED
    BY <2>1, <2>2, <2>3
<1>7. ASSUME ~(loadFailures > 0)
      PROVE  loadFailures = 0
    BY <1>7 DEF BaseInv, TypeOK
<1>8. ~(loadFailures > 0) => \A m, k \in owed :
        /\ m[2] \in ToSet(disk'[m[1]])
        /\ m[1] = k[1] /\ Promised!Before(Waiting[m[1]], m[2], k[2]) =>
            Promised!Before(disk'[m[1]], m[2], k[2])
    BY <1>5, <1>6, <1>7
<1>9. \A d \in Device : IsInjective(disk'[d])
    BY <1>4 DEF NoRepetition
<1>10. disk' \in [Device -> Seq(Identifier)]
    BY <1>4 DEF Pending
<1>11. Promised!Restart
    BY <1>2, <1>8, <1>9, <1>10
    DEF Promised!Restart, Promised!ToSet, Promised!IsInjective, Waiting, ToSet, IsInjective
<1>12. QED
    BY <1>11 DEF Promised!Next

\* Every step of the queue is one of the outbox, or none.
LEMMA RefinementStep ==
    BaseInv /\ SavedIsDurable /\ OrderInv /\ [Next]_vars => [Promised!Next]_(Promised!vars)
<1> SUFFICES ASSUME BaseInv, SavedIsDurable, OrderInv, [Next]_vars
             PROVE  Promised!Next \/ UNCHANGED Promised!vars
    OBVIOUS
<1>1. CASE getFromStorage
    BY <1>1, MapsToStutter DEF getFromStorage, Waiting, Loaded, counters
<1>2. CASE LoadRejected
  <2>1. /\ ~Loaded /\ ~Loaded' /\ UNCHANGED <<disk, owed>> /\ loadFailures' > 0
    BY <1>2 DEF LoadRejected, Loaded, BaseInv, TypeOK
  <2>2. Promised!LoadFails
    BY <2>1 DEF Promised!LoadFails
  <2>3. QED
    BY <2>2 DEF Promised!Next
<1>3. ASSUME NEW m \in Message, process(m[1], m[2])
      PROVE  Promised!Next \/ UNCHANGED Promised!vars
  <2>1. /\ m[1] \in Device /\ m[2] \in Identifier /\ Loaded /\ Loaded'
        /\ UNCHANGED <<disk, owed, loadFailures>>
    BY <1>3, MessageQueueAssumption DEF process, Loaded
  <2>2. CASE add(m[1], m[2])
    <3>1. /\ m[2] \notin ToSet(cache[m[1]])
          /\ cache' = [cache EXCEPT ![m[1]] = Append(cache[m[1]], m[2])]
      BY <2>2, FindIsMember DEF add
    <3>2. Promised!Accept(m[1], m[2])
      BY <2>1, <3>1 DEF Promised!Accept, Promised!ToSet, ToSet
    <3>3. QED
      BY <2>1, <3>2 DEF Promised!Next
  <2>3. CASE UNCHANGED <<cache, callbacks, writes, accepted>>
    BY <2>1, <2>3, MapsToStutter DEF Waiting
  <2>4. QED
    BY <1>3, <2>2, <2>3 DEF process
<1>4. CASE WriteDone
  <2>1. writes # <<>> /\ disk' = Head(writes).pending /\ UNCHANGED loadFailures
    BY <1>4 DEF WriteDone, counters
  <2>2. CASE LoadSaved
    <3>1. ~Loaded /\ Loaded' /\ cache' = disk /\ owed' = owed
      BY <2>1, <2>2, LoadWrites DEF LoadSaved, BaseInv, Loaded
    <3>2. QED
      BY <2>1, <3>1, MapsToStutter DEF Waiting
  <2>3. CASE ~LoadSaved
    <3>1. /\ AddSaved \/ RemoveSaved
          /\ Head(writes).by # <<"load">> /\ UNCHANGED <<loadPromise, cache>>
      <4>1. AddSaved \/ RemoveSaved
        BY <1>4, <2>3 DEF WriteDone
      <4>2. Head(writes).by # <<"load">>
        BY <4>1, OtherCallers DEF AddSaved, RemoveSaved
      <4>3. UNCHANGED <<loadPromise, cache>>
        BY <4>1 DEF AddSaved, RemoveSaved
      <4>4. QED
        BY <4>1, <4>2, <4>3
    <3>2. Loaded /\ Loaded'
      <4>1. Head(writes) = writes[1] /\ 1 \in DOMAIN writes
        BY <2>1 DEF BaseInv, TypeOK
      <4>2. QED
        BY <3>1, <4>1 DEF BaseInv, LoadInv, Loaded, TypeOK
    <3>3. CASE owed' = owed
      BY <2>1, <3>1, <3>2, <3>3, MapsToStutter DEF Waiting
    <3>4. CASE owed' # owed
      <4>1. PICK d \in Device, id \in Identifier :
                Standing(d, id) /\ owed' = owed \cup {<<d, id>>}
        BY <3>1, <3>4 DEF AddSaved, RemoveSaved
      <4>2. id \in ToSet(cache[d])
        BY <4>1, FindIsMember DEF Standing
      <4>3. Promised!Promise(d, id)
        BY <2>1, <3>1, <3>2, <4>1, <4>2 DEF Promised!Promise, Promised!ToSet, ToSet
      <4>4. QED
        BY <4>3 DEF Promised!Next
    <3>5. QED
      BY <3>3, <3>4
  <2>4. QED
    BY <2>2, <2>3
<1>5. CASE LoadSaveFailed
  <2>1. /\ writes # <<>> /\ Head(writes).by = <<"load">> /\ Loaded'
        /\ loadFailures' > 0 /\ UNCHANGED <<cache, owed>>
    BY <1>5 DEF LoadSaveFailed, Loaded, BaseInv, TypeOK
  <2>2. cache' = [d \in Device |-> <<>>]
    BY <2>1, LoadWrites DEF BaseInv, NothingPending
  <2>3. Promised!LoadFails
    BY <2>1, <2>2 DEF Promised!LoadFails
  <2>4. QED
    BY <2>3 DEF Promised!Next
<1>6. ASSUME NEW d \in Device, SendSucceeds(d) \/ CallbackResolves(d) \/ FailureHandled(d)
      PROVE  Promised!Next \/ UNCHANGED Promised!vars
  <2>1. /\ phase[d] # "idle" /\ callbacks \in SUBSET Identifier
        /\ callbacks \ {Head(queue[d])} \in SUBSET Identifier
    BY <1>6 DEF SendSucceeds, CallbackResolves, FailureHandled, BaseInv, TypeOK
  <2>2. \/ \E left \in SUBSET Identifier : Finish(d, left)
        \/ UNCHANGED <<loadPromise, cache, disk, owed, loadFailures>>
    BY <1>6, <2>1 DEF SendSucceeds, CallbackResolves, FailureHandled, counters
  <2>3. UNCHANGED <<loadPromise, cache, disk, owed, loadFailures>>
            => UNCHANGED Promised!vars
    BY MapsToStutter DEF Waiting, Loaded
  <2>4. QED
    BY <2>1, <2>2, <2>3, MapsToSettle
<1>7. CASE Crash
    BY <1>7, MapsToRestart
<1>8. CASE \/ processAllPending \/ WriteFailed \/ UNCHANGED vars
           \/ \E d \in Device : SendThrows(d) \/ CallbackThrows(d)
  <2>1. UNCHANGED <<loadPromise, cache, disk, owed, loadFailures>>
    BY <1>8 DEF processAllPending, WriteFailed, SendThrows, CallbackThrows, vars, memory,
       counters
  <2>2. QED
    BY <2>1, MapsToStutter DEF Waiting, Loaded
<1>9. QED
    BY <1>1, <1>2, <1>3, <1>4, <1>5, <1>6, <1>7, <1>8 DEF Next

\* The queue implements the outbox: for its callers it is one list per destination,
\* first in first out, that no end of the process empties or reorders of what
\* process() resolved for.
THEOREM Refinement == Spec => IsOutbox
<1>1. Init => Promised!Init /\ OrderInv
  <2> SUFFICES ASSUME Init PROVE Promised!Init /\ OrderInv
    OBVIOUS
  <2>1. ~Loaded /\ ~(loadFailures > 0)
    BY DEF Init, Loaded
  <2>2. Promised!Init
    BY <2>1 DEF Init, Promised!Init, NothingPending
  <2>3. QED
    BY <2>1, <2>2 DEF OrderInv
<1>2. TypeOK /\ QueueInv /\ OrderInv /\ [Next]_vars => OrderInv'
    BY OrderStep DEF QueueInv, BaseInv
<1>3. TypeOK /\ QueueInv /\ OrderInv /\ [Next]_vars => [Promised!Next]_(Promised!vars)
    BY RefinementStep DEF QueueInv, BaseInv
<1>4. QED
    BY <1>1, <1>2, <1>3, QueueInvariant, PTL DEF Spec, IsOutbox, Promised!Spec
=============================================================================
