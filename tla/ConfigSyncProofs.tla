-------------------------- MODULE ConfigSyncProofs --------------------------
(***************************************************************************)
(* What holds of the configurations of the user, or of a group none of     *)
(* whose members are added with history, for any number of parts, changes, *)
(* overlapping pushes, failures and ends of the process: what is taken to  *)
(* be pushed is stored, the swarm forgets no change, and what is encrypted *)
(* is never there without its keys.                                        *)
(***************************************************************************)
EXTENDS ConfigSync, SequenceTheorems, FiniteSetTheorems, WellFoundedInduction,
        NaturalsInduction, TLAPS

AllChanges == OurChanges \cup TheirChanges

-----------------------------------------------------------------------------
(* Numbers *)

LEMMA Least ==
    ASSUME NEW S, S \subseteq Nat, S # {}
    PROVE  \E n \in S : \A m \in S : n <= m
<1> DEFINE R == OpToRel(<, Nat)
<1>1. IsWellFoundedOn(R, Nat)
    BY NatLessThanWellFounded
<1>2. ASSUME NEW x \in Nat, NEW y \in Nat, ~(<<x, y>> \in R)
      PROVE  y <= x
  <2>1. ~(x < y)
    BY <1>2 DEF OpToRel
  <2>2. QED
    BY <2>1
<1> HIDE DEF R
<1>3. PICK x \in S : \A y \in S : ~(<<y, x>> \in R)
    BY <1>1, WFMin
<1>4. \A y \in S : x <= y
    BY <1>2, <1>3
<1>5. QED
    BY <1>4

LEMMA MinFacts ==
    ASSUME NEW S, S \subseteq Nat, S # {}
    PROVE  Min(S) \in S /\ \A m \in S : Min(S) <= m
    BY Least DEF Min

\* the largest number of a finite set has the fewest above it
LEMMA MaxFacts ==
    ASSUME NEW S, S \subseteq Nat, S # {}, IsFiniteSet(S)
    PROVE  Max(S) \in S /\ \A m \in S : m <= Max(S)
<1> DEFINE Above(x) == {y \in S : y > x}
<1>1. \A x \in S : Cardinality(Above(x)) \in Nat /\ IsFiniteSet(Above(x))
    BY FS_Subset, FS_CardinalityType
<1>2. PICK x \in S : \A y \in S : Cardinality(Above(x)) <= Cardinality(Above(y))
  <2> HIDE DEF Above
  <2> DEFINE C == {Cardinality(Above(y)) : y \in S}
  <2>1. C \subseteq Nat /\ C # {}
    BY <1>1
  <2>2. PICK n \in C : \A m \in C : n <= m
    BY <2>1, Least
  <2>3. PICK x \in S : n = Cardinality(Above(x))
    BY <2>2, Zenon
  <2>4. QED
    BY <2>2, <2>3
<1>3. ASSUME NEW y \in S, ~(y <= x)
      PROVE  FALSE
  <2>1. Above(y) \in SUBSET Above(x) /\ y \in Above(x) /\ y \notin Above(y)
    <3>1. x \in Nat /\ y \in Nat /\ x < y /\ \A z \in S : z \in Nat
      BY <1>3
    <3>2. \A z \in S : z > y => z > x
      BY <3>1
    <3>3. Above(y) \subseteq Above(x)
      BY <3>2
    <3>4. y \in Above(x) /\ y \notin Above(y)
      BY <3>1
    <3>5. QED
      BY <3>3, <3>4
  <2>2. Cardinality(Above(y)) <= Cardinality(Above(x))
        /\ (Cardinality(Above(x)) = Cardinality(Above(y)) => Above(x) = Above(y))
    BY <1>1, <2>1, FS_Subset
  <2>3. Cardinality(Above(x)) <= Cardinality(Above(y))
    BY <1>2, <1>3
  <2>4. Cardinality(Above(x)) \in Nat /\ Cardinality(Above(y)) \in Nat
    BY <1>1, <1>3
  <2> HIDE DEF Above
  <2>5. Cardinality(Above(x)) = Cardinality(Above(y))
    BY <2>2, <2>3, <2>4
  <2>6. QED
    BY <2>1, <2>2, <2>5
<1>4. \E n \in S : \A m \in S : n >= m
  <2>1. \A m \in S : x >= m
    BY <1>3
  <2>2. QED
    BY <2>1
<1>5. Max(S) \in S /\ \A m \in S : Max(S) >= m
    BY <1>4 DEF Max
<1>6. QED
    BY <1>5

-----------------------------------------------------------------------------
(* Configurations and their calls *)

LEMMA OrderFacts ==
    ASSUME kind \in Kinds
    PROVE  /\ "GroupKeys" \notin Configs /\ "delete" \notin Configs
           /\ Calls \in Nat \ {0}
           /\ \A i \in 1..Calls : Chunk(i) \subseteq Configs
           /\ \A i, j \in 1..Calls : i # j => Chunk(i) \cap Chunk(j) = {}
           /\ \A w \in Configs : w \in Object(w) /\ Object(w) \subseteq Configs
           /\ kind # "user" => Calls = 1 /\ Configs = {"GroupInfo", "GroupMember"}
           /\ kind # "user" => Chunk(1) = Configs
           /\ kind = "user" => \A i \in 1..Calls : Chunk(i) = {Order[i]}
<1>1. CASE kind = "user"
  <2>1. /\ Order = UserConfigs /\ Calls = Len(UserConfigs)
        /\ Len(UserConfigs) \in Nat /\ DOMAIN UserConfigs = 1..Len(UserConfigs)
    BY <1>1, ConfigSyncAssumption DEF Order, Calls
  <2>2. Calls # 0
    BY <2>1, ConfigSyncAssumption, EmptySeq
  <2>3. \A i \in 1..Calls : Order[i] \in Configs /\ Chunk(i) = {Order[i]}
    BY <1>1, <2>1 DEF Configs, ToSet, Chunk, Object
  <2>4. \A i, j \in 1..Calls : Order[i] = Order[j] => i = j
    BY <2>1, ConfigSyncAssumption
  <2>5. "GroupKeys" \notin Configs /\ "delete" \notin Configs
    BY <2>1, ConfigSyncAssumption DEF Configs
  <2>6. \A w \in Configs : Object(w) = {w}
    BY <1>1 DEF Object
  <2>7. QED
    BY <1>1, <2>1, <2>2, <2>3, <2>4, <2>5, <2>6
<1>2. CASE kind # "user"
  <2>1. Configs = {"GroupInfo", "GroupMember"}
    BY <1>2 DEF Configs, Order, GroupConfigs, ToSet
  <2>2. Calls = 1
    BY <1>2 DEF Calls
  <2>3. \A w : Object(w) = Configs
    BY <1>2 DEF Object
  <2>4. \A i : Chunk(i) = Configs
    BY <2>3 DEF Chunk
  <2>5. QED
    BY <1>2, <2>1, <2>2, <2>3, <2>4
<1>3. QED
    BY <1>1, <1>2

\* what depends on nothing but the kind stays with it
LEMMA KindStays ==
    ASSUME kind' = kind
    PROVE  /\ Configs' = Configs /\ Calls' = Calls
           /\ Messages' = Messages /\ Requests' = Requests
           /\ Configuration' = Configuration /\ Push' = Push
           /\ \A i : Chunk(i)' = Chunk(i)
           /\ \A m, q : Replaced(m, q)' = Replaced(m, q)
           /\ \A q : Orderly(q)' = Orderly(q)
<1>1. Configs' = Configs
    BY DEF Configs, Order
<1>2. Messages' = Messages
    BY <1>1 DEF Messages
<1>3. Requests' = Requests /\ Configuration' = Configuration /\ Push' = Push
    BY <1>2 DEF Requests, Configuration, Push
<1>4. Calls' = Calls
    BY DEF Calls, Order
<1>5. \A i : Chunk(i)' = Chunk(i)
    BY <1>1 DEF Chunk, Object, Order
<1>6. ASSUME NEW m, NEW q
      PROVE  Replaced(m, q)' = Replaced(m, q)
    BY <1>1 DEF Replaced
<1>7. ASSUME NEW q
      PROVE  Orderly(q)' = Orderly(q)
    BY <1>1, <1>6, Zenon DEF Orderly
<1>8. QED
    BY <1>1, <1>2, <1>3, <1>4, <1>5, <1>6, <1>7

-----------------------------------------------------------------------------
(* Versions *)

PartOf(m, i) ==
    [ns |-> m.ns, seqno |-> m.seqno, changes |-> m.changes, gen |-> m.gen, part |-> i]

LEMMA VersionIsParts == \A m : Version(m) = {PartOf(m, i) : i \in 1..Parts}
    BY DEF Version, Content, ToSet, PartOf

LEMMA VersionFacts ==
    ASSUME NEW m \in Messages
    PROVE  /\ m \in Version(m)
           /\ \A x \in Version(m) :
                /\ x \in Messages /\ x.ns = m.ns /\ x.seqno = m.seqno
                /\ x.changes = m.changes /\ x.gen = m.gen
                /\ Version(x) = Version(m)
           /\ IsFiniteSet(Version(m))
<1>1. m = PartOf(m, m.part) /\ m.part \in 1..Parts
    BY DEF Messages, PartOf
<1>2. ASSUME NEW i \in 1..Parts
      PROVE  /\ PartOf(m, i) \in Messages
             /\ PartOf(m, i).ns = m.ns /\ PartOf(m, i).seqno = m.seqno
             /\ PartOf(m, i).changes = m.changes /\ PartOf(m, i).gen = m.gen
    BY DEF Messages, PartOf
<1>3. ASSUME NEW x, x.ns = m.ns, x.seqno = m.seqno, x.changes = m.changes, x.gen = m.gen
      PROVE  Version(x) = Version(m)
    BY <1>3 DEF Version
<1>4. m \in Version(m)
    BY <1>1, VersionIsParts
<1>5. \A x \in Version(m) : \E i \in 1..Parts : x = PartOf(m, i)
    BY VersionIsParts
<1>6. \A x \in Version(m) :
        /\ x \in Messages /\ x.ns = m.ns /\ x.seqno = m.seqno
        /\ x.changes = m.changes /\ x.gen = m.gen
    BY <1>2, <1>5
<1>7. \A x \in Version(m) : Version(x) = Version(m)
    BY <1>3, <1>6
<1>8. IsFiniteSet(Version(m))
  <2> DEFINE f == [i \in 1..Parts |-> PartOf(m, i)]
  <2>1. f \in Surjection(1..Parts, Version(m))
    BY VersionIsParts DEF Surjection
  <2>2. IsFiniteSet(1..Parts)
    BY PartsAssumption, FS_Interval
  <2> HIDE DEF f
  <2>3. QED
    BY <2>1, <2>2, FS_Surjection
<1>9. QED
    BY <1>4, <1>6, <1>7, <1>8

\* the parts of a version are whatever has its number, changes and generation
LEMMA SameVersion ==
    ASSUME NEW m \in Messages, NEW x \in Messages, x.ns = m.ns, x.seqno = m.seqno,
           x.changes = m.changes, x.gen = m.gen
    PROVE  x \in Version(m)
<1>1. Version(x) = Version(m)
    BY DEF Version
<1>2. QED
    BY <1>1, VersionFacts

LEMMA VersionsFacts ==
    ASSUME NEW w, NEW M, NEW v
    PROVE  v \in Versions(w, M) <=>
             \E m \in M : /\ m.ns = w /\ Version(m) \subseteq M
                          /\ v = [seqno |-> m.seqno, changes |-> m.changes, hashes |-> Version(m)]
<1> DEFINE ver(m) == [seqno |-> m.seqno, changes |-> m.changes,
                      hashes |-> ToSet(Content(w, m.seqno, m.changes, m.gen))]
<1>1. v \in Versions(w, M) <=>
        /\ \E m \in {n \in M : n.ns = w} : v = ver(m)
        /\ v.hashes \subseteq M
    BY DEF Versions
<1>2. \A m : m.ns = w =>
        ver(m) = [seqno |-> m.seqno, changes |-> m.changes, hashes |-> Version(m)]
    BY DEF Version
<1>3. \A m : ver(m).hashes = ToSet(Content(w, m.seqno, m.changes, m.gen))
    OBVIOUS
<1>4. \A m : m.ns = w => ver(m).hashes = Version(m)
    BY <1>3 DEF Version
<1> HIDE DEF ver
<1>5. QED
    BY <1>1, <1>2, <1>4

StoredIn(w, M) == UNION {v.changes : v \in Versions(w, M)}

LEMMA StoredIsIn ==
    ASSUME NEW w
    PROVE  Stored(w) = StoredIn(w, swarm) /\ Stored(w)' = StoredIn(w, swarm')
    BY DEF Stored, StoredIn

LEMMA StoredFacts ==
    ASSUME NEW w, NEW M, NEW c
    PROVE  c \in StoredIn(w, M) <=>
             \E m \in M : m.ns = w /\ Version(m) \subseteq M /\ c \in m.changes
<1>1. c \in StoredIn(w, M) <=> \E v \in Versions(w, M) : c \in v.changes
    BY DEF StoredIn
<1>2. \A m : [seqno |-> m.seqno, changes |-> m.changes, hashes |-> Version(m)].changes = m.changes
    OBVIOUS
<1>3. ASSUME NEW v \in Versions(w, M), c \in v.changes
      PROVE  \E m \in M : m.ns = w /\ Version(m) \subseteq M /\ c \in m.changes
  <2>1. PICK m \in M : /\ m.ns = w /\ Version(m) \subseteq M
                       /\ v = [seqno |-> m.seqno, changes |-> m.changes, hashes |-> Version(m)]
    BY VersionsFacts
  <2>2. QED
    BY <1>2, <1>3, <2>1
<1>4. ASSUME NEW m \in M, m.ns = w, Version(m) \subseteq M, c \in m.changes
      PROVE  \E v \in Versions(w, M) : c \in v.changes
  <2> DEFINE v == [seqno |-> m.seqno, changes |-> m.changes, hashes |-> Version(m)]
  <2>1. v \in Versions(w, M)
    BY <1>4, VersionsFacts
  <2>2. c \in v.changes
    BY <1>2, <1>4
  <2>3. QED
    BY <2>1, <2>2
<1>5. QED
    BY <1>1, <1>3, <1>4

\* What a step of the swarm has to keep for no change to be lost.
LEMMA StoredGrows ==
    ASSUME NEW w, NEW M, NEW N, M \subseteq Messages,
           \A m \in M \ N : m.ns = w =>
               \E n \in N : /\ n.ns = w /\ Version(n) \subseteq N
                            /\ m.changes \subseteq n.changes
    PROVE  StoredIn(w, M) \subseteq StoredIn(w, N)
<1> SUFFICES ASSUME NEW c \in StoredIn(w, M)
             PROVE  c \in StoredIn(w, N)
    OBVIOUS
<1>1. PICK m \in M : m.ns = w /\ Version(m) \subseteq M /\ c \in m.changes
    BY StoredFacts
<1>2. m \in Version(m) /\ \A x \in Version(m) : x.ns = m.ns /\ x.changes = m.changes
    BY VersionFacts
<1>3. CASE Version(m) \subseteq N
    BY <1>1, <1>2, <1>3, StoredFacts
<1>4. CASE ~(Version(m) \subseteq N)
  <2>1. PICK x \in Version(m) : x \in M \ N
    BY <1>1, <1>4
  <2>2. x.ns = w /\ x.changes = m.changes
    BY <1>1, <1>2
  <2>3. PICK n \in N : n.ns = w /\ Version(n) \subseteq N /\ x.changes \subseteq n.changes
    BY <2>1, <2>2
  <2>4. c \in n.changes
    BY <1>1, <2>2, <2>3
  <2>5. QED
    BY <2>3, <2>4, StoredFacts
<1>5. QED
    BY <1>3, <1>4

-----------------------------------------------------------------------------
(* What requests do to the swarm *)

LEMMA RequestFacts ==
    ASSUME kind \in Kinds, NEW q \in Seq(Requests), NEW i \in 1..Len(q)
    PROVE  /\ DOMAIN q = 1..Len(q)
           /\ q[i].ns # "delete" => q[i] \in Messages
           /\ q[i].ns \in Configs => q[i].ns # "delete" /\ q[i] \in Messages
           /\ q[i].ns = "GroupKeys" => q[i] \in Messages
           /\ q[i].ns \in Configs \cup {"GroupKeys", "delete"}
<1>1. "delete" \notin Configs
    BY OrderFacts
<1>2. q[i] \in Requests /\ DOMAIN q = 1..Len(q)
    BY ElementOfSeq, LenProperties
<1>3. q[i] \in Messages => q[i].ns \in Configs \cup {"GroupKeys"}
    BY DEF Messages
<1>4. q[i] \in [ns : {"delete"}, hashes : SUBSET Messages] => q[i].ns = "delete"
    OBVIOUS
<1>5. QED
    BY <1>1, <1>2, <1>3, <1>4 DEF Requests

LEMMA ServedIs ==
    ASSUME NEW M, NEW s, NEW x
    PROVE  x \in Served(M, s) <=>
             \/ /\ x \in M
                /\ \A j \in DOMAIN s : s[j].ns = "delete" /\ j > 0 => x \notin s[j].hashes
             \/ \E k \in DOMAIN s :
                  /\ s[k].ns # "delete" /\ x = s[k]
                  /\ \A j \in DOMAIN s : s[j].ns = "delete" /\ j > k => x \notin s[j].hashes
    BY DEF Served

\* Up to the n-th, nothing is removed but what the deletion at the end replaces.
LEMMA ServedFacts ==
    ASSUME kind \in Kinds, NEW q \in Seq(Requests), Orderly(q), NEW n \in 1..Len(q),
           NEW M, NEW N, N = Served(M, SubSeq(q, 1, n))
    PROVE  /\ \A x \in N \ M : \E i \in 1..n : x = q[i] /\ q[i].ns # "delete"
           /\ \A i \in 1..n : q[i].ns # "delete" => q[i] \in N
           /\ \A x \in M \ N : n = Len(q) /\ Replaced(x, q)
<1> DEFINE s == SubSeq(q, 1, n)
<1>1. n \in Nat \ {0} /\ n <= Len(q) /\ Len(q) \in Nat /\ DOMAIN q = 1..Len(q)
    BY LenProperties
<1>2. s \in Seq(Requests) /\ DOMAIN s = 1..n /\ \A i \in 1..n : s[i] = q[i]
  <2>1. \A i \in 1..n : q[i] \in Requests
    BY <1>1, ElementOfSeq
  <2>2. s \in Seq(Requests) /\ Len(s) = n /\ \A i \in 1..n : s[i] = q[i]
    BY <1>1, <2>1, SubSeqProperties
  <2> HIDE DEF s
  <2>3. QED
    BY <2>2, LenProperties
<1> HIDE DEF s
<1>3. \A x : x \in N <=>
        \/ /\ x \in M
           /\ \A j \in 1..n : q[j].ns = "delete" /\ j > 0 => x \notin q[j].hashes
        \/ \E k \in 1..n :
             /\ q[k].ns # "delete" /\ x = q[k]
             /\ \A j \in 1..n : q[j].ns = "delete" /\ j > k => x \notin q[j].hashes
  <2>1. N = Served(M, s)
    BY DEF s
  <2>2. ASSUME NEW x
        PROVE  x \in N <=>
                 \/ /\ x \in M
                    /\ \A j \in DOMAIN s : s[j].ns = "delete" /\ j > 0 => x \notin s[j].hashes
                 \/ \E k \in DOMAIN s :
                      /\ s[k].ns # "delete" /\ x = s[k]
                      /\ \A j \in DOMAIN s : s[j].ns = "delete" /\ j > k => x \notin s[j].hashes
    BY <2>1, ServedIs
  <2>3. QED
    BY <1>2, <2>2
<1>4. ASSUME NEW j \in 1..n, q[j].ns = "delete"
      PROVE  n = Len(q) /\ \A x \in q[j].hashes : Replaced(x, q)
  <2>1. j \in DOMAIN q /\ j <= n /\ j \in Nat
    BY <1>1
  <2>2. /\ \A x \in q[j].hashes : Replaced(x, q)
        /\ j = Len(q)
    BY <1>4, <2>1, Zenon DEF Orderly
  <2>3. j = Len(q)
    BY <2>2
  <2>4. n = Len(q)
    <3> DEFINE k == Len(q)
    <3>1. n \in Nat /\ k \in Nat /\ n <= k /\ j \in Nat /\ j <= n /\ j = k
      BY <1>1, <2>1, <2>3
    <3> HIDE DEF k
    <3>2. n = k
      BY <3>1
    <3>3. QED
      BY <3>2 DEF k
  <2>5. QED
    BY <2>2, <2>4
<1>5. ASSUME NEW x \in M \ N
      PROVE  n = Len(q) /\ Replaced(x, q)
  <2>1. PICK j \in 1..n : q[j].ns = "delete" /\ x \in q[j].hashes
    BY <1>3
  <2>2. QED
    BY <1>4, <2>1
<1>6. \A x \in N \ M : \E i \in 1..n : x = q[i] /\ q[i].ns # "delete"
    BY <1>3
<1>7. ASSUME NEW i \in 1..n, q[i].ns # "delete"
      PROVE  q[i] \in N
  <2>1. ASSUME NEW j \in 1..n, q[j].ns = "delete", q[i] \in q[j].hashes
        PROVE  FALSE
    <3>1. Replaced(q[i], q)
      BY <1>4, <2>1
    <3>2. i \in DOMAIN q /\ q[i].ns \in Configs
      BY <1>1, <3>1 DEF Replaced
    <3>3. q[i].seqno < q[i].seqno
      BY <3>1, <3>2 DEF Replaced
    <3>4. q[i].seqno \in Nat
      <4>1. q[i] \in Messages
        BY <1>1, <3>2, RequestFacts
      <4>2. QED
        BY <4>1 DEF Messages
    <3>5. QED
      BY <3>3, <3>4
  <2>2. QED
    BY <1>3, <1>7, <2>1
<1>8. QED
    BY <1>5, <1>6, <1>7

\* keys stay on the swarm, and no change is lost from it
SwarmGrows ==
    /\ \A gen : KeysMessage(gen) \in swarm => KeysMessage(gen) \in swarm'
    /\ \A w \in Configs : Stored(w) \subseteq Stored(w)'

LEMMA KeysMessageFacts ==
    ASSUME kind \in Kinds, NEW gen
    PROVE  /\ KeysMessage(gen).ns = "GroupKeys" /\ KeysMessage(gen).gen = gen
           /\ KeysMessage(gen).ns \notin Configs /\ KeysMessage(gen).ns # "delete"
           /\ gen \in 0..MaxGen => KeysMessage(gen) \in Messages
<1>1. "GroupKeys" \notin Configs
    BY OrderFacts
<1>2. 1 \in 1..Parts
    BY PartsAssumption
<1>3. QED
    BY <1>1, <1>2 DEF KeysMessage, Messages

LEMMA SwarmServed ==
    ASSUME kind \in Kinds, UNCHANGED kind, SwarmInv,
           NEW q \in Seq(Requests), Orderly(q), KeysLead(q), NEW n \in 1..Len(q),
           swarm' = Served(swarm, SubSeq(q, 1, n))
    PROVE  /\ SwarmInv' /\ SwarmGrows
           /\ \A i \in 1..n :
                q[i].ns \in Configs /\ (\A j \in 1..Len(q) : q[j].ns = q[i].ns => j <= n)
                    => q[i].changes \subseteq Stored(q[i].ns)'
<1> DEFINE s == SubSeq(q, 1, n)
<1>1. /\ \A x \in swarm' \ swarm : \E i \in 1..n : x = q[i] /\ q[i].ns # "delete"
      /\ \A i \in 1..n : q[i].ns # "delete" => q[i] \in swarm'
      /\ \A x \in swarm \ swarm' : n = Len(q) /\ Replaced(x, q)
    BY ServedFacts
<1>2. \A i \in 1..n : i \in 1..Len(q)
    BY LenProperties
<1>3. DOMAIN q = 1..Len(q) /\ Len(q) \in Nat
    BY LenProperties
<1>4. IsFiniteSet(swarm') /\ swarm' \subseteq Messages'
  <2>1. swarm' \subseteq Messages
    BY <1>1, <1>2, RequestFacts DEF SwarmInv
  <2>2. swarm' \subseteq swarm \cup ToSet(q)
    <3>1. \A i \in 1..n : q[i] \in ToSet(q)
      BY <1>2, <1>3 DEF ToSet
    <3>2. QED
      BY <1>1, <3>1
  <2>3. IsFiniteSet(ToSet(q))
    <3> DEFINE f == [i \in 1..Len(q) |-> q[i]]
    <3>1. f \in Surjection(1..Len(q), ToSet(q))
      BY <1>3 DEF Surjection, ToSet
    <3>2. IsFiniteSet(1..Len(q))
      BY <1>3, FS_Interval
    <3> HIDE DEF f
    <3>3. QED
      BY <3>1, <3>2, FS_Surjection
  <2>4. IsFiniteSet(swarm')
    <3>1. IsFiniteSet(swarm \cup ToSet(q))
      BY <2>3, FS_Union DEF SwarmInv
    <3>2. QED
      BY <2>2, <3>1, FS_Subset
  <2>5. QED
    BY <2>1, <2>4, KindStays DEF SwarmInv
<1>5. \A gen : KeysMessage(gen) \in swarm => KeysMessage(gen) \in swarm'
  <2>1. \A gen : ~Replaced(KeysMessage(gen), q)
    BY KeysMessageFacts DEF Replaced
  <2>2. QED
    BY <1>1, <2>1
<1>6. SwarmInv'
  <2>1. KeysMessage(0) \in swarm'
    BY <1>5 DEF SwarmInv
  <2>2. ASSUME NEW m \in swarm'
        PROVE  /\ KeysMessage(m.gen) \in swarm'
               /\ m.ns = "GroupKeys" => m = KeysMessage(m.gen)
    <3>1. CASE m \in swarm
      BY <1>5, <3>1 DEF SwarmInv
    <3>2. CASE m \notin swarm
      <4>1. PICK i \in 1..n : m = q[i] /\ q[i].ns # "delete"
        BY <1>1, <3>2
      <4>2. i \in DOMAIN q /\ q[i].ns \in Configs \cup {"GroupKeys"}
        BY <1>2, <1>3, <4>1, RequestFacts
      <4>3. CASE q[i].ns \in Configs
        <5>1. q[i].ns # "GroupKeys"
          BY <4>3, OrderFacts
        <5>2. \/ KeysMessage(q[i].gen) \in swarm
              \/ \E j \in 1..(i - 1) : q[j] = KeysMessage(q[i].gen)
          BY <4>2, <4>3 DEF KeysLead
        <5>3. CASE KeysMessage(q[i].gen) \in swarm
          BY <1>5, <4>1, <5>1, <5>3
        <5>4. CASE \E j \in 1..(i - 1) : q[j] = KeysMessage(q[i].gen)
          <6>1. PICK j \in 1..(i - 1) : q[j] = KeysMessage(q[i].gen)
            BY <5>4
          <6>2. j \in 1..n
            BY <1>3, <4>1
          <6>3. q[j].ns # "delete"
            BY <6>1, KeysMessageFacts
          <6>4. QED
            BY <1>1, <4>1, <5>1, <6>1, <6>2, <6>3
        <5>5. QED
          BY <5>2, <5>3, <5>4
      <4>4. CASE q[i].ns = "GroupKeys"
        <5>1. q[i] = KeysMessage(q[i].gen)
          BY <4>2, <4>4 DEF Orderly
        <5>2. QED
          BY <4>1, <5>1
      <4>5. QED
        BY <4>2, <4>3, <4>4
    <3>3. QED
      BY <3>1, <3>2
  <2>3. QED
    BY <1>4, <2>1, <2>2 DEF SwarmInv
<1>7. ASSUME NEW i \in 1..n, q[i].ns \in Configs, \A j \in 1..Len(q) : q[j].ns = q[i].ns => j <= n
      PROVE  q[i] \in swarm' /\ Version(q[i]) \subseteq swarm'
  <2>1. q[i].ns # "delete" /\ q[i] \in Messages /\ q[i] \in swarm'
    BY <1>1, <1>2, <1>7, RequestFacts
  <2>2. Version(q[i]) \subseteq ToSet(q) /\ \A x \in Version(q[i]) : x.ns = q[i].ns
    BY <1>2, <1>3, <1>7, <2>1, VersionFacts DEF Orderly
  <2>3. ASSUME NEW x \in Version(q[i])
        PROVE  x \in swarm'
    <3>1. PICK j \in 1..Len(q) : x = q[j]
      BY <1>3, <2>2 DEF ToSet
    <3>2. j <= n
      BY <1>7, <2>2, <3>1
    <3>3. j \in 1..n
      BY <1>3, <3>2
    <3>4. QED
      BY <1>1, <2>1, <2>2, <3>1, <3>3
  <2>4. QED
    BY <2>1, <2>3
<1>8. ASSUME NEW w \in Configs
      PROVE  Stored(w) \subseteq Stored(w)'
  <2>1. ASSUME NEW m \in swarm \ swarm', m.ns = w
        PROVE  \E x \in swarm' : /\ x.ns = w /\ Version(x) \subseteq swarm'
                                 /\ m.changes \subseteq x.changes
    <3>1. n = Len(q) /\ Replaced(m, q)
      BY <1>1, <2>1
    <3>2. PICK i \in DOMAIN q : q[i].ns = w
      BY <2>1, <3>1 DEF Replaced
    <3>3. m.changes \subseteq q[i].changes
      BY <2>1, <3>1, <3>2 DEF Replaced
    <3>4. i \in 1..n /\ \A j \in 1..Len(q) : j <= n
      BY <1>3, <3>1
    <3>5. q[i] \in swarm' /\ Version(q[i]) \subseteq swarm'
      BY <1>7, <3>2, <3>4
    <3>6. QED
      BY <3>2, <3>3, <3>5
  <2>2. swarm \subseteq Messages
    BY DEF SwarmInv
  <2>3. StoredIn(w, swarm) \subseteq StoredIn(w, swarm')
    BY <2>1, <2>2, StoredGrows
  <2>4. QED
    BY <2>3, StoredIsIn
<1>9. ASSUME NEW i \in 1..n, q[i].ns \in Configs, \A j \in 1..Len(q) : q[j].ns = q[i].ns => j <= n
      PROVE  q[i].changes \subseteq Stored(q[i].ns)'
  <2>1. q[i] \in swarm' /\ Version(q[i]) \subseteq swarm'
    BY <1>7, <1>9
  <2>2. \A c \in q[i].changes : c \in StoredIn(q[i].ns, swarm')
    BY <2>1, StoredFacts
  <2>3. QED
    BY <2>2, StoredIsIn
<1>10. QED
    BY <1>4, <1>5, <1>6, <1>8, <1>9 DEF SwarmGrows

-----------------------------------------------------------------------------
(* What the library does to a configuration *)

\* d knows of every message that c knows of
Onward(c, d) == \A m \in Messages : Known(m, c) => Known(m, d)

LEMMA OnwardFacts ==
    ASSUME NEW c \in Configuration, NEW d \in Configuration,
           \/ c.seqno < d.seqno
           \/ c.seqno = d.seqno /\ c.changes = d.changes /\ (c.state # "dirty" => d.state # "dirty")
    PROVE  Onward(c, d)
<1>1. c.seqno \in Nat /\ d.seqno \in Nat /\ \A m \in Messages : m.seqno \in Nat
    BY DEF Configuration, Messages
<1>2. QED
    BY <1>1 DEF Onward, Known

LEMMA DirtyFacts ==
    ASSUME NEW w, NEW c \in Configuration, ConfigInv(w, c), NEW d, d = MarkDirty(c)
    PROVE  /\ d \in Configuration /\ ConfigInv(w, d) /\ Onward(c, d)
           /\ d.state = "dirty" /\ d.changes = c.changes
<1>1. CASE c.state = "dirty"
  <2>1. d = c
    BY <1>1 DEF MarkDirty
  <2>2. QED
    BY <1>1, <2>1 DEF Onward
<1>2. CASE c.state # "dirty"
  <2>1. d = [seqno |-> c.seqno + 1, changes |-> c.changes, state |-> "dirty",
             hashes |-> {}, old |-> c.old \cup c.hashes]
    BY <1>2 DEF MarkDirty, Configuration
  <2>2. c.seqno \in Nat /\ \A m \in c.old \cup c.hashes : m.seqno \in Nat
    BY DEF Configuration, Messages
  <2>3. d \in Configuration /\ d.seqno = c.seqno + 1 /\ d.state = "dirty"
        /\ d.changes = c.changes /\ d.hashes = {} /\ d.old = c.old \cup c.hashes
    BY <2>1 DEF Configuration
  <2>4. c.seqno < d.seqno
    BY <2>2, <2>3
  <2>5. \A m \in d.old : m.ns = w /\ m.seqno < d.seqno /\ m.changes \subseteq d.changes
    BY <2>2, <2>3 DEF ConfigInv
  <2>6. QED
    BY <2>3, <2>4, <2>5, OnwardFacts DEF ConfigInv
<1>3. QED
    BY <1>1, <1>2

LEMMA SetFacts ==
    ASSUME NEW w, NEW c \in Configuration, ConfigInv(w, c), NEW change \in AllChanges,
           NEW d, d = set(c, change)
    PROVE  d \in Configuration /\ ConfigInv(w, d) /\ Onward(c, d) /\ d.state = "dirty"
<1> DEFINE e == MarkDirty(c)
<1>1. /\ e \in Configuration /\ ConfigInv(w, e) /\ Onward(c, e)
      /\ e.state = "dirty" /\ e.changes = c.changes
    BY DirtyFacts
<1>2. d = [e EXCEPT !.changes = @ \cup {change}]
    BY DEF set
<1> HIDE DEF e
<1>3. /\ d \in Configuration /\ d.seqno = e.seqno /\ d.state = e.state
      /\ d.hashes = e.hashes /\ d.old = e.old /\ d.changes = e.changes \cup {change}
    BY <1>1, <1>2 DEF Configuration, AllChanges
<1>4. Onward(e, d)
    BY <1>1, <1>3 DEF Onward, Known
<1>5. ConfigInv(w, d)
  <2>1. d.hashes = {}
    BY <1>1, <1>3 DEF ConfigInv
  <2>2. QED
    BY <1>1, <1>3, <2>1 DEF ConfigInv
<1>6. QED
    BY <1>1, <1>3, <1>4, <1>5 DEF Onward

LEMMA PushedFacts ==
    ASSUME NEW w, NEW c \in Configuration, ConfigInv(w, c), c.state # "clean",
           NEW d, d = Pushed(c)
    PROVE  /\ d \in Configuration /\ ConfigInv(w, d) /\ Onward(c, d)
           /\ d.state = "waiting" /\ d.seqno = c.seqno /\ d.changes = c.changes
<1>1. d = [seqno |-> c.seqno, changes |-> c.changes, state |-> "waiting",
           hashes |-> c.hashes, old |-> {}]
    BY DEF Pushed, Configuration
<1>2. /\ d \in Configuration /\ d.seqno = c.seqno /\ d.changes = c.changes
      /\ d.state = "waiting" /\ d.hashes = c.hashes /\ d.old = {}
    BY <1>1 DEF Configuration
<1>3. QED
    BY <1>2, OnwardFacts DEF ConfigInv

LEMMA ConfirmedFacts ==
    ASSUME NEW w, NEW c \in Configuration, ConfigInv(w, c), NEW seqno,
           NEW hashes \in SUBSET Messages, \A m \in hashes : m.ns = w /\ m.seqno = seqno,
           c.state = "waiting" /\ seqno = c.seqno => \A m \in hashes : m.changes = c.changes,
           NEW d, d = confirmPushed(c, seqno, hashes)
    PROVE  /\ d \in Configuration /\ ConfigInv(w, d) /\ Onward(c, d) /\ d.changes = c.changes
           /\ d.state = "clean" => c.state = "clean" \/ (c.state = "waiting" /\ seqno = c.seqno)
<1>1. CASE c.state = "waiting" /\ seqno = c.seqno
  <2>1. d = [seqno |-> c.seqno, changes |-> c.changes, state |-> "clean",
             hashes |-> hashes, old |-> c.old]
    BY <1>1 DEF confirmPushed, Configuration
  <2>2. /\ d \in Configuration /\ d.seqno = c.seqno /\ d.changes = c.changes
        /\ d.state = "clean" /\ d.hashes = hashes /\ d.old = c.old
    BY <2>1 DEF Configuration
  <2>3. QED
    BY <1>1, <2>2, OnwardFacts DEF ConfigInv
<1>2. CASE ~(c.state = "waiting" /\ seqno = c.seqno)
  <2>1. d = c
    BY <1>2 DEF confirmPushed
  <2>2. QED
    BY <1>2, <2>1 DEF Onward
<1>3. QED
    BY <1>1, <1>2

\* what is fetched is of whole versions, and finite
LEMMA FetchedFacts ==
    ASSUME SwarmInv, NEW w, NEW vs, vs \subseteq Versions(w, swarm)
    PROVE  /\ \A v \in vs :
                /\ v.seqno \in Nat /\ v.changes \in SUBSET AllChanges
                /\ v.hashes \in SUBSET Messages
                /\ \A m \in v.hashes : m.ns = w /\ m.seqno = v.seqno /\ m.changes = v.changes
                /\ v.hashes \subseteq swarm
                /\ v.changes \subseteq StoredIn(w, swarm)
           /\ {v.seqno : v \in vs} \subseteq Nat /\ IsFiniteSet({v.seqno : v \in vs})
<1>1. ASSUME NEW v \in vs
      PROVE  /\ \E m \in swarm : v.seqno = m.seqno
             /\ v.seqno \in Nat /\ v.changes \in SUBSET AllChanges
             /\ v.hashes \in SUBSET Messages
             /\ \A m \in v.hashes : m.ns = w /\ m.seqno = v.seqno /\ m.changes = v.changes
             /\ v.hashes \subseteq swarm
             /\ v.changes \subseteq StoredIn(w, swarm)
  <2>1. PICK m \in swarm : /\ m.ns = w /\ Version(m) \subseteq swarm
                           /\ v = [seqno |-> m.seqno, changes |-> m.changes, hashes |-> Version(m)]
    BY VersionsFacts
  <2>2. v.seqno = m.seqno /\ v.changes = m.changes /\ v.hashes = Version(m) /\ m \in Messages
    BY <2>1 DEF SwarmInv
  <2>3. m.seqno \in Nat /\ m.changes \in SUBSET AllChanges
    BY <2>2 DEF Messages, AllChanges
  <2>4. \A x \in Version(m) : x \in Messages /\ x.ns = w /\ x.seqno = m.seqno /\ x.changes = m.changes
    BY <2>1, <2>2, VersionFacts
  <2>5. v.changes \subseteq StoredIn(w, swarm)
    BY <2>1, <2>2, StoredFacts
  <2>6. QED
    BY <2>1, <2>2, <2>3, <2>4, <2>5
<1> DEFINE S == {v.seqno : v \in vs}
           T == {m.seqno : m \in swarm}
           f == [m \in swarm |-> m.seqno]
<1>2. f \in Surjection(swarm, T)
    BY DEF Surjection
<1> HIDE DEF f
<1>3. IsFiniteSet(T)
    BY <1>2, FS_Surjection DEF SwarmInv
<1>4. S \subseteq T /\ S \subseteq Nat
    BY <1>1
<1> HIDE DEF S, T
<1>5. IsFiniteSet(S)
    BY <1>3, <1>4, FS_Subset
<1>6. QED
    BY <1>1, <1>4, <1>5 DEF S

LEMMA MergedFacts ==
    ASSUME SwarmInv, NEW w, NEW c \in Configuration, ConfigInv(w, c),
           NEW vs, vs \subseteq Versions(w, swarm), NEW d, d = merge(c, vs)
    PROVE  /\ d \in Configuration /\ ConfigInv(w, d) /\ Onward(c, d)
           /\ d.state = "clean" =>
                (d.changes = c.changes /\ c.state = "clean") \/ d.changes \subseteq StoredIn(w, swarm)
<1> DEFINE all == c.changes \cup UNION {v.changes : v \in vs}
           newest == {v \in vs :
                        /\ v.changes = all
                        /\ v.seqno > c.seqno
                        /\ \A u \in vs \ {v} : u.seqno < v.seqno}
           hashes == UNION {v.hashes : v \in vs}
           S == {c.seqno} \cup {v.seqno : v \in vs}
<1> HIDE DEF all, newest, hashes, S
<1>1. \A v \in vs :
        /\ v.seqno \in Nat /\ v.changes \in SUBSET AllChanges
        /\ v.hashes \in SUBSET Messages
        /\ \A m \in v.hashes : m.ns = w /\ m.seqno = v.seqno /\ m.changes = v.changes
        /\ v.hashes \subseteq swarm
        /\ v.changes \subseteq StoredIn(w, swarm)
    BY FetchedFacts
<1> USE DEF all, newest, hashes, S
<1>2. /\ c.seqno \in Nat /\ c.changes \in SUBSET AllChanges
      /\ c.hashes \in SUBSET Messages /\ c.old \in SUBSET Messages
    BY DEF Configuration, AllChanges
<1>3. all \in SUBSET AllChanges /\ c.changes \subseteq all /\ \A v \in vs : v.changes \subseteq all
    BY <1>1, <1>2
<1>4. hashes \in SUBSET Messages /\ \A m \in hashes : \E v \in vs : m \in v.hashes
    BY <1>1
<1>5. \A m \in c.old \cup c.hashes : m.ns = w /\ m.seqno <= c.seqno /\ m.changes \subseteq all
  <2>1. \A m \in Messages : m.seqno \in Nat
    BY DEF Messages
  <2>2. QED
    BY <1>2, <1>3, <2>1 DEF ConfigInv
<1>6. \A m \in hashes : m.ns = w /\ m.changes \subseteq all /\ \E v \in vs : m \in v.hashes /\ m.seqno = v.seqno
    BY <1>1, <1>3, <1>4
<1>7. \A m \in Messages : m.seqno \in Nat
    BY DEF Messages
<1>8. d = IF newest # {}
          THEN LET v == CHOOSE v \in newest : TRUE
               IN  [seqno |-> v.seqno, changes |-> all, state |-> "clean",
                    hashes |-> v.hashes, old |-> (c.old \cup c.hashes \cup hashes) \ v.hashes]
          ELSE IF all = c.changes /\ \A v \in vs : v.seqno < c.seqno
          THEN [c EXCEPT !.old = @ \cup hashes]
          ELSE [seqno |-> Max(S) + 1, changes |-> all, state |-> "dirty",
                hashes |-> {}, old |-> c.old \cup c.hashes \cup hashes]
    BY DEF merge
<1>9. \A v \in newest : /\ v \in vs /\ v.changes = all /\ v.seqno > c.seqno
                        /\ \A u \in vs \ {v} : u.seqno < v.seqno
    OBVIOUS
<1>10. S \subseteq Nat /\ S # {} /\ IsFiniteSet(S) /\ c.seqno \in S /\ \A v \in vs : v.seqno \in S
  <2>1. IsFiniteSet({v.seqno : v \in vs}) /\ IsFiniteSet({c.seqno})
    BY FetchedFacts, FS_Singleton
  <2>2. IsFiniteSet(S)
    BY <2>1, FS_Union
  <2>3. QED
    BY <1>1, <1>2, <2>2
<1> HIDE DEF all, newest, hashes, S
<1>11. CASE newest # {}
  <2> DEFINE v == CHOOSE v \in newest : TRUE
  <2>1. v \in newest
    BY <1>11
  <2>2. d = [seqno |-> v.seqno, changes |-> all, state |-> "clean",
             hashes |-> v.hashes, old |-> (c.old \cup c.hashes \cup hashes) \ v.hashes]
    BY <1>8, <1>11
  <2> HIDE DEF v
  <2>3. /\ v \in vs /\ v.changes = all /\ v.seqno > c.seqno /\ v.seqno \in Nat
        /\ \A u \in vs \ {v} : u.seqno < v.seqno
    BY <1>1, <1>9, <2>1
  <2>4. /\ d.seqno = v.seqno /\ d.changes = all /\ d.state = "clean" /\ d.hashes = v.hashes
        /\ d.old = (c.old \cup c.hashes \cup hashes) \ v.hashes
    BY <2>2
  <2>5. d \in Configuration
    BY <1>1, <1>2, <1>3, <1>4, <2>2, <2>3 DEF Configuration, AllChanges
  <2>6. Onward(c, d)
    BY <1>2, <2>3, <2>4, <2>5, OnwardFacts
  <2>7. ASSUME NEW m \in d.old
        PROVE  m.ns = w /\ m.seqno < d.seqno /\ m.changes \subseteq d.changes
    <3>1. m \in Messages /\ m.seqno \in Nat
      BY <1>2, <1>4, <1>7, <2>4
    <3>2. CASE m \in c.old \cup c.hashes
      BY <1>2, <1>5, <2>3, <2>4, <3>1, <3>2
    <3>3. CASE m \in hashes
      <4>1. PICK u \in vs : m \in u.hashes /\ m.seqno = u.seqno
        BY <1>6, <3>3
      <4>2. u # v
        BY <2>4, <4>1
      <4>3. QED
        BY <1>6, <2>3, <2>4, <3>3, <4>1, <4>2
    <3>4. QED
      BY <2>4, <3>2, <3>3
  <2>8. ConfigInv(w, d)
    BY <1>1, <2>3, <2>4, <2>7 DEF ConfigInv
  <2>9. QED
    BY <1>1, <2>3, <2>4, <2>5, <2>6, <2>8
<1>12. CASE newest = {} /\ all = c.changes /\ \A v \in vs : v.seqno < c.seqno
  <2>1. d = [c EXCEPT !.old = @ \cup hashes]
    BY <1>8, <1>12
  <2>2. /\ d \in Configuration /\ d.seqno = c.seqno /\ d.changes = c.changes
        /\ d.state = c.state /\ d.hashes = c.hashes /\ d.old = c.old \cup hashes
    BY <1>4, <2>1 DEF Configuration
  <2>3. \A m \in d.old : m.ns = w /\ m.seqno < d.seqno /\ m.changes \subseteq d.changes
    <3>1. \A m \in c.old : m.ns = w /\ m.seqno < c.seqno /\ m.changes \subseteq c.changes
      BY DEF ConfigInv
    <3>2. ASSUME NEW m \in hashes
          PROVE  m.ns = w /\ m.seqno < c.seqno /\ m.changes \subseteq c.changes
      <4>1. PICK v \in vs : m.seqno = v.seqno
        BY <1>6
      <4>2. m.seqno < c.seqno
        BY <1>12, <4>1
      <4>3. QED
        BY <1>6, <1>12, <4>2
    <3>3. QED
      BY <2>2, <3>1, <3>2
  <2>4. ConfigInv(w, d)
    BY <2>2, <2>3 DEF ConfigInv
  <2>5. Onward(c, d)
    BY <2>2, OnwardFacts
  <2>6. QED
    BY <2>2, <2>4, <2>5
<1>13. CASE newest = {} /\ ~(all = c.changes /\ \A v \in vs : v.seqno < c.seqno)
  <2> DEFINE n == Max(S)
  <2>1. d = [seqno |-> n + 1, changes |-> all, state |-> "dirty",
             hashes |-> {}, old |-> c.old \cup c.hashes \cup hashes]
    BY <1>8, <1>13
  <2>2. n \in Nat /\ c.seqno <= n /\ \A v \in vs : v.seqno <= n
    BY <1>10, MaxFacts
  <2> HIDE DEF n
  <2>3. /\ d.seqno = n + 1 /\ d.changes = all /\ d.state = "dirty" /\ d.hashes = {}
        /\ d.old = c.old \cup c.hashes \cup hashes
    BY <2>1
  <2>4. d \in Configuration
    BY <1>2, <1>3, <1>4, <2>1, <2>2 DEF Configuration, AllChanges
  <2>5. Onward(c, d)
    BY <1>2, <2>2, <2>3, <2>4, OnwardFacts
  <2>6. ASSUME NEW m \in d.old
        PROVE  m.ns = w /\ m.seqno < d.seqno /\ m.changes \subseteq d.changes
    <3>1. m \in Messages /\ m.seqno \in Nat
      BY <1>2, <1>4, <1>7, <2>3
    <3>2. CASE m \in c.old \cup c.hashes
      BY <1>2, <1>5, <2>2, <2>3, <3>1, <3>2
    <3>3. CASE m \in hashes
      BY <1>1, <1>6, <2>2, <2>3, <3>1, <3>3
    <3>4. QED
      BY <2>3, <3>2, <3>3
  <2>7. ConfigInv(w, d)
    BY <2>3, <2>6 DEF ConfigInv
  <2>8. QED
    BY <2>3, <2>4, <2>5, <2>7
<1>14. QED
    BY <1>11, <1>12, <1>13

-----------------------------------------------------------------------------
(* What a push sent, and the results of it *)

LEMMA SentFacts ==
    ASSUME NEW r \in Push
    PROVE  /\ Len(r.sent) \in Nat /\ DOMAIN r.sent = 1..Len(r.sent)
           /\ \A i \in 1..Len(r.sent) : r.sent[i] \in Messages
           /\ SortedSubRequests(r) \in Seq(Requests)
           /\ DOMAIN SortedSubRequests(r) = 1..Len(SortedSubRequests(r))
           /\ Len(SortedSubRequests(r)) = IF r.old = {} THEN Len(r.sent) ELSE Len(r.sent) + 1
           /\ \A i \in 1..Len(r.sent) : SortedSubRequests(r)[i] = r.sent[i]
           /\ r.old # {} => SortedSubRequests(r)[Len(r.sent) + 1] = DeleteHashes(r.old)
<1> DEFINE t == IF r.old = {} THEN <<>> ELSE <<DeleteHashes(r.old)>>
           e == r.sent
<1>1. r.sent \in Seq(Messages) /\ r.old \in SUBSET Messages /\ r.extra = <<>>
    BY DEF Push
<1>2. Messages \subseteq Requests
    BY DEF Requests
<1>3. e \in Seq(Requests)
    BY <1>1, <1>2, SeqMonotonic
<1>4. DeleteHashes(r.old) \in Requests
    BY <1>1 DEF DeleteHashes, Requests
<1>5. t \in Seq(Requests) /\ Len(t) = IF r.old = {} THEN 0 ELSE 1
  <2>1. CASE r.old = {}
    BY <2>1, EmptySeq
  <2>2. CASE r.old # {}
    <3>1. t = <<DeleteHashes(r.old)>>
      BY <2>2
    <3> HIDE DEF t
    <3>2. QED
      BY <1>4, <2>2, <3>1
  <2>3. QED
    BY <2>1, <2>2
<1>6. r.old # {} => t[1] = DeleteHashes(r.old)
    OBVIOUS
<1>7. Len(e) \in Nat /\ DOMAIN e = 1..Len(e) /\ \A i \in 1..Len(e) : e[i] \in Messages
    BY <1>1, LenProperties, ElementOfSeq
<1>8. SortedSubRequests(r) = r.extra \o e \o t
    BY DEF SortedSubRequests
<1> HIDE DEF t, e
<1>9. SortedSubRequests(r) = e \o t
  <2>1. <<>> \o e = e
    BY <1>3, ConcatEmptySeq
  <2>2. QED
    BY <1>1, <1>8, <2>1
<1>10. /\ e \o t \in Seq(Requests) /\ Len(e \o t) = Len(e) + Len(t)
       /\ \A i \in 1..Len(e) + Len(t) : (e \o t)[i] = IF i <= Len(e) THEN e[i] ELSE t[i - Len(e)]
    BY <1>3, <1>5, ConcatProperties
<1>11. \A i \in 1..Len(e) : i \in 1..Len(e) + Len(t) /\ i <= Len(e)
    BY <1>5, <1>7
<1>12. \A i \in 1..Len(e) : SortedSubRequests(r)[i] = e[i]
    BY <1>9, <1>10, <1>11
<1>13. r.old # {} => SortedSubRequests(r)[Len(e) + 1] = DeleteHashes(r.old)
  <2> SUFFICES ASSUME r.old # {}
               PROVE  SortedSubRequests(r)[Len(e) + 1] = DeleteHashes(r.old)
    OBVIOUS
  <2>1. Len(e) + 1 \in 1..Len(e) + Len(t) /\ ~(Len(e) + 1 <= Len(e)) /\ (Len(e) + 1) - Len(e) = 1
    BY <1>5, <1>7
  <2>2. (e \o t)[Len(e) + 1] = t[1]
    BY <1>10, <2>1
  <2>3. QED
    BY <1>6, <1>9, <2>2
<1>14. Len(SortedSubRequests(r)) = IF r.old = {} THEN Len(e) ELSE Len(e) + 1
    BY <1>5, <1>7, <1>9, <1>10
<1>15. SortedSubRequests(r) \in Seq(Requests)
    BY <1>9, <1>10
<1>16. DOMAIN SortedSubRequests(r) = 1..Len(SortedSubRequests(r))
    BY <1>15, LenProperties
<1>17. QED
    BY <1>7, <1>12, <1>13, <1>14, <1>15, <1>16 DEF e

\* what was sent for one configuration is of one version
LEMMA OneVersion ==
    ASSUME kind \in Kinds, NEW r \in Push, Orderly(SortedSubRequests(r)), NEW w \in Configs
    PROVE  /\ Indexes(r, w) = {i \in 1..Len(r.sent) : r.sent[i].ns = w}
           /\ Indexes(r, w) \subseteq Nat /\ IsFiniteSet(Indexes(r, w))
           /\ \A i, j \in Indexes(r, w) :
                r.sent[i].seqno = r.sent[j].seqno /\ r.sent[i].changes = r.sent[j].changes
           /\ Indexes(r, w) # {} => \A i \in Indexes(r, w) : PushedSeqno(r, w) = r.sent[i].seqno
<1> DEFINE I == Indexes(r, w)
<1>1. I = {i \in 1..Len(r.sent) : r.sent[i].ns = w}
    BY DEF Indexes
<1>2. I \subseteq Nat /\ I \subseteq 1..Len(r.sent) /\ \A i \in I : r.sent[i].ns = w
    BY <1>1, SentFacts
<1> HIDE DEF I
<1>3. IsFiniteSet(I)
  <2>1. IsFiniteSet(1..Len(r.sent))
    BY SentFacts, FS_Interval
  <2>2. QED
    BY <1>2, <2>1, FS_Subset
<1>4. ASSUME NEW i \in I, NEW j \in I
      PROVE  r.sent[i].seqno = r.sent[j].seqno /\ r.sent[i].changes = r.sent[j].changes
  <2> DEFINE q == SortedSubRequests(r)
  <2>1. i \in 1..Len(r.sent) /\ j \in 1..Len(r.sent) /\ r.sent[i].ns = w /\ r.sent[j].ns = w
    BY <1>2
  <2>2. i \in DOMAIN q /\ j \in DOMAIN q /\ q[i] = r.sent[i] /\ q[j] = r.sent[j]
        /\ r.sent[i] \in Messages
    BY <2>1, SentFacts
  <2> HIDE DEF q
  <2>3. q[j] \in Version(q[i])
    BY <2>1, <2>2 DEF Orderly, q
  <2>4. QED
    BY <2>2, <2>3, VersionFacts
<1>5. ASSUME I # {}, NEW i \in I
      PROVE  PushedSeqno(r, w) = r.sent[i].seqno
  <2>1. Min(I) \in I
    BY <1>2, <1>5, MinFacts
  <2>2. PushedSeqno(r, w) = r.sent[Min(I)].seqno
    BY DEF PushedSeqno, I
  <2>3. QED
    BY <1>4, <2>1, <2>2
<1>6. QED
    BY <1>1, <1>2, <1>3, <1>4, <1>5 DEF I

\* a configuration is confirmed when all of its results are there
LEMMA ConfirmedHashesFacts ==
    ASSUME kind \in Kinds, NEW r \in Push, Orderly(SortedSubRequests(r)), NEW w \in Configs,
           ConfirmedHashes(r, w) # {}
    PROVE  /\ Indexes(r, w) # {} /\ \A i \in Indexes(r, w) : i <= r.ok
           /\ \A m \in ConfirmedHashes(r, w) : \E i \in Indexes(r, w) : m = r.sent[i]
<1> DEFINE I == Indexes(r, w)
           H == UNION {ResultHash(r, i) : i \in I}
           J == {i \in I : i <= r.ok}
<1>1. ConfirmedHashes(r, w) = IF Cardinality(H) = Cardinality(I) THEN H ELSE {}
    BY DEF ConfirmedHashes
<1>2. Cardinality(H) = Cardinality(I) /\ ConfirmedHashes(r, w) = H
    BY <1>1
<1>3. I \subseteq 1..Len(r.sent) /\ IsFiniteSet(I) /\ \A i \in I : r.sent[i].ns = w
    BY OneVersion
<1>4. ASSUME NEW i \in I
      PROVE  ResultHash(r, i) = IF i <= r.ok THEN {r.sent[i]} ELSE {}
  <2>1. i \in 1..Len(r.sent) /\ r.sent[i].ns = w
    BY <1>3
  <2>2. SortedSubRequests(r)[i] = r.sent[i]
    BY <2>1, SentFacts
  <2>3. r.sent[i].ns # "delete"
    BY <2>1, OrderFacts
  <2>4. QED
    BY <2>2, <2>3 DEF ResultHash
<1>5. \A m : m \in H <=> \E i \in J : m = r.sent[i]
  <2>1. \A m : m \in H <=> \E i \in I : m \in ResultHash(r, i)
    OBVIOUS
  <2>2. QED
    BY <1>4, <2>1
<1>6. J \in SUBSET I
    OBVIOUS
<1>7. \A i \in I : i \in J <=> i <= r.ok
    OBVIOUS
<1> HIDE DEF I, H, J
<1>8. IsFiniteSet(J) /\ Cardinality(J) <= Cardinality(I)
      /\ (Cardinality(I) = Cardinality(J) => I = J)
    BY <1>3, <1>6, FS_Subset
<1>9. IsFiniteSet(H) /\ Cardinality(H) <= Cardinality(J)
  <2> DEFINE f == [i \in J |-> r.sent[i]]
  <2>1. f \in Surjection(J, H)
    BY <1>5 DEF Surjection
  <2> HIDE DEF f
  <2>2. QED
    BY <1>8, <2>1, FS_Surjection
<1>10. I = J
  <2>1. Cardinality(I) \in Nat /\ Cardinality(J) \in Nat
    BY <1>3, <1>8, FS_CardinalityType
  <2>2. QED
    BY <1>2, <1>8, <1>9, <2>1
<1>11. H # {}
    BY <1>2
<1>12. QED
    BY <1>2, <1>5, <1>6, <1>7, <1>10, <1>11 DEF I

-----------------------------------------------------------------------------
(* What stays while the swarm grows and configurations go on *)

LEMMA SwarmStays ==
    ASSUME UNCHANGED <<kind, swarm>>
    PROVE  SwarmGrows /\ (SwarmInv => SwarmInv')
<1>1. \A w : Stored(w)' = Stored(w)
    BY StoredIsIn
<1>2. SwarmInv => SwarmInv'
    BY KindStays DEF SwarmInv
<1>3. QED
    BY <1>1, <1>2 DEF SwarmGrows

LEMMA BackedStays ==
    ASSUME UNCHANGED kind, SwarmGrows, NEW cs, NEW k, Backed(cs, k)
    PROVE  Backed(cs, k)'
<1>1. Configs' = Configs /\ Configuration' = Configuration
    BY KindStays
<1>2. ASSUME NEW w \in Configs
      PROVE  /\ ConfigInv(w, cs[w])
             /\ cs[w].state = "clean" => cs[w].changes \subseteq Stored(w)'
    BY DEF Backed, SwarmGrows
<1>3. ~k.pending => KeysMessage(k.gen) \in swarm'
    BY DEF Backed, SwarmGrows
<1>4. cs \in [Configs -> Configuration] /\ k \in GroupKeys
    BY DEF Backed
<1>5. QED
    BY <1>1, <1>2, <1>3, <1>4 DEF Backed

LEMMA SendableStays ==
    ASSUME UNCHANGED kind, SwarmGrows, NEW q, Sendable(q)
    PROVE  Sendable(q)'
<1>1. Configs' = Configs /\ Requests' = Requests /\ Orderly(q)' = Orderly(q)
    BY KindStays
<1>2. KeysLead(q)'
    BY <1>1 DEF Sendable, KeysLead, SwarmGrows
<1>3. QED
    BY <1>1, <1>2 DEF Sendable

LEMMA GoesOnStays ==
    ASSUME UNCHANGED kind, SwarmGrows, \A w \in Configs : Onward(config[w], config'[w]),
           NEW r, GoesOn(r)
    PROVE  GoesOn(r)'
<1>1. Configs' = Configs /\ Push' = Push /\ Calls' = Calls /\ \A i : Chunk(i)' = Chunk(i)
    BY KindStays
<1>2. PushInv(r)'
    BY <1>1 DEF GoesOn, PushInv
<1>3. SentIsKnown(r)'
  <2>1. \A i \in DOMAIN r.sent : r.sent[i] \in Messages
    BY SentFacts DEF GoesOn
  <2>2. ASSUME NEW i \in DOMAIN r.sent, r.sent[i].ns \in Configs
        PROVE  Known(r.sent[i], config'[r.sent[i].ns])
    BY <2>1, <2>2 DEF GoesOn, SentIsKnown, Onward
  <2>3. QED
    BY <1>1, <2>2 DEF SentIsKnown
<1>4. ServedIsStored(r)'
  <2>1. ASSUME r.phase \in {"reply", "confirm"}, NEW w \in Configs,
               \A i \in Indexes(r, w) : i <= r.ok, NEW i \in Indexes(r, w)
        PROVE  r.sent[i].changes \subseteq Stored(w)'
    <3>1. r.sent[i].changes \subseteq Stored(w)
      BY <2>1 DEF GoesOn, ServedIsStored
    <3>2. QED
      BY <3>1 DEF SwarmGrows
  <2>2. QED
    BY <1>1, <2>1 DEF ServedIsStored
<1>5. Sendable(SortedSubRequests(r))'
    BY SendableStays DEF GoesOn
<1>6. QED
    BY <1>1, <1>2, <1>3, <1>4, <1>5 DEF GoesOn

\* A push that has sent nothing goes on.
LEMMA NothingSent ==
    ASSUME kind \in Kinds, NEW r \in Push, PushInv(r), r.phase \in {"idle", "dump", "collect"},
           r.sent = <<>>, r.old = {}
    PROVE  GoesOn(r)
<1>1. Len(r.sent) = 0 /\ DOMAIN r.sent = {}
    BY EmptySeq
<1>2. SortedSubRequests(r) \in Seq(Requests) /\ DOMAIN SortedSubRequests(r) = {}
  <2>1. Len(SortedSubRequests(r)) = 0
    BY <1>1, SentFacts
  <2>2. SortedSubRequests(r) \in Seq(Requests) /\ DOMAIN SortedSubRequests(r) = 1..Len(SortedSubRequests(r))
    BY SentFacts
  <2>3. QED
    BY <2>1, <2>2
<1>3. Sendable(SortedSubRequests(r))
    BY <1>2 DEF Sendable, Orderly, KeysLead
<1>4. SentIsKnown(r) /\ ServedIsStored(r)
    BY <1>1 DEF SentIsKnown, ServedIsStored
<1>5. QED
    BY <1>3, <1>4 DEF GoesOn

\* A push that sends the same goes on.
LEMMA SameSent ==
    ASSUME NEW r, GoesOn(r), NEW s \in Push, PushInv(s), s.sent = r.sent, s.old = r.old,
           s.phase \in {"reply", "confirm"} => r.phase \in {"reply", "confirm"} /\ s.ok = r.ok
    PROVE  GoesOn(s)
<1>1. SortedSubRequests(s) = SortedSubRequests(r)
    BY DEF SortedSubRequests, GoesOn, Push
<1>2. SentIsKnown(s)
    BY DEF GoesOn, SentIsKnown
<1>3. \A w : Indexes(s, w) = Indexes(r, w)
    BY DEF Indexes
<1>4. ServedIsStored(s)
    BY <1>3 DEF GoesOn, ServedIsStored
<1>5. QED
    BY <1>1, <1>2, <1>4 DEF GoesOn

\* The invariant stays when its parts do.
LEMMA PartsStay ==
    ASSUME SyncInv, UNCHANGED kind, SwarmGrows, SwarmInv',
           made' \subseteq AllChanges, undumped' \subseteq Configs, polled' \subseteq Configs,
           Backed(config, keys)', \A w \in Configs : Onward(config[w], config'[w]),
           disk' = [config |-> disk'.config, keys |-> disk'.keys], Backed(disk.config, disk.keys)',
           push' = [p \in Pushes |-> push'[p]],
           \A p \in Pushes : push'[p] = push[p] \/ GoesOn(push[p])',
           \A q \in stray' : q \in stray \/ Sendable(q)'
    PROVE  SyncInv'
<1>1. kind' \in Kinds /\ Configs' = Configs
    BY KindStays DEF SyncInv
<1>2. ASSUME NEW p \in Pushes
      PROVE  GoesOn(push[p])'
  <2>1. GoesOn(push[p])
    BY DEF SyncInv
  <2>2. CASE push'[p] = push[p]
    <3> DEFINE r == push[p]
    <3>1. \A r0 : GoesOn(r0) => GoesOn(r0)'
      BY GoesOnStays
    <3>2. QED
      BY <2>1, <2>2, <3>1
  <2>3. QED
    BY <2>2
<1>3. ASSUME NEW q \in stray'
      PROVE  Sendable(q)'
  <2>1. q \in stray => Sendable(q)
    BY DEF SyncInv
  <2>2. QED
    BY <1>3, <2>1, SendableStays
<1>4. QED
    BY <1>1, <1>2, <1>3 DEF SyncInv, AllChanges

-----------------------------------------------------------------------------
(* Steps of a push that only sends and reads *)

LEMMA StateFacts ==
    ASSUME SyncInv
    PROVE  /\ kind \in Kinds /\ undumped \subseteq Configs /\ polled \subseteq Configs
           /\ made \subseteq AllChanges /\ SwarmInv
           /\ config \in [Configs -> Configuration] /\ keys \in GroupKeys
           /\ disk.config \in [Configs -> Configuration] /\ disk.keys \in GroupKeys
           /\ push \in [Pushes -> Push]
           /\ \A p \in Pushes : /\ GoesOn(push[p]) /\ push[p] \in Push /\ PushInv(push[p])
                                /\ Sendable(SortedSubRequests(push[p]))
           /\ \A w \in Configs : Onward(config[w], config[w])
<1>1. \A p \in Pushes : /\ GoesOn(push[p]) /\ push[p] \in Push /\ PushInv(push[p])
                        /\ Sendable(SortedSubRequests(push[p]))
    BY DEF SyncInv, GoesOn
<1>2. push \in [Pushes -> Push]
    BY <1>1 DEF SyncInv
<1>3. \A w \in Configs : Onward(config[w], config[w])
    BY DEF Onward
<1>4. config \in [Configs -> Configuration] /\ keys \in GroupKeys
      /\ disk.config \in [Configs -> Configuration] /\ disk.keys \in GroupKeys
    BY DEF SyncInv, Backed
<1>5. QED
    BY <1>1, <1>2, <1>3, <1>4 DEF SyncInv, AllChanges

LEMMA IdleFacts ==
    ASSUME kind \in Kinds
    PROVE  /\ Idle \in Push /\ GoesOn(Idle) /\ Idle.phase = "idle" /\ Idle.at = 1
           /\ Idle.sent = <<>> /\ Idle.old = {} /\ Idle.extra = <<>> /\ Idle.ok = 0 /\ Idle.results = 0
<1>1. /\ Idle.phase = "idle" /\ Idle.at = 1 /\ Idle.sent = <<>> /\ Idle.old = {}
      /\ Idle.extra = <<>> /\ Idle.ok = 0 /\ Idle.results = 0
    BY DEF Idle
<1>2. <<>> \in Seq(Messages) /\ Len(<<>>) = 0
    BY EmptySeq
<1>3. Idle \in Push
    BY <1>2 DEF Idle, Push
<1>4. PushInv(Idle)
  <2>1. 1 <= Calls
    BY OrderFacts
  <2>2. QED
    BY <1>1, <1>2, <2>1 DEF PushInv
<1>5. QED
    BY <1>1, <1>3, <1>4, NothingSent

\* Nothing but a push, what is dumped and the strays change.
LEMMA PushMoves ==
    ASSUME SyncInv, UNCHANGED <<kind, config, keys, swarm, made>>,
           undumped' \subseteq Configs, polled' \subseteq Configs,
           disk' = [config |-> disk'.config, keys |-> disk'.keys], Backed(disk.config, disk.keys)',
           NEW p \in Pushes, NEW r, GoesOn(r), push' = [push EXCEPT ![p] = r],
           \A q \in stray' : q \in stray \/ Sendable(q)
    PROVE  SyncInv'
<1>1. SwarmGrows /\ SwarmInv'
    BY SwarmStays, StateFacts
<1>2. Backed(config, keys)'
  <2>1. Backed(config, keys)
    BY DEF SyncInv
  <2>2. \A cs, k : Backed(cs, k) => Backed(cs, k)'
    BY <1>1, BackedStays
  <2>3. QED
    BY <2>1, <2>2
<1>3. \A w \in Configs : Onward(config[w], config'[w])
    BY StateFacts
<1>4. /\ push' = [q \in Pushes |-> push'[q]] /\ push'[p] = r
      /\ \A q \in Pushes : q # p => push'[q] = push[q]
    BY StateFacts
<1>5. GoesOn(r)'
    BY <1>1, <1>3, GoesOnStays
<1>6. \A q \in Pushes : push'[q] = push[q] \/ GoesOn(push[q])'
    BY <1>4, <1>5
<1>7. \A q \in stray' : q \in stray \/ Sendable(q)'
    BY <1>1, SendableStays
<1>8. made' \subseteq AllChanges
    BY StateFacts
<1>9. QED
    BY <1>1, <1>2, <1>3, <1>4, <1>6, <1>7, <1>8, PartsStay

LEMMA DiskStays ==
    ASSUME SyncInv, UNCHANGED <<kind, swarm, disk>>
    PROVE  disk' = [config |-> disk'.config, keys |-> disk'.keys] /\ Backed(disk.config, disk.keys)'
<1>1. \A cs, k : Backed(cs, k) => Backed(cs, k)'
    BY SwarmStays, BackedStays
<1>2. QED
    BY <1>1 DEF SyncInv

LEMMA DumpFacts ==
    ASSUME SyncInv, UNCHANGED <<kind, config, keys, swarm>>, NEW ws, Dump(ws)
    PROVE  /\ undumped' \subseteq Configs
           /\ disk' = [config |-> disk'.config, keys |-> disk'.keys]
           /\ Backed(disk.config, disk.keys)'
<1> DEFINE cs == [w \in Configs |-> IF w \in ws \cap undumped THEN config[w] ELSE disk.config[w]]
           k == IF ws \cap undumped = {} THEN disk.keys ELSE keys
<1>1. disk' = [config |-> cs, keys |-> k] /\ undumped' \subseteq Configs
    BY StateFacts DEF Dump
<1>2. disk'.config = cs /\ disk'.keys = k
    BY <1>1
<1>3. Backed(cs, k)
  <2>1. cs \in [Configs -> Configuration] /\ k \in GroupKeys
    BY StateFacts
  <2>2. \A w \in Configs : cs[w] = config[w] \/ cs[w] = disk.config[w]
    OBVIOUS
  <2>3. k = keys \/ k = disk.keys
    OBVIOUS
  <2> HIDE DEF cs, k
  <2>4. \A w \in Configs : /\ ConfigInv(w, cs[w])
                           /\ cs[w].state = "clean" => cs[w].changes \subseteq Stored(w)
    BY <2>2 DEF SyncInv, Backed
  <2>5. ~k.pending => KeysMessage(k.gen) \in swarm
    BY <2>3 DEF SyncInv, Backed
  <2>6. QED
    BY <2>1, <2>4, <2>5 DEF Backed
<1> HIDE DEF cs, k
<1>4. PICK cs0, k0 : disk' = [config |-> cs0, keys |-> k0] /\ Backed(cs0, k0)
    BY <1>1, <1>3
<1>5. disk'.config = cs0 /\ disk'.keys = k0
    BY <1>4
<1>6. Backed(cs0, k0)'
    BY <1>4, SwarmStays, BackedStays
<1>7. Backed(disk.config, disk.keys)'
    BY <1>5, <1>6
<1>8. QED
    BY <1>1, <1>4, <1>5, <1>7

Phases == {"idle", "dump", "collect", "request", "reply", "confirm", "save"}

Moved(r, a, b) == [r EXCEPT !.at = a, !.phase = b]

\* a push in another phase, at another call
LEMMA MovedPush ==
    ASSUME NEW r \in Push, NEW a \in Nat \ {0}, NEW b \in Phases, NEW s, s = Moved(r, a, b)
    PROVE  /\ s \in Push /\ s.at = a /\ s.phase = b
           /\ s.sent = r.sent /\ s.old = r.old /\ s.extra = r.extra
           /\ s.ok = r.ok /\ s.results = r.results
<1> DEFINE e == [r EXCEPT !.at = a]
<1>1. s = [phase |-> b, at |-> a, sent |-> r.sent, old |-> r.old,
           extra |-> r.extra, ok |-> r.ok, results |-> r.results]
  <2>1. s = [e EXCEPT !.phase = b]
    BY DEF Moved
  <2>2. e = [phase |-> r.phase, at |-> a, sent |-> r.sent, old |-> r.old,
             extra |-> r.extra, ok |-> r.ok, results |-> r.results]
    BY DEF Push
  <2> HIDE DEF e
  <2>3. QED
    BY <2>1, <2>2
<1>2. s \in Push
    BY <1>1 DEF Push, Phases
<1>3. QED
    BY <1>1, <1>2

\* how far Step takes a push
LEMMA StepFacts ==
    ASSUME SyncInv, NEW p \in Pushes, NEW phase \in {"idle", "collect", "save"}, Step(p, phase)
    PROVE  \E s \in Push :
             /\ push' = [push EXCEPT ![p] = s]
             /\ \/ s = Idle
                \/ /\ s.sent = push[p].sent /\ s.old = push[p].old /\ s.ok = push[p].ok
                   /\ s.results = push[p].results
                   /\ \/ push[p].at < Calls /\ s.at = push[p].at + 1 /\ s.phase = push[p].phase
                      \/ phase # "idle" /\ s.at = 1 /\ s.phase = phase
<1> DEFINE r == push[p]
<1>1. r \in Push /\ push \in [Pushes -> Push] /\ Idle \in Push
    BY StateFacts, IdleFacts
<1>2. CASE r.at < Calls
  <2>1. push' = [push EXCEPT ![p].at = @ + 1]
    BY <1>2 DEF Step
  <2>2. push' = [push EXCEPT ![p] = [r EXCEPT !.at = r.at + 1]]
    BY <1>1, <2>1
  <2>3. r.at + 1 \in Nat \ {0} /\ r.phase \in Phases
    BY <1>1 DEF Push, Phases
  <2> HIDE DEF r
  <2>4. PICK s : s = Moved(r, r.at + 1, r.phase)
    OBVIOUS
  <2>5. s = [r EXCEPT !.at = r.at + 1]
    BY <1>1, <2>4 DEF Push, Moved
  <2>6. /\ s \in Push /\ s.at = r.at + 1 /\ s.phase = r.phase
        /\ s.sent = r.sent /\ s.old = r.old /\ s.ok = r.ok /\ s.results = r.results
    BY <1>1, <2>3, <2>4, MovedPush
  <2>7. QED
    BY <1>2, <2>2, <2>5, <2>6 DEF r
<1>3. CASE ~(r.at < Calls) /\ phase = "idle"
  <2>1. push' = [push EXCEPT ![p] = Idle]
    BY <1>3 DEF Step
  <2>2. QED
    BY <1>1, <2>1
<1>4. CASE ~(r.at < Calls) /\ phase # "idle"
  <2>1. PICK s : s = Moved(r, 1, phase)
    OBVIOUS
  <2>2. push' = [push EXCEPT ![p] = s]
    BY <1>1, <1>4, <2>1 DEF Step, Moved
  <2> HIDE DEF r
  <2>3. /\ s \in Push /\ s.at = 1 /\ s.phase = phase
        /\ s.sent = r.sent /\ s.old = r.old /\ s.ok = r.ok /\ s.results = r.results
    <3>1. 1 \in Nat \ {0} /\ phase \in Phases
      BY DEF Phases
    <3>2. QED
      BY <1>1, <2>1, <3>1, MovedPush
  <2>4. QED
    BY <1>4, <2>2, <2>3 DEF r
<1>5. QED
    BY <1>2, <1>3, <1>4

\* Step leaves a push that can go on.
LEMMA StepGoesOn ==
    ASSUME SyncInv, NEW p \in Pushes, NEW phase, Step(p, phase),
           \/ In(p, "dump") /\ phase = "collect"
           \/ In(p, "confirm") /\ phase = "save"
           \/ In(p, "save") /\ phase = "idle"
    PROVE  \E s : GoesOn(s) /\ push' = [push EXCEPT ![p] = s]
<1> DEFINE r == push[p]
<1>1. /\ kind \in Kinds /\ r \in Push /\ GoesOn(r) /\ PushInv(r)
    BY StateFacts
<1>2. \/ r.phase = "dump" /\ phase = "collect"
      \/ r.phase = "confirm" /\ phase = "save"
      \/ r.phase = "save" /\ phase = "idle"
    BY DEF In
<1>3. PICK s \in Push :
         /\ push' = [push EXCEPT ![p] = s]
         /\ \/ s = Idle
            \/ /\ s.sent = r.sent /\ s.old = r.old /\ s.ok = r.ok
               /\ s.results = r.results
               /\ \/ r.at < Calls /\ s.at = r.at + 1 /\ s.phase = r.phase
                  \/ phase # "idle" /\ s.at = 1 /\ s.phase = phase
    BY <1>2, StepFacts
<1> HIDE DEF r
<1>4. CASE s = Idle
    BY <1>1, <1>3, <1>4, IdleFacts
<1>5. CASE /\ s.sent = r.sent /\ s.old = r.old /\ s.ok = r.ok /\ s.results = r.results
           /\ \/ r.at < Calls /\ s.at = r.at + 1 /\ s.phase = r.phase
              \/ phase # "idle" /\ s.at = 1 /\ s.phase = phase
  <2>1. s.at <= Calls /\ s.results <= Len(s.sent) + 1
    <3>1. Calls \in Nat \ {0} /\ r.at \in Nat
      BY <1>1, OrderFacts DEF Push
    <3>2. QED
      BY <1>1, <1>5, <3>1 DEF PushInv
  <2>2. CASE r.phase = "dump" /\ phase = "collect"
    <3>1. r.sent = <<>> /\ r.old = {}
      BY <1>1, <2>2 DEF PushInv
    <3>2. DOMAIN s.sent = {}
      BY <1>5, <3>1
    <3>3. s.phase \in {"dump", "collect"}
      BY <1>5, <2>2
    <3>4. PushInv(s)
      BY <1>5, <2>1, <3>1, <3>2, <3>3 DEF PushInv
    <3>5. GoesOn(s)
      BY <1>1, <1>5, <3>1, <3>3, <3>4, NothingSent
    <3>6. QED
      BY <1>3, <3>5
  <2>3. CASE (r.phase = "confirm" /\ phase = "save") \/ (r.phase = "save" /\ phase = "idle")
    <3>1. s.phase \in {"confirm", "save"} /\ (s.phase = "confirm" => r.phase = "confirm")
      BY <1>5, <2>3
    <3>2. PushInv(s)
      BY <2>1, <3>1 DEF PushInv
    <3>3. GoesOn(s)
      BY <1>1, <1>5, <3>1, <3>2, SameSent
    <3>4. QED
      BY <1>3, <3>3
  <2>4. QED
    BY <1>2, <2>2, <2>3
<1>6. QED
    BY <1>3, <1>4, <1>5

LEMMA StartPushInv ==
    ASSUME SyncInv, NEW p \in Pushes, StartPush(p)
    PROVE  SyncInv'
<1>1. PICK s : s = Moved(Idle, Idle.at, "dump")
    OBVIOUS
<1>2. push' = [push EXCEPT ![p] = s]
  <2>1. s = [Idle EXCEPT !.phase = "dump"]
    BY <1>1, StateFacts, IdleFacts DEF Moved, Push
  <2>2. QED
    BY <2>1 DEF StartPush
<1>3. GoesOn(s)
  <2>1. 1 \in Nat \ {0} /\ "dump" \in Phases
    BY DEF Phases
  <2>2. kind \in Kinds /\ Idle \in Push /\ Idle.at = 1
    BY StateFacts, IdleFacts
  <2>3. /\ s \in Push /\ s.at = 1 /\ s.phase = "dump" /\ s.sent = <<>> /\ s.old = {}
        /\ s.results = 0
    BY <1>1, <2>1, <2>2, MovedPush, IdleFacts
  <2>4. 1 <= Calls /\ Len(s.sent) = 0
    BY <2>2, <2>3, OrderFacts
  <2>5. PushInv(s)
    BY <2>3, <2>4 DEF PushInv
  <2>6. QED
    BY <2>2, <2>3, <2>5, NothingSent
<1>4. UNCHANGED <<kind, config, keys, undumped, disk, polled, swarm, stray, made>>
    BY DEF StartPush, memory, bounds
<1>5. QED
    BY <1>2, <1>3, <1>4, PushMoves, DiskStays, StateFacts

LEMMA saveDumpsToDbInv ==
    ASSUME SyncInv, NEW p \in Pushes,
           saveDumpsToDb(p, "dump", "collect") \/ saveDumpsToDb(p, "save", "idle")
    PROVE  SyncInv'
<1>1. /\ UNCHANGED <<kind, config, keys, polled, swarm, stray, made>>
      /\ Dump(Chunk(push[p].at))
      /\ (In(p, "dump") /\ Step(p, "collect")) \/ (In(p, "save") /\ Step(p, "idle"))
    BY DEF saveDumpsToDb, bounds
<1>2. PICK s : GoesOn(s) /\ push' = [push EXCEPT ![p] = s]
    BY <1>1, StepGoesOn
<1>3. /\ undumped' \subseteq Configs
      /\ disk' = [config |-> disk'.config, keys |-> disk'.keys]
      /\ Backed(disk.config, disk.keys)'
    BY <1>1, DumpFacts
<1>4. QED
    BY <1>1, <1>2, <1>3, PushMoves, StateFacts

LEMMA DumpFailsInv ==
    ASSUME SyncInv, NEW p \in Pushes, DumpFails(p)
    PROVE  SyncInv'
<1>1. /\ UNCHANGED <<kind, config, keys, disk, polled, swarm, stray, made>>
      /\ undumped' \subseteq undumped
      /\ \/ End(p)
         \/ In(p, "dump") /\ Step(p, "collect")
         \/ In(p, "save") /\ Step(p, "idle")
    BY DEF DumpFails, In
<1>2. PICK s : GoesOn(s) /\ push' = [push EXCEPT ![p] = s]
  <2>1. CASE End(p)
    BY <2>1, StateFacts, IdleFacts DEF End
  <2>2. QED
    BY <1>1, <2>1, StepGoesOn
<1>3. QED
    BY <1>1, <1>2, PushMoves, DiskStays, StateFacts

LEMMA HandleReplyInv ==
    ASSUME SyncInv, NEW p \in Pushes, HandleReply(p)
    PROVE  SyncInv'
<1>1. /\ UNCHANGED <<kind, config, keys, undumped, disk, polled, swarm, stray, made>>
      /\ In(p, "reply")
      /\ End(p) \/ push' = [push EXCEPT ![p].phase = "confirm"]
    BY DEF HandleReply, memory, bounds
<1> DEFINE r == push[p]
<1>2. r \in Push /\ GoesOn(r) /\ PushInv(r) /\ push \in [Pushes -> Push] /\ r.phase = "reply"
    BY <1>1, StateFacts DEF In
<1>3. PICK s : GoesOn(s) /\ push' = [push EXCEPT ![p] = s]
  <2>1. CASE End(p)
    BY <2>1, StateFacts, IdleFacts DEF End
  <2>2. CASE push' = [push EXCEPT ![p].phase = "confirm"]
    <3>1. push' = [push EXCEPT ![p] = [r EXCEPT !.phase = "confirm"]]
      BY <1>2, <2>2
    <3>2. r.at \in Nat \ {0} /\ "confirm" \in Phases
      BY <1>2 DEF Push, Phases
    <3> HIDE DEF r
    <3>3. PICK s : s = Moved(r, r.at, "confirm")
      OBVIOUS
    <3>4. s = [r EXCEPT !.phase = "confirm"]
      BY <1>2, <3>3 DEF Push, Moved
    <3>5. /\ s \in Push /\ s.at = r.at /\ s.phase = "confirm" /\ s.sent = r.sent
          /\ s.old = r.old /\ s.ok = r.ok /\ s.results = r.results
      BY <1>2, <3>2, <3>3, MovedPush
    <3>6. PushInv(s)
      BY <1>2, <3>5 DEF PushInv
    <3>7. GoesOn(s)
      BY <1>2, <3>5, <3>6, SameSent
    <3>8. QED
      BY <3>1, <3>4, <3>7
  <2>3. QED
    BY <1>1, <2>1, <2>2
<1>4. QED
    BY <1>1, <1>3, PushMoves, DiskStays, StateFacts

LEMMA RequestFailsInv ==
    ASSUME SyncInv, NEW p \in Pushes, RequestFails(p)
    PROVE  SyncInv'
<1>1. /\ UNCHANGED <<kind, config, keys, undumped, disk, polled, swarm, made>>
      /\ UNCHANGED push \/ End(p)
      /\ \A q \in stray' : q \in stray \/ q = SortedSubRequests(push[p])
    BY DEF RequestFails, memory
<1>2. PICK s : GoesOn(s) /\ push' = [push EXCEPT ![p] = s]
  <2>1. CASE End(p)
    BY <2>1, StateFacts, IdleFacts DEF End
  <2>2. CASE UNCHANGED push
    <3>1. push' = [push EXCEPT ![p] = push[p]]
      BY <2>2, StateFacts
    <3>2. QED
      BY <3>1, StateFacts
  <2>3. QED
    BY <1>1, <2>1, <2>2
<1>3. \A q \in stray' : q \in stray \/ Sendable(q)
    BY <1>1, StateFacts
<1>4. QED
    BY <1>1, <1>2, <1>3, PushMoves, DiskStays, StateFacts

-----------------------------------------------------------------------------
(* Requests that are served *)

Replied(r, ok, results) == [r EXCEPT !.phase = "reply", !.ok = ok, !.results = results]

LEMMA RepliedPush ==
    ASSUME NEW r \in Push, NEW ok, NEW results, ok \in Nat, results \in Nat,
           NEW s, s = Replied(r, ok, results)
    PROVE  /\ s \in Push /\ s.at = r.at /\ s.phase = "reply"
           /\ s.sent = r.sent /\ s.old = r.old /\ s.extra = r.extra
           /\ s.ok = ok /\ s.results = results
<1> DEFINE e == [r EXCEPT !.phase = "reply"]
           f == [e EXCEPT !.ok = ok]
<1>1. s = [f EXCEPT !.results = results]
    BY DEF Replied
<1>2. e = [phase |-> "reply", at |-> r.at, sent |-> r.sent, old |-> r.old,
           extra |-> r.extra, ok |-> r.ok, results |-> r.results]
    BY DEF Push
<1> HIDE DEF e
<1>3. f = [phase |-> "reply", at |-> r.at, sent |-> r.sent, old |-> r.old,
           extra |-> r.extra, ok |-> ok, results |-> r.results]
    BY <1>2
<1> HIDE DEF f
<1>4. s = [phase |-> "reply", at |-> r.at, sent |-> r.sent, old |-> r.old,
           extra |-> r.extra, ok |-> ok, results |-> results]
    BY <1>1, <1>3
<1>5. s \in Push
    BY <1>4 DEF Push
<1>6. QED
    BY <1>4, <1>5

\* the node has run requests up to the n-th
LEMMA ServeRequestInv ==
    ASSUME SyncInv, NEW p \in Pushes, ServeRequest(p)
    PROVE  SyncInv' /\ SwarmGrows
<1> DEFINE r == push[p]
<1>0. PICK q : q = SortedSubRequests(r)
    OBVIOUS
<1>1. /\ UNCHANGED <<kind, config, keys, undumped, disk, polled, stray, made>>
      /\ \E n \in 1..Len(q) :
           /\ swarm' = Served(swarm, SubSeq(q, 1, n))
           /\ push' = [push EXCEPT ![p].phase = "reply", ![p].ok = n,
                         ![p].results = IF n = Len(q) THEN n ELSE n + 1]
    BY <1>0 DEF ServeRequest, memory
<1>2. /\ kind \in Kinds /\ SwarmInv /\ r \in Push /\ GoesOn(r) /\ PushInv(r) /\ Sendable(q)
      /\ push \in [Pushes -> Push]
    BY <1>0, StateFacts
<1>3. PICK n \in 1..Len(q) :
         /\ swarm' = Served(swarm, SubSeq(q, 1, n))
         /\ push' = [push EXCEPT ![p].phase = "reply", ![p].ok = n,
                       ![p].results = IF n = Len(q) THEN n ELSE n + 1]
    BY <1>1
<1>4. PICK k, s : k = (IF n = Len(q) THEN n ELSE n + 1) /\ s = Replied(r, n, k)
    OBVIOUS
<1>5. push' = [push EXCEPT ![p] = s]
  <2>1. push' = [push EXCEPT ![p].phase = "reply", ![p].ok = n, ![p].results = k]
    BY <1>3, <1>4
  <2>2. s = [push[p] EXCEPT !.phase = "reply", !.ok = n, !.results = k]
    BY <1>4 DEF Replied
  <2>3. push' = [push EXCEPT ![p] = [push[p] EXCEPT !.phase = "reply", !.ok = n, !.results = k]]
    BY <1>2, <2>1
  <2>4. QED
    BY <2>2, <2>3
<1>6. /\ q \in Seq(Requests) /\ Orderly(q) /\ KeysLead(q)
      /\ Len(q) \in Nat /\ DOMAIN q = 1..Len(q)
      /\ Len(r.sent) \in Nat /\ DOMAIN r.sent = 1..Len(r.sent)
      /\ Len(q) = IF r.old = {} THEN Len(r.sent) ELSE Len(r.sent) + 1
      /\ \A i \in 1..Len(r.sent) : q[i] = r.sent[i]
      /\ r.old # {} => q[Len(r.sent) + 1] = DeleteHashes(r.old)
    BY <1>0, <1>2, SentFacts DEF Sendable
<1>7. \A i, j : Known(i, j)' = Known(i, j)
    BY DEF Known
<1>8. SwarmInv' /\ SwarmGrows
    BY <1>1, <1>2, <1>3, <1>6, SwarmServed
<1>9. \A i \in 1..n :
        q[i].ns \in Configs /\ (\A j \in 1..Len(q) : q[j].ns = q[i].ns => j <= n)
            => q[i].changes \subseteq Stored(q[i].ns)'
    BY <1>1, <1>2, <1>3, <1>6, SwarmServed
<1>10. n \in Nat /\ n <= Len(q) /\ k \in Nat /\ k <= Len(r.sent) + 1
  <2> DEFINE a == Len(q)
             b == Len(r.sent)
  <2>1. a \in Nat /\ b \in Nat /\ a <= b + 1 /\ n \in 1..a
    BY <1>6
  <2> HIDE DEF a, b
  <2>2. n \in Nat /\ n <= a /\ k \in Nat /\ k <= b + 1
    BY <1>4, <2>1 DEF a
  <2>3. QED
    BY <2>2 DEF a, b
<1>11. /\ s \in Push /\ s.at = r.at /\ s.phase = "reply" /\ s.sent = r.sent /\ s.old = r.old
       /\ s.extra = r.extra /\ s.ok = n /\ s.results = k
  <2>1. s = Replied(r, n, k) /\ r \in Push /\ n \in Nat /\ k \in Nat
    BY <1>2, <1>4, <1>10
  <2> HIDE DEF r
  <2>2. QED
    BY <2>1, RepliedPush
<1>12. SortedSubRequests(s) = q
    BY <1>0, <1>11 DEF SortedSubRequests
<1> HIDE DEF r
<1>13. GoesOn(s)'
  <2>1. Configs' = Configs /\ Push' = Push /\ Calls' = Calls
    BY <1>1, KindStays
  <2>2. PushInv(s)'
    BY <1>2, <1>10, <1>11, <2>1 DEF PushInv
  <2>3. SentIsKnown(s)'
    BY <1>1, <1>2, <1>7, <1>11, <2>1 DEF GoesOn, SentIsKnown
  <2>4. ASSUME NEW w \in Configs, \A i \in Indexes(s, w) : i <= s.ok, NEW i \in Indexes(s, w)
        PROVE  s.sent[i].changes \subseteq Stored(w)'
    <3>1. \A j : j \in Indexes(s, w) <=> j \in 1..Len(r.sent) /\ r.sent[j].ns = w
      BY <1>11 DEF Indexes
    <3>2. i \in 1..n /\ q[i] = r.sent[i] /\ q[i].ns = w
      BY <1>6, <1>10, <1>11, <2>4, <3>1
    <3>3. ASSUME NEW j \in 1..Len(q), q[j].ns = w
          PROVE  j <= n
      <4>1. CASE j \in 1..Len(r.sent)
        BY <1>6, <1>11, <2>4, <3>1, <3>3, <4>1
      <4>2. CASE j \notin 1..Len(r.sent)
        <5>1. r.old # {} /\ j = Len(r.sent) + 1
          BY <1>6, <4>2
        <5>2. q[j].ns = "delete"
          BY <1>6, <5>1 DEF DeleteHashes
        <5>3. QED
          BY <1>2, <3>3, <5>2, OrderFacts
      <4>3. QED
        BY <4>1, <4>2
    <3>4. q[i].changes \subseteq Stored(q[i].ns)'
      BY <1>9, <2>4, <3>2, <3>3
    <3>5. QED
      BY <1>11, <3>2, <3>4
  <2>5. \A w : Indexes(s, w)' = Indexes(s, w)
    BY DEF Indexes
  <2>6. ServedIsStored(s)'
    BY <2>1, <2>4, <2>5 DEF ServedIsStored
  <2>7. Sendable(SortedSubRequests(s))'
    BY <1>1, <1>2, <1>8, <1>12, SendableStays
  <2>8. QED
    BY <1>11, <2>1, <2>2, <2>3, <2>6, <2>7 DEF GoesOn
<1>14. \A cs, ks : Backed(cs, ks) => Backed(cs, ks)'
    BY <1>1, <1>8, BackedStays
<1>15. /\ Backed(config, keys)' /\ Backed(disk.config, disk.keys)'
       /\ disk' = [config |-> disk'.config, keys |-> disk'.keys]
    BY <1>1, <1>14 DEF SyncInv
<1>16. /\ push' = [x \in Pushes |-> push'[x]]
       /\ \A x \in Pushes : push'[x] = push[x] \/ GoesOn(push[x])'
  <2>1. push'[p] = s /\ \A x \in Pushes : x # p => push'[x] = push[x]
    BY <1>2, <1>5
  <2>2. push' = [x \in Pushes |-> push'[x]]
    BY <1>2, <1>5
  <2>3. QED
    BY <1>13, <2>1, <2>2
<1>17. /\ made' \subseteq AllChanges /\ undumped' \subseteq Configs /\ polled' \subseteq Configs
       /\ \A w \in Configs : Onward(config[w], config'[w])
    BY <1>1, StateFacts
<1>18. QED
    BY <1>1, <1>8, <1>15, <1>16, <1>17, PartsStay

\* Nothing but the swarm changes, and what others have made.
LEMMA OthersStay ==
    ASSUME SyncInv, UNCHANGED <<kind, config, keys, undumped, disk, polled, push>>,
           made' \subseteq AllChanges, SwarmInv', SwarmGrows, stray' \subseteq stray
    PROVE  SyncInv'
<1>1. \A cs, k : Backed(cs, k) => Backed(cs, k)'
    BY BackedStays
<1>2. /\ Backed(config, keys)' /\ Backed(disk.config, disk.keys)'
      /\ disk' = [config |-> disk'.config, keys |-> disk'.keys]
    BY <1>1 DEF SyncInv
<1>3. /\ push' = [x \in Pushes |-> push'[x]]
      /\ \A x \in Pushes : push'[x] = push[x]
    BY DEF SyncInv
<1>4. /\ undumped' \subseteq Configs /\ polled' \subseteq Configs
      /\ \A w \in Configs : Onward(config[w], config'[w])
    BY StateFacts
<1>5. QED
    BY <1>2, <1>3, <1>4, PartsStay

LEMMA ServeStrayInv ==
    ASSUME SyncInv, ServeStray
    PROVE  SyncInv' /\ SwarmGrows
<1>1. /\ UNCHANGED <<kind, config, keys, undumped, disk, polled, push, made>>
      /\ \E q \in stray : swarm' = Served(swarm, q) /\ stray' = stray \ {q}
    BY DEF ServeStray, memory, bounds
<1>2. PICK q \in stray : swarm' = Served(swarm, q) /\ stray' = stray \ {q}
    BY <1>1
<1>3. q \in Seq(Requests) /\ Orderly(q) /\ KeysLead(q)
    BY DEF SyncInv, Sendable
<1>4. Len(q) \in Nat /\ DOMAIN q = 1..Len(q)
    BY <1>3, LenProperties
<1>5. SwarmInv' /\ SwarmGrows
  <2>1. CASE Len(q) = 0
    <3>1. DOMAIN q = {}
      BY <1>4, <2>1
    <3>2. \A x : x \in swarm' <=> x \in swarm
      BY <1>2, <3>1, ServedIs
    <3>3. swarm' = swarm
      BY <3>2
    <3>4. QED
      BY <1>1, <3>3, SwarmStays, StateFacts
  <2>2. CASE Len(q) # 0
    <3>1. SubSeq(q, 1, Len(q)) = q
      BY <1>3, SubSeqFull
    <3>2. PICK n \in 1..Len(q) : n = Len(q)
      <4> DEFINE k == Len(q)
      <4>1. k \in Nat /\ k # 0
        BY <1>4, <2>2
      <4> HIDE DEF k
      <4>2. k \in 1..k
        BY <4>1
      <4>3. QED
        BY <4>2 DEF k
    <3>3. swarm' = Served(swarm, SubSeq(q, 1, n))
      BY <1>2, <3>1, <3>2
    <3>4. QED
      BY <1>1, <1>3, <3>3, SwarmServed, StateFacts
  <2>3. QED
    BY <2>1, <2>2
<1>6. made' \subseteq AllChanges /\ stray' \subseteq stray
    BY <1>1, <1>2, StateFacts
<1>7. QED
    BY <1>1, <1>5, <1>6, OthersStay

-----------------------------------------------------------------------------
(* Other devices *)

\* A device stores its version and deletes those it has merged, whose number
\* is lower and whose changes it has.
LEMMA OtherDeviceInv ==
    ASSUME SyncInv, NEW w \in Configs, NEW c \in TheirChanges, OtherDevice(w, c)
    PROVE  SyncInv' /\ SwarmGrows
<1>1. /\ UNCHANGED <<kind, config, keys, undumped, disk, polled, push, stray>>
      /\ made' = made \cup {c}
    BY DEF OtherDevice, memory
<1>2. PICK merged, k, seqno, changes :
         /\ merged \in SUBSET Versions(w, swarm) /\ k \in KeysOnSwarm
         /\ seqno = Max({0} \cup {v.seqno : v \in merged}) + 1
         /\ changes = {c} \cup UNION {v.changes : v \in merged}
         /\ swarm' = (swarm \cup ToSet(Content(w, seqno, changes, k.gen)))
                         \ UNION {v.hashes : v \in merged}
    BY DEF OtherDevice
<1>3. /\ \A v \in merged :
           /\ v.seqno \in Nat /\ v.changes \in SUBSET AllChanges
           /\ v.hashes \in SUBSET Messages
           /\ \A m \in v.hashes : m.ns = w /\ m.seqno = v.seqno /\ m.changes = v.changes
      /\ {v.seqno : v \in merged} \subseteq Nat /\ IsFiniteSet({v.seqno : v \in merged})
  <2>1. SwarmInv /\ merged \subseteq Versions(w, swarm)
    BY <1>2, StateFacts
  <2>2. \A v \in merged :
          /\ v.seqno \in Nat /\ v.changes \in SUBSET AllChanges
          /\ v.hashes \in SUBSET Messages
          /\ \A m \in v.hashes : m.ns = w /\ m.seqno = v.seqno /\ m.changes = v.changes
          /\ v.hashes \subseteq swarm
          /\ v.changes \subseteq StoredIn(w, swarm)
    BY <2>1, FetchedFacts
  <2>3. IsFiniteSet({v.seqno : v \in merged})
    BY <2>1, FetchedFacts
  <2>4. QED
    BY <2>2, <2>3
<1>4. seqno \in Nat /\ \A v \in merged : v.seqno < seqno
  <2> DEFINE T == {v.seqno : v \in merged}
             S == {0} \cup T
  <2>1. \A v \in merged : v.seqno \in S /\ v.seqno \in Nat
    BY <1>3
  <2>2. S \subseteq Nat /\ S # {}
    BY <1>3
  <2>3. IsFiniteSet(S)
    <3>1. IsFiniteSet(T) /\ IsFiniteSet({0})
      BY <1>3, FS_Singleton
    <3> HIDE DEF T
    <3>2. QED
      BY <3>1, FS_Union
  <2>4. seqno = Max(S) + 1
    BY <1>2
  <2> HIDE DEF S
  <2>5. Max(S) \in Nat /\ \A n \in S : n <= Max(S)
    BY <2>2, <2>3, MaxFacts
  <2>6. QED
    BY <2>1, <2>4, <2>5
<1>5. changes \in SUBSET AllChanges /\ \A v \in merged : v.changes \subseteq changes
    BY <1>2, <1>3 DEF AllChanges
<1>6. k \in swarm /\ k.gen \in 0..MaxGen /\ k = KeysMessage(k.gen)
    BY <1>2, StateFacts DEF KeysOnSwarm, SwarmInv, Messages
<1>7. PICK x : x = [ns |-> w, seqno |-> seqno, changes |-> changes, gen |-> k.gen, part |-> 1]
    OBVIOUS
<1>8. x \in Messages /\ x.ns = w /\ x.seqno = seqno /\ x.changes = changes /\ x.gen = k.gen
  <2>1. 1 \in 1..Parts
    BY PartsAssumption
  <2>2. QED
    BY <1>4, <1>5, <1>6, <1>7, <2>1 DEF Messages, AllChanges
<1>9. Version(x) = ToSet(Content(w, seqno, changes, k.gen))
    BY <1>8 DEF Version
<1>10. /\ x \in Version(x) /\ IsFiniteSet(Version(x))
       /\ \A y \in Version(x) : /\ y \in Messages /\ y.ns = w /\ y.seqno = seqno
                                /\ y.gen = k.gen
    BY <1>8, VersionFacts
<1>11. /\ swarm' \subseteq swarm \cup Version(x)
       /\ \A y \in Version(x) : y \in swarm'
       /\ \A y \in swarm \ swarm' : \E v \in merged : y \in v.hashes
  <2>1. \A y : y \in swarm' <=> y \in swarm \cup Version(x) /\ \A v \in merged : y \notin v.hashes
    BY <1>2, <1>9
  <2>2. ASSUME NEW y \in Version(x), NEW v \in merged, y \in v.hashes
        PROVE  FALSE
    <3>1. y.seqno = seqno /\ y.seqno = v.seqno /\ v.seqno < seqno
      BY <1>3, <1>4, <1>10, <2>2
    <3>2. QED
      BY <1>4, <3>1
  <2>3. QED
    BY <2>1, <2>2
<1>12. SwarmGrows
  <2>1. ASSUME NEW gen, KeysMessage(gen) \in swarm
        PROVE  KeysMessage(gen) \in swarm'
    <3>1. KeysMessage(gen).ns # w
      BY StateFacts, KeysMessageFacts
    <3>2. QED
      BY <1>3, <1>11, <2>1, <3>1
  <2>2. ASSUME NEW u \in Configs
        PROVE  Stored(u) \subseteq Stored(u)'
    <3>1. ASSUME NEW m \in swarm \ swarm', m.ns = u
          PROVE  \E n \in swarm' : /\ n.ns = u /\ Version(n) \subseteq swarm'
                                   /\ m.changes \subseteq n.changes
      <4>1. PICK v \in merged : m \in v.hashes
        BY <1>11
      <4>2. m.ns = w /\ m.changes = v.changes
        BY <1>3, <4>1
      <4>3. m.changes \subseteq x.changes
        BY <1>5, <1>8, <4>2
      <4>4. QED
        BY <1>8, <1>10, <1>11, <3>1, <4>2, <4>3
    <3>2. swarm \subseteq Messages
      BY StateFacts DEF SwarmInv
    <3>3. StoredIn(u, swarm) \subseteq StoredIn(u, swarm')
      BY <3>1, <3>2, StoredGrows
    <3>4. QED
      BY <3>3, StoredIsIn
  <2>3. QED
    BY <2>1, <2>2 DEF SwarmGrows
<1>13. SwarmInv'
  <2>1. SwarmInv /\ Messages' = Messages /\ kind \in Kinds
    BY <1>1, StateFacts, KindStays
  <2>2. IsFiniteSet(swarm')
    <3>1. IsFiniteSet(swarm \cup Version(x))
      BY <1>10, <2>1, FS_Union DEF SwarmInv
    <3>2. QED
      BY <1>11, <3>1, FS_Subset
  <2>3. swarm' \subseteq Messages /\ KeysMessage(0) \in swarm'
    BY <1>10, <1>11, <1>12, <2>1 DEF SwarmInv, SwarmGrows
  <2>4. ASSUME NEW m \in swarm'
        PROVE  KeysMessage(m.gen) \in swarm' /\ (m.ns = "GroupKeys" => m = KeysMessage(m.gen))
    <3>1. CASE m \in swarm
      BY <1>12, <2>1, <3>1 DEF SwarmInv, SwarmGrows
    <3>2. CASE m \in Version(x)
      <4>1. m.ns # "GroupKeys" /\ m.gen = k.gen
        BY <1>10, <2>1, <3>2, OrderFacts
      <4>2. KeysMessage(k.gen) \in swarm'
        BY <1>6, <1>12 DEF SwarmGrows
      <4>3. QED
        BY <4>1, <4>2
    <3>3. QED
      BY <1>11, <3>1, <3>2
  <2>5. QED
    BY <2>1, <2>2, <2>3, <2>4 DEF SwarmInv
<1>14. made' \subseteq AllChanges /\ stray' \subseteq stray
    BY <1>1, StateFacts DEF AllChanges
<1>15. QED
    BY <1>1, <1>12, <1>13, <1>14, OthersStay

-----------------------------------------------------------------------------
(* What changes configurations *)

\* Configurations and keys go on, pushes too; the swarm and the dumps stay.
LEMMA ConfigsGoOn ==
    ASSUME SyncInv, UNCHANGED <<kind, swarm, disk, stray>>,
           config' \in [Configs -> Configuration], keys' \in GroupKeys,
           ~keys'.pending => KeysMessage(keys'.gen) \in swarm,
           \A w \in Configs :
               /\ ConfigInv(w, config'[w]) /\ Onward(config[w], config'[w])
               /\ config'[w].state = "clean" => config'[w].changes \subseteq Stored(w),
           made' \subseteq AllChanges, undumped' \subseteq Configs, polled' \subseteq Configs,
           push' = [p \in Pushes |-> push'[p]],
           \A p \in Pushes : push'[p] = push[p] \/ GoesOn(push[p])'
    PROVE  SyncInv'
<1>1. SwarmGrows /\ SwarmInv'
    BY SwarmStays, StateFacts
<1>2. PICK cs, k : cs = config' /\ k = keys'
    OBVIOUS
<1>3. Backed(cs, k)
    BY <1>2 DEF Backed
<1>4. Backed(cs, k)'
    BY <1>1, <1>3, BackedStays
<1>5. Backed(config, keys)'
    BY <1>2, <1>4
<1>6. disk' = [config |-> disk'.config, keys |-> disk'.keys] /\ Backed(disk.config, disk.keys)'
    BY DiskStays
<1>7. QED
    BY <1>1, <1>5, <1>6, PartsStay

LEMMA ChangeInv ==
    ASSUME SyncInv, NEW w \in Configs, NEW c \in OurChanges, Change(w, c)
    PROVE  SyncInv'
<1>1. /\ UNCHANGED <<kind, keys, disk, polled, swarm, push, stray>>
      /\ made' = made \cup {c} /\ undumped' = undumped \cup Object(w)
      /\ config' = [config EXCEPT ![w] = set(@, c)]
    BY DEF Change
<1>2. /\ kind \in Kinds /\ config \in [Configs -> Configuration] /\ keys \in GroupKeys
      /\ c \in AllChanges
    BY StateFacts DEF AllChanges
<1>3. /\ \A u \in Configs : /\ ConfigInv(u, config[u])
                            /\ config[u].state = "clean" => config[u].changes \subseteq Stored(u)
      /\ ~keys.pending => KeysMessage(keys.gen) \in swarm
    BY DEF SyncInv, Backed
<1>4. PICK d : d = set(config[w], c)
    OBVIOUS
<1>5. d \in Configuration /\ ConfigInv(w, d) /\ Onward(config[w], d) /\ d.state = "dirty"
    BY <1>2, <1>3, <1>4, SetFacts
<1>6. config' = [config EXCEPT ![w] = d]
    BY <1>1, <1>4
<1>7. config' \in [Configs -> Configuration]
    BY <1>2, <1>5, <1>6
<1>8. \A u \in Configs :
        /\ ConfigInv(u, config'[u]) /\ Onward(config[u], config'[u])
        /\ config'[u].state = "clean" => config'[u].changes \subseteq Stored(u)
    BY <1>2, <1>3, <1>5, <1>6, StateFacts
<1>9. made' \subseteq AllChanges /\ undumped' \subseteq Configs /\ polled' \subseteq Configs
    BY <1>1, <1>2, StateFacts, OrderFacts
<1>10. push' = [p \in Pushes |-> push'[p]] /\ \A p \in Pushes : push'[p] = push[p]
    BY <1>1 DEF SyncInv
<1>11. QED
    BY <1>1, <1>2, <1>3, <1>7, <1>8, <1>9, <1>10, ConfigsGoOn

\* new keys: everything is dirty
LEMMA handleMemberAddedFromUIInv ==
    ASSUME SyncInv, WithHistory => Kinds \subseteq {"user"},
           NEW p \in Pushes, handleMemberAddedFromUI(p)
    PROVE  SyncInv'
<1>1. /\ UNCHANGED <<kind, disk, polled, swarm, stray, made>>
      /\ kind = "group" /\ keys.gen < MaxGen
      /\ push' = [push EXCEPT ![p] =
           [Idle EXCEPT !.phase = "dump",
                        !.extra = IF WithHistory THEN <<SupplementalKeys(keys.gen)>> ELSE <<>>]]
      /\ keys' = [gen |-> keys.gen + 1, pending |-> TRUE]
      /\ config' = [w \in Configs |-> MarkDirty(config[w])]
      /\ undumped' = Configs
    BY DEF handleMemberAddedFromUI, keyRekey, bounds
<1>2. kind \in Kinds /\ ~WithHistory /\ WithHistory \in BOOLEAN
    BY <1>1, StateFacts, ConfigSyncAssumption
<1>3. /\ config \in [Configs -> Configuration] /\ keys \in GroupKeys
      /\ \A w \in Configs : ConfigInv(w, config[w])
    BY DEF SyncInv, Backed
<1>4. PICK s : s = [Idle EXCEPT !.phase = "dump", !.extra = <<>>]
    OBVIOUS
<1>5. push' = [push EXCEPT ![p] = s]
    BY <1>1, <1>2, <1>4
<1>6. GoesOn(s)
  <2>1. s = [phase |-> "dump", at |-> 1, sent |-> <<>>, old |-> {}, extra |-> <<>>,
             ok |-> 0, results |-> 0]
    <3> DEFINE e == [Idle EXCEPT !.phase = "dump"]
    <3>1. s = [e EXCEPT !.extra = <<>>]
      BY <1>4
    <3>2. e = [phase |-> "dump", at |-> 1, sent |-> <<>>, old |-> {}, extra |-> <<>>,
               ok |-> 0, results |-> 0]
      <4>1. Idle \in Push
        BY <1>2, IdleFacts
      <4>2. e = [phase |-> "dump", at |-> Idle.at, sent |-> Idle.sent, old |-> Idle.old,
                 extra |-> Idle.extra, ok |-> Idle.ok, results |-> Idle.results]
        BY <4>1 DEF Push
      <4> HIDE DEF e
      <4>3. QED
        BY <1>2, <4>2, IdleFacts
    <3> HIDE DEF e
    <3>3. QED
      BY <3>1, <3>2
  <2>2. <<>> \in Seq(Messages) /\ Len(<<>>) = 0
    BY EmptySeq
  <2>3. s \in Push
    BY <2>1, <2>2 DEF Push
  <2>4. 1 <= Calls
    BY <1>2, OrderFacts
  <2>5. /\ s.phase = "dump" /\ s.at = 1 /\ s.sent = <<>> /\ s.old = {} /\ s.results = 0
    BY <2>1
  <2>6. PushInv(s)
    BY <2>2, <2>4, <2>5 DEF PushInv
  <2>7. QED
    BY <1>2, <2>3, <2>5, <2>6, NothingSent
<1>7. keys' \in GroupKeys /\ keys'.pending
  <2>1. keys.gen \in 0..MaxGen /\ MaxGen \in Nat
    BY <1>3, ConfigSyncAssumption DEF GroupKeys
  <2>2. keys.gen + 1 \in 0..MaxGen
    BY <1>1, <2>1
  <2>3. QED
    BY <1>1, <2>2 DEF GroupKeys
<1>8. ASSUME NEW w \in Configs
      PROVE  /\ config'[w] \in Configuration
             /\ ConfigInv(w, config'[w]) /\ Onward(config[w], config'[w])
             /\ config'[w].state # "clean"
  <2>1. PICK d : d = MarkDirty(config[w])
    OBVIOUS
  <2>2. d \in Configuration /\ ConfigInv(w, d) /\ Onward(config[w], d) /\ d.state = "dirty"
    BY <1>3, <2>1, DirtyFacts
  <2>3. config'[w] = d
    BY <1>1, <2>1
  <2>4. QED
    BY <2>2, <2>3
<1>9. config' \in [Configs -> Configuration]
  <2>1. config' = [w \in Configs |-> config'[w]]
    BY <1>1
  <2>2. QED
    BY <1>8, <2>1
<1>10. push' = [x \in Pushes |-> push'[x]] /\ \A x \in Pushes : push'[x] = push[x] \/ GoesOn(push[x])'
  <2>1. push \in [Pushes -> Push]
    BY StateFacts
  <2>2. GoesOn(s)'
    BY <1>1, <1>6, <1>8, SwarmStays, GoesOnStays
  <2>3. push'[p] = s /\ \A x \in Pushes : x # p => push'[x] = push[x]
    BY <1>5, <2>1
  <2>4. push' = [x \in Pushes |-> push'[x]]
    BY <1>5, <2>1
  <2>5. QED
    BY <2>2, <2>3, <2>4
<1>11. made' \subseteq AllChanges /\ undumped' \subseteq Configs /\ polled' \subseteq Configs
    BY <1>1, StateFacts
<1>12. QED
    BY <1>1, <1>7, <1>8, <1>9, <1>10, <1>11, ConfigsGoOn

LEMMA MergeInv ==
    ASSUME SyncInv, NEW w \in Configs, Merge(w)
    PROVE  SyncInv'
<1>1. /\ UNCHANGED <<kind, disk, swarm, push, stray, made>>
      /\ undumped' = undumped \cup Object(w) /\ polled' = polled \cup Object(w)
      /\ config' = [u \in Configs |->
           IF u \in Object(w) /\ Fetched(u) # {} THEN merge(config[u], Fetched(u)) ELSE config[u]]
      /\ keys' = keys \/ \E k \in KeysOnSwarm : keys' = [gen |-> k.gen, pending |-> FALSE]
    BY DEF Merge, bounds
<1>2. /\ config \in [Configs -> Configuration] /\ keys \in GroupKeys
      /\ \A u \in Configs : /\ ConfigInv(u, config[u])
                            /\ config[u].state = "clean" => config[u].changes \subseteq Stored(u)
      /\ ~keys.pending => KeysMessage(keys.gen) \in swarm
    BY DEF SyncInv, Backed
<1>3. kind \in Kinds /\ SwarmInv
    BY StateFacts
<1>4. keys' \in GroupKeys /\ (~keys'.pending => KeysMessage(keys'.gen) \in swarm)
  <2>1. CASE keys' = keys
    BY <1>2, <2>1
  <2>2. CASE \E k \in KeysOnSwarm : keys' = [gen |-> k.gen, pending |-> FALSE]
    <3>1. PICK k \in KeysOnSwarm : keys' = [gen |-> k.gen, pending |-> FALSE]
      BY <2>2
    <3>2. k.gen \in 0..MaxGen /\ KeysMessage(k.gen) \in swarm
      BY <1>3 DEF KeysOnSwarm, SwarmInv, Messages
    <3>3. QED
      BY <3>1, <3>2 DEF GroupKeys
  <2>3. QED
    BY <1>1, <2>1, <2>2
<1>5. ASSUME NEW u \in Configs
      PROVE  /\ config'[u] \in Configuration
             /\ ConfigInv(u, config'[u]) /\ Onward(config[u], config'[u])
             /\ config'[u].state = "clean" => config'[u].changes \subseteq Stored(u)
  <2>1. CASE u \in Object(w) /\ Fetched(u) # {}
    <3>1. PICK vs, d : vs = Fetched(u) /\ d = merge(config[u], vs)
      OBVIOUS
    <3>2. vs \subseteq Versions(u, swarm)
      BY <3>1 DEF Fetched
    <3>3. /\ d \in Configuration /\ ConfigInv(u, d) /\ Onward(config[u], d)
          /\ d.state = "clean" =>
               \/ d.changes = config[u].changes /\ config[u].state = "clean"
               \/ d.changes \subseteq StoredIn(u, swarm)
      BY <1>2, <1>3, <3>1, <3>2, MergedFacts
    <3>4. config'[u] = d
      BY <1>1, <2>1, <3>1
    <3>5. QED
      BY <1>2, <3>3, <3>4, StoredIsIn
  <2>2. CASE ~(u \in Object(w) /\ Fetched(u) # {})
    <3>1. config'[u] = config[u]
      BY <1>1, <2>2
    <3>2. QED
      BY <1>2, <3>1, StateFacts
  <2>3. QED
    BY <2>1, <2>2
<1>6. config' \in [Configs -> Configuration]
  <2>1. config' = [u \in Configs |-> config'[u]]
    BY <1>1
  <2>2. QED
    BY <1>5, <2>1
<1>7. made' \subseteq AllChanges /\ undumped' \subseteq Configs /\ polled' \subseteq Configs
    BY <1>1, StateFacts, OrderFacts
<1>8. push' = [p \in Pushes |-> push'[p]] /\ \A p \in Pushes : push'[p] = push[p]
    BY <1>1 DEF SyncInv
<1>9. QED
    BY <1>1, <1>4, <1>5, <1>6, <1>7, <1>8, ConfigsGoOn

LEMMA DumpMergedInv ==
    ASSUME SyncInv, NEW w \in Configs, DumpMerged(w)
    PROVE  SyncInv'
<1>1. /\ UNCHANGED <<kind, config, keys, swarm, push, stray, made>>
      /\ Dump(Object(w)) /\ polled' \subseteq polled
    BY DEF DumpMerged, bounds
<1>2. /\ undumped' \subseteq Configs
      /\ disk' = [config |-> disk'.config, keys |-> disk'.keys]
      /\ Backed(disk.config, disk.keys)'
    BY <1>1, DumpFacts
<1>3. SwarmGrows /\ SwarmInv' /\ Backed(config, keys)'
  <2>1. SwarmGrows /\ SwarmInv'
    BY <1>1, SwarmStays, StateFacts
  <2>2. \A cs, k : Backed(cs, k) => Backed(cs, k)'
    BY <1>1, <2>1, BackedStays
  <2>3. QED
    BY <1>1, <2>1, <2>2 DEF SyncInv
<1>4. push' = [p \in Pushes |-> push'[p]] /\ \A p \in Pushes : push'[p] = push[p]
    BY <1>1 DEF SyncInv
<1>5. /\ made' \subseteq AllChanges /\ polled' \subseteq Configs
      /\ \A u \in Configs : Onward(config[u], config'[u])
    BY <1>1, StateFacts
<1>6. QED
    BY <1>1, <1>2, <1>3, <1>4, <1>5, PartsStay

LEMMA IdleAfter == kind' \in Kinds => GoesOn(Idle)'
<1>1. kind \in Kinds => GoesOn(Idle)
    BY IdleFacts
<1>2. (kind \in Kinds => GoesOn(Idle))'
    BY <1>1, PTL
<1>3. QED
    BY <1>2

\* what was dumped is loaded, and every push is forgotten
LEMMA CrashInv ==
    ASSUME SyncInv, Crash
    PROVE  SyncInv'
<1>1. /\ UNCHANGED <<kind, disk, swarm, made>>
      /\ config' = disk.config /\ keys' = disk.keys /\ undumped' = {} /\ polled' = {}
      /\ push' = [p \in Pushes |-> Idle]
      /\ \A q \in stray' : q \in stray \/ \E p \in Pushes : q = SortedSubRequests(push[p])
    BY DEF Crash
<1>2. kind' \in Kinds /\ Configs' = Configs
    BY <1>1, StateFacts, KindStays
<1>3. SwarmGrows /\ SwarmInv'
    BY <1>1, SwarmStays, StateFacts
<1>4. disk' = [config |-> disk'.config, keys |-> disk'.keys] /\ Backed(disk.config, disk.keys)'
    BY <1>1, DiskStays
<1>5. Backed(config, keys)'
    BY <1>1, <1>4
<1>6. GoesOn(Idle)'
    BY <1>2, IdleAfter
<1>7. ASSUME NEW q \in stray'
      PROVE  Sendable(q)'
  <2>1. Sendable(q)
    BY <1>1, <1>7, StateFacts DEF SyncInv
  <2>2. QED
    BY <1>1, <1>3, <2>1, SendableStays
<1>8. (made \subseteq OurChanges \cup TheirChanges)'
    BY <1>1 DEF SyncInv
<1>9. push' = [p \in Pushes |-> push'[p]] /\ \A p \in Pushes : GoesOn(push[p])'
    BY <1>1, <1>6
<1>10. undumped' \subseteq Configs' /\ polled' \subseteq Configs'
    BY <1>1
<1>11. QED
    BY <1>2, <1>3, <1>4, <1>5, <1>7, <1>8, <1>9, <1>10 DEF SyncInv

-----------------------------------------------------------------------------
(* What a push collects *)

\* What was collected, obs being the obsolete messages that go with it: whole
\* versions, at most one of a configuration, newer than what is obsolete.
Whole(sent, obs) ==
    /\ \A i \in 1..Len(sent) :
         /\ sent[i].ns \in Configs =>
              /\ \A m \in Version(sent[i]) : \E j \in 1..Len(sent) : sent[j] = m
              /\ \A j \in 1..Len(sent) : sent[j].ns = sent[i].ns => sent[j] \in Version(sent[i])
         /\ sent[i].ns = "GroupKeys" => sent[i] = KeysMessage(sent[i].gen)
    /\ \A m \in obs :
         /\ m.ns \in Configs
         /\ \E i \in 1..Len(sent) : sent[i].ns = m.ns
         /\ \A i \in 1..Len(sent) : sent[i].ns = m.ns =>
              m.seqno < sent[i].seqno /\ m.changes \subseteq sent[i].changes
    /\ \A i \in 1..Len(sent) : sent[i].ns \in Configs =>
         \/ KeysMessage(sent[i].gen) \in swarm
         \/ \E j \in 1..(i - 1) : sent[j] = KeysMessage(sent[i].gen)

LEMMA SendableIsWhole ==
    ASSUME kind \in Kinds, NEW r \in Push
    PROVE  Sendable(SortedSubRequests(r)) <=> Whole(r.sent, r.old)
<1> DEFINE q == SortedSubRequests(r)
<1>1. /\ Len(r.sent) \in Nat /\ \A i \in 1..Len(r.sent) : r.sent[i] \in Messages
      /\ q \in Seq(Requests) /\ DOMAIN q = 1..Len(q)
      /\ Len(q) = IF r.old = {} THEN Len(r.sent) ELSE Len(r.sent) + 1
      /\ \A i \in 1..Len(r.sent) : q[i] = r.sent[i]
      /\ r.old # {} => q[Len(r.sent) + 1] = DeleteHashes(r.old)
    BY SentFacts
<1>2. "delete" \notin Configs \cup {"GroupKeys"}
    BY OrderFacts
<1>3. \A m \in Messages : m.ns \in Configs \cup {"GroupKeys"} /\ m.ns # "delete"
    BY <1>2 DEF Messages
<1>4. DeleteHashes(r.old).ns = "delete" /\ DeleteHashes(r.old).hashes = r.old
    BY DEF DeleteHashes
<1> HIDE DEF q
<1> DEFINE n == Len(r.sent)
           k == Len(q)
<1>5. n \in Nat /\ k \in Nat /\ k = (IF r.old = {} THEN n ELSE n + 1)
    BY <1>1
<1>6. /\ \A i \in 1..n : i \in 1..k /\ q[i] = r.sent[i] /\ r.sent[i] \in Messages
      /\ \A i \in 1..k : i \notin 1..n => r.old # {} /\ i = k /\ q[i] = DeleteHashes(r.old)
      /\ r.old # {} => k \in 1..k /\ q[k] = DeleteHashes(r.old) /\ k \notin 1..n
    BY <1>1, <1>5
<1>7. DOMAIN q = 1..k
    BY <1>1
<1> HIDE DEF n, k
<1>8. \A i \in 1..k : q[i].ns # "delete" => i \in 1..n
    BY <1>4, <1>6
<1>9. \A m : m \in ToSet(q) <=> \E j \in 1..k : q[j] = m
    BY <1>7 DEF ToSet
<1>10. ASSUME Sendable(q)
       PROVE  Whole(r.sent, r.old)
  <2>1. Orderly(q) /\ KeysLead(q)
    BY <1>10 DEF Sendable
  <2>2. ASSUME NEW i \in 1..n
        PROVE  /\ r.sent[i].ns \in Configs =>
                    /\ \A m \in Version(r.sent[i]) : \E j \in 1..n : r.sent[j] = m
                    /\ \A j \in 1..n : r.sent[j].ns = r.sent[i].ns => r.sent[j] \in Version(r.sent[i])
               /\ r.sent[i].ns = "GroupKeys" => r.sent[i] = KeysMessage(r.sent[i].gen)
    <3>1. i \in 1..k /\ q[i] = r.sent[i] /\ r.sent[i] \in Messages
      BY <1>6
    <3>2. ASSUME r.sent[i].ns \in Configs, NEW m \in Version(r.sent[i])
          PROVE  \E j \in 1..n : r.sent[j] = m
      <4>1. m \in ToSet(q) /\ m.ns = r.sent[i].ns
        BY <1>7, <2>1, <3>1, <3>2, VersionFacts DEF Orderly
      <4>2. PICK j \in 1..k : q[j] = m
        BY <1>9, <4>1
      <4>3. j \in 1..n
        BY <1>2, <1>8, <3>2, <4>1, <4>2
      <4>4. QED
        BY <1>6, <4>2, <4>3
    <3>3. ASSUME r.sent[i].ns \in Configs, NEW j \in 1..n, r.sent[j].ns = r.sent[i].ns
          PROVE  r.sent[j] \in Version(r.sent[i])
      BY <1>6, <1>7, <2>1, <3>1, <3>3 DEF Orderly
    <3>4. r.sent[i].ns = "GroupKeys" => r.sent[i] = KeysMessage(r.sent[i].gen)
      BY <1>7, <2>1, <3>1 DEF Orderly
    <3>5. QED
      BY <3>2, <3>3, <3>4
  <2>3. ASSUME NEW m \in r.old
        PROVE  /\ m.ns \in Configs
               /\ \E i \in 1..n : r.sent[i].ns = m.ns
               /\ \A i \in 1..n : r.sent[i].ns = m.ns =>
                    m.seqno < r.sent[i].seqno /\ m.changes \subseteq r.sent[i].changes
    <3>1. k \in 1..k /\ q[k] = DeleteHashes(r.old)
      BY <1>6
    <3>2. Replaced(m, q)
      BY <1>4, <1>7, <2>1, <3>1 DEF Orderly
    <3>3. m.ns \in Configs
      BY <3>2 DEF Replaced
    <3>4. PICK i \in 1..k : q[i].ns = m.ns
      BY <1>7, <3>2 DEF Replaced
    <3>5. i \in 1..n
      BY <1>2, <1>8, <3>3, <3>4
    <3>6. QED
      BY <1>6, <1>7, <3>2, <3>3, <3>4, <3>5 DEF Replaced
  <2>4. ASSUME NEW i \in 1..n, r.sent[i].ns \in Configs
        PROVE  \/ KeysMessage(r.sent[i].gen) \in swarm
               \/ \E j \in 1..(i - 1) : r.sent[j] = KeysMessage(r.sent[i].gen)
    <3>1. i \in 1..k /\ q[i] = r.sent[i]
      BY <1>6
    <3>2. \/ KeysMessage(r.sent[i].gen) \in swarm
          \/ \E j \in 1..(i - 1) : q[j] = KeysMessage(r.sent[i].gen)
      BY <1>7, <2>1, <2>4, <3>1 DEF KeysLead
    <3>3. \A j \in 1..(i - 1) : j \in 1..n
      BY <1>5 DEF n
    <3>4. QED
      BY <1>6, <3>2, <3>3
  <2>5. QED
    BY <2>2, <2>3, <2>4 DEF Whole, n
<1>11. ASSUME Whole(r.sent, r.old)
       PROVE  Sendable(q)
  <2>1. /\ \A i \in 1..n :
             /\ r.sent[i].ns \in Configs =>
                  /\ \A m \in Version(r.sent[i]) : \E j \in 1..n : r.sent[j] = m
                  /\ \A j \in 1..n : r.sent[j].ns = r.sent[i].ns => r.sent[j] \in Version(r.sent[i])
             /\ r.sent[i].ns = "GroupKeys" => r.sent[i] = KeysMessage(r.sent[i].gen)
        /\ \A m \in r.old :
             /\ m.ns \in Configs
             /\ \E i \in 1..n : r.sent[i].ns = m.ns
             /\ \A i \in 1..n : r.sent[i].ns = m.ns =>
                  m.seqno < r.sent[i].seqno /\ m.changes \subseteq r.sent[i].changes
        /\ \A i \in 1..n : r.sent[i].ns \in Configs =>
             \/ KeysMessage(r.sent[i].gen) \in swarm
             \/ \E j \in 1..(i - 1) : r.sent[j] = KeysMessage(r.sent[i].gen)
    BY <1>11 DEF Whole, n
  <2>2. ASSUME NEW i \in 1..k, q[i].ns \in Configs
        PROVE  /\ Version(q[i]) \subseteq ToSet(q)
               /\ \A j \in 1..k : q[j].ns = q[i].ns => q[j] \in Version(q[i])
               /\ \/ KeysMessage(q[i].gen) \in swarm
                  \/ \E j \in 1..(i - 1) : q[j] = KeysMessage(q[i].gen)
    <3>1. i \in 1..n /\ q[i] = r.sent[i]
      BY <1>2, <1>6, <1>8, <2>2
    <3>2. \A m \in Version(q[i]) : m \in ToSet(q)
      BY <1>6, <1>9, <2>1, <2>2, <3>1
    <3>3. ASSUME NEW j \in 1..k, q[j].ns = q[i].ns
          PROVE  q[j] \in Version(q[i])
      <4>1. j \in 1..n
        BY <1>2, <1>8, <2>2, <3>3
      <4>2. QED
        BY <1>6, <2>1, <2>2, <3>1, <3>3, <4>1
    <3>4. \A j \in 1..(i - 1) : j \in 1..n
      BY <1>5, <3>1 DEF n
    <3>5. \/ KeysMessage(q[i].gen) \in swarm
          \/ \E j \in 1..(i - 1) : q[j] = KeysMessage(q[i].gen)
      BY <1>6, <2>1, <2>2, <3>1, <3>4
    <3>6. QED
      BY <3>2, <3>3, <3>5
  <2>3. ASSUME NEW i \in 1..k, q[i].ns = "GroupKeys"
        PROVE  q[i] = KeysMessage(q[i].gen)
    BY <1>6, <1>8, <2>1, <2>3
  <2>4. ASSUME NEW i \in 1..k, q[i].ns = "delete"
        PROVE  i = k /\ \A m \in q[i].hashes : Replaced(m, q)
    <3>1. i \notin 1..n
      BY <1>3, <1>6, <2>4
    <3>2. i = k /\ q[i].hashes = r.old
      BY <1>4, <1>6, <3>1
    <3>3. ASSUME NEW m \in r.old
          PROVE  Replaced(m, q)
      <4>1. m.ns \in Configs /\ m.ns # "delete"
        BY <1>2, <2>1
      <4>2. \E j \in 1..k : q[j].ns = m.ns
        BY <1>6, <2>1
      <4>3. \A j \in 1..k : q[j].ns = m.ns =>
              m.seqno < q[j].seqno /\ m.changes \subseteq q[j].changes
        BY <1>6, <1>8, <2>1, <4>1
      <4>4. QED
        BY <1>7, <4>1, <4>2, <4>3 DEF Replaced
    <3>4. QED
      BY <3>2, <3>3
  <2>5. Orderly(q)
    BY <1>7, <2>2, <2>3, <2>4 DEF Orderly, k
  <2>6. KeysLead(q)
    BY <1>7, <2>2 DEF KeysLead
  <2>7. QED
    BY <1>1, <2>5, <2>6 DEF Sendable
<1>12. QED
    BY <1>10, <1>11 DEF q

LEMMA ConcatFacts ==
    ASSUME NEW S, NEW a \in Seq(S), NEW b \in Seq(S), NEW c, c = a \o b
    PROVE  /\ c \in Seq(S) /\ Len(a) \in Nat /\ Len(b) \in Nat /\ Len(c) = Len(a) + Len(b)
           /\ \A i \in 1..Len(a) : i \in 1..Len(c) /\ c[i] = a[i]
           /\ \A i \in 1..Len(b) : Len(a) + i \in 1..Len(c) /\ c[Len(a) + i] = b[i]
           /\ \A i \in 1..Len(c) : i \notin 1..Len(a) =>
                i - Len(a) \in 1..Len(b) /\ c[i] = b[i - Len(a)]
<1>1. /\ c \in Seq(S) /\ Len(c) = Len(a) + Len(b)
      /\ \A i \in 1..(Len(a) + Len(b)) : c[i] = IF i <= Len(a) THEN a[i] ELSE b[i - Len(a)]
    BY ConcatProperties
<1> DEFINE m == Len(a)
           n == Len(b)
<1>2. m \in Nat /\ n \in Nat
    BY LenProperties
<1>3. \A i \in 1..(m + n) : c[i] = IF i <= m THEN a[i] ELSE b[i - m]
    BY <1>1
<1>4. Len(c) = m + n
    BY <1>1
<1> HIDE DEF m, n
<1>5. \A i \in 1..m : i \in 1..(m + n) /\ i <= m
    BY <1>2
<1>6. \A i \in 1..n : m + i \in 1..(m + n) /\ ~(m + i <= m) /\ (m + i) - m = i
    BY <1>2
<1>7. \A i \in 1..(m + n) : i \notin 1..m => ~(i <= m) /\ i - m \in 1..n
    BY <1>2
<1>8. \A i \in 1..m : c[i] = a[i]
    BY <1>3, <1>5
<1>9. ASSUME NEW i \in 1..n
      PROVE  c[m + i] = b[i]
  <2>1. m + i \in 1..(m + n) /\ ~(m + i <= m) /\ (m + i) - m = i
    BY <1>6
  <2>2. c[m + i] = b[(m + i) - m]
    BY <1>3, <2>1
  <2>3. QED
    BY <2>1, <2>2
<1>10. ASSUME NEW i \in 1..(m + n), i \notin 1..m
       PROVE  c[i] = b[i - m]
    BY <1>3, <1>7, <1>10
<1>11. QED
    BY <1>1, <1>2, <1>4, <1>5, <1>6, <1>7, <1>8, <1>9, <1>10 DEF m, n

\* the version a configuration has, encrypted with the keys of generation g
Current(w, g, m) ==
    /\ m.ns = w /\ m.seqno = config[w].seqno /\ m.changes = config[w].changes /\ m.gen = g

LEMMA ChangedFacts ==
    ASSUME config \in [Configs -> Configuration], NEW w \in Configs, NEW g \in 0..MaxGen,
           NEW q, q = Changed(w, g)
    PROVE  /\ q \in Seq(Messages)
           /\ \A i \in 1..Len(q) : Current(w, g, q[i]) /\ needsPush(config[w])
           /\ needsPush(config[w]) =>
                /\ Len(q) # 0
                /\ \A m \in Messages : Current(w, g, m) => \E i \in 1..Len(q) : q[i] = m
<1> DEFINE f(i) == [ns |-> w, seqno |-> config[w].seqno, changes |-> config[w].changes,
                    gen |-> g, part |-> i]
<1>1. CASE needsPush(config[w])
  <2>1. q = [i \in 1..Parts |-> f(i)]
    BY <1>1 DEF Changed, Content
  <2>2. config[w].seqno \in Nat /\ config[w].changes \in SUBSET (OurChanges \cup TheirChanges)
    BY DEF Configuration
  <2>3. \A i \in 1..Parts : f(i) \in Messages /\ Current(w, g, f(i))
    BY <2>2 DEF Messages, Current
  <2>4. \A m \in Messages : Current(w, g, m) => m.part \in 1..Parts /\ m = f(m.part)
    BY DEF Messages, Current
  <2> HIDE DEF f
  <2>5. Parts \in Nat /\ Parts # 0
    BY PartsAssumption
  <2>6. q \in Seq(Messages) /\ Len(q) = Parts /\ \A i \in 1..Parts : q[i] = f(i)
    <3>1. q \in [1..Parts -> Messages]
      BY <2>1, <2>3
    <3>2. q \in Seq(Messages)
      BY <2>5, <3>1, SeqDef
    <3>3. DOMAIN q = 1..Parts
      BY <2>1
    <3>4. Len(q) = Parts
      <4>1. Len(q) \in Nat /\ DOMAIN q = 1..Len(q)
        BY <3>2, LenProperties
      <4> DEFINE k == Len(q)
      <4>2. k \in Nat /\ 1..k = 1..Parts
        BY <3>3, <4>1
      <4> HIDE DEF k
      <4>3. k = Parts
        BY <2>5, <4>2
      <4>4. QED
        BY <4>3 DEF k
    <3>5. QED
      BY <2>1, <3>2, <3>4
  <2>7. \A m \in Messages : Current(w, g, m) => \E i \in 1..Len(q) : q[i] = m
    BY <2>4, <2>6
  <2>8. QED
    BY <1>1, <2>3, <2>5, <2>6, <2>7
<1>2. CASE ~needsPush(config[w])
  <2>1. q = <<>>
    BY <1>2 DEF Changed
  <2>2. q \in Seq(Messages) /\ Len(q) = 0
    BY <2>1, EmptySeq
  <2>3. QED
    BY <1>2, <2>2
<1>3. QED
    BY <1>1, <1>2

\* s is all of the version w has, if it changed
OfChanged(w, g, s) ==
    /\ s \in Seq(Messages)
    /\ \A i \in 1..Len(s) : s[i].ns = w /\ Current(w, g, s[i]) /\ needsPush(config[w])
    /\ needsPush(config[w]) =>
         /\ \E i \in 1..Len(s) : s[i].ns = w
         /\ \A m \in Messages : Current(w, g, m) => \E i \in 1..Len(s) : s[i] = m

\* q is what is to be stored of the configurations in Chunk(a), and if they are
\* not there yet the keys of generation g, which it is encrypted with, come first
AfterKeys(a, g, q) ==
    /\ \A i \in 1..Len(q) : q[i].ns # "GroupKeys" =>
         /\ q[i].ns \in Chunk(a) /\ needsPush(config[q[i].ns])
         /\ Current(q[i].ns, g, q[i])
    /\ \A i \in 1..Len(q) : q[i].ns = "GroupKeys" => q[i] = KeysMessage(q[i].gen)
    /\ \A w \in Chunk(a) : needsPush(config[w]) =>
         /\ \E i \in 1..Len(q) : q[i].ns = w
         /\ \A m \in Messages : Current(w, g, m) => \E i \in 1..Len(q) : q[i] = m
    /\ \/ KeysMessage(g) \in swarm
       \/ 1 \in 1..Len(q) /\ q[1] = KeysMessage(g)

\* What the a-th call collects: all of the version of each configuration that
\* changed, after the keys it is encrypted with.
LEMMA CollectedFacts ==
    ASSUME SyncInv, NEW a \in 1..Calls, NEW q, q = Collected(a)
    PROVE  /\ q \in Seq(Messages)
           /\ \E g \in 0..MaxGen : AfterKeys(a, g, q)
<1>1. /\ kind \in Kinds /\ config \in [Configs -> Configuration] /\ keys \in GroupKeys /\ SwarmInv
    BY StateFacts
<1>2. "GroupKeys" \notin Configs
    BY <1>1, OrderFacts
<1>3. ASSUME NEW w \in Configs, NEW g \in 0..MaxGen, NEW s, s = Changed(w, g)
      PROVE  OfChanged(w, g, s)
  <2>1. /\ s \in Seq(Messages)
        /\ \A i \in 1..Len(s) : Current(w, g, s[i]) /\ needsPush(config[w])
        /\ needsPush(config[w]) =>
             /\ Len(s) # 0
             /\ \A m \in Messages : Current(w, g, m) => \E i \in 1..Len(s) : s[i] = m
    BY <1>1, <1>3, ChangedFacts
  <2>2. \A i \in 1..Len(s) : s[i].ns = w
    BY <2>1 DEF Current
  <2>3. Len(s) # 0 => 1 \in 1..Len(s)
    <3> DEFINE k == Len(s)
    <3>1. k \in Nat
      BY <2>1, LenProperties
    <3> HIDE DEF k
    <3>2. k # 0 => 1 \in 1..k
      BY <3>1
    <3>3. QED
      BY <3>2 DEF k
  <2>4. QED
    BY <2>1, <2>2, <2>3 DEF OfChanged
<1>4. CASE kind = "user"
  <2>1. PICK w \in Configs : Chunk(a) = {w} /\ q = Changed(w, 0)
    BY <1>1, <1>4, OrderFacts DEF Collected
  <2>2. 0 \in 0..MaxGen
    BY ConfigSyncAssumption
  <2>3. /\ q \in Seq(Messages)
        /\ \A i \in 1..Len(q) : q[i].ns = w /\ Current(w, 0, q[i]) /\ needsPush(config[w])
        /\ needsPush(config[w]) =>
             /\ \E i \in 1..Len(q) : q[i].ns = w
             /\ \A m \in Messages : Current(w, 0, m) => \E i \in 1..Len(q) : q[i] = m
    <3>1. OfChanged(w, 0, q)
      BY <1>3, <2>1, <2>2
    <3>2. QED
      BY <3>1 DEF OfChanged
  <2>4. KeysMessage(0) \in swarm
    BY <1>1 DEF SwarmInv
  <2>5. w # "GroupKeys"
    BY <1>2
  <2>6. AfterKeys(a, 0, q)
    BY <2>1, <2>2, <2>3, <2>4, <2>5 DEF AfterKeys
  <2>7. QED
    BY <2>2, <2>3, <2>6
<1>5. CASE kind # "user"
  <2> DEFINE g == keys.gen
  <2>1. g \in 0..MaxGen
    BY <1>1 DEF GroupKeys
  <2>2. PICK info, member : info = "GroupInfo" /\ member = "GroupMember"
    OBVIOUS
  <2>3. Chunk(a) = {info, member} /\ info \in Configs /\ member \in Configs
    <3>1. Calls = 1 /\ Chunk(1) = Configs /\ Configs = {"GroupInfo", "GroupMember"}
      BY <1>1, <1>5, OrderFacts
    <3>2. a = 1
      BY <3>1
    <3>3. QED
      BY <2>2, <3>1, <3>2
  <2>4. PICK k, s, t : k = PendingKeys /\ s = Changed(info, g) /\ t = Changed(member, g)
    OBVIOUS
  <2>5. q = (k \o s) \o t
    <3>1. q = PendingKeys \o Changed("GroupInfo", keys.gen) \o Changed("GroupMember", keys.gen)
      BY <1>5 DEF Collected
    <3>2. QED
      BY <2>2, <2>4, <3>1
  <2>6. /\ k \in Seq(Messages)
        /\ \A i \in 1..Len(k) : k[i] = KeysMessage(g)
        /\ KeysMessage(g) \in swarm \/ (1 \in 1..Len(k) /\ k[1] = KeysMessage(g))
    <3>1. KeysMessage(g) \in Messages
      BY <1>1, <2>1, KeysMessageFacts
    <3> HIDE DEF g
    <3>2. CASE keys.pending
      <4>1. k = <<KeysMessage(g)>>
        BY <2>4, <3>2 DEF PendingKeys, g
      <4>2. QED
        BY <3>1, <4>1
    <3>3. CASE ~keys.pending
      <4>1. k = <<>>
        BY <2>4, <3>3 DEF PendingKeys
      <4>2. KeysMessage(g) \in swarm
        BY <3>3 DEF SyncInv, Backed, g
      <4>3. k \in Seq(Messages) /\ Len(k) = 0
        BY <4>1, EmptySeq
      <4>4. QED
        BY <4>2, <4>3
    <3>4. QED
      BY <3>2, <3>3
  <2>7. KeysMessage(g).ns = "GroupKeys" /\ KeysMessage(g).gen = g
    BY <1>1, KeysMessageFacts
  <2>8. /\ s \in Seq(Messages)
        /\ \A i \in 1..Len(s) : /\ s[i].ns = info /\ Current(info, g, s[i])
                                /\ needsPush(config[info])
        /\ needsPush(config[info]) =>
             /\ \E i \in 1..Len(s) : s[i].ns = info
             /\ \A m \in Messages : Current(info, g, m) => \E i \in 1..Len(s) : s[i] = m
    <3>1. OfChanged(info, g, s)
      BY <1>3, <2>1, <2>3, <2>4
    <3>2. QED
      BY <3>1 DEF OfChanged
  <2>9. /\ t \in Seq(Messages)
        /\ \A i \in 1..Len(t) : /\ t[i].ns = member /\ Current(member, g, t[i])
                                /\ needsPush(config[member])
        /\ needsPush(config[member]) =>
             /\ \E i \in 1..Len(t) : t[i].ns = member
             /\ \A m \in Messages : Current(member, g, m) => \E i \in 1..Len(t) : t[i] = m
    <3>1. OfChanged(member, g, t)
      BY <1>3, <2>1, <2>3, <2>4
    <3>2. QED
      BY <3>1 DEF OfChanged
  <2> HIDE DEF g
  <2>10. PICK u : u = k \o s
    OBVIOUS
  <2>11. /\ u \in Seq(Messages)
         /\ \A i \in 1..Len(k) : i \in 1..Len(u) /\ u[i] = k[i]
         /\ \A i \in 1..Len(s) : \E j \in 1..Len(u) : u[j] = s[i]
         /\ \A i \in 1..Len(u) : i \notin 1..Len(k) => \E j \in 1..Len(s) : u[i] = s[j]
    <3>1. k \in Seq(Messages) /\ s \in Seq(Messages)
      BY <2>6, <2>8
    <3>2. /\ u \in Seq(Messages)
          /\ \A i \in 1..Len(k) : i \in 1..Len(u) /\ u[i] = k[i]
          /\ \A i \in 1..Len(s) : Len(k) + i \in 1..Len(u) /\ u[Len(k) + i] = s[i]
          /\ \A i \in 1..Len(u) : i \notin 1..Len(k) =>
               i - Len(k) \in 1..Len(s) /\ u[i] = s[i - Len(k)]
      BY <2>10, <3>1, ConcatFacts
    <3>3. QED
      BY <3>2
  <2>12. q = u \o t
    BY <2>5, <2>10
  <2>13. /\ q \in Seq(Messages)
         /\ \A i \in 1..Len(u) : i \in 1..Len(q) /\ q[i] = u[i]
         /\ \A i \in 1..Len(t) : \E j \in 1..Len(q) : q[j] = t[i]
         /\ \A i \in 1..Len(q) : i \notin 1..Len(u) => \E j \in 1..Len(t) : q[i] = t[j]
    <3>1. u \in Seq(Messages) /\ t \in Seq(Messages)
      BY <2>9, <2>11
    <3>2. /\ q \in Seq(Messages)
          /\ \A i \in 1..Len(u) : i \in 1..Len(q) /\ q[i] = u[i]
          /\ \A i \in 1..Len(t) : Len(u) + i \in 1..Len(q) /\ q[Len(u) + i] = t[i]
          /\ \A i \in 1..Len(q) : i \notin 1..Len(u) =>
               i - Len(u) \in 1..Len(t) /\ q[i] = t[i - Len(u)]
      BY <2>12, <3>1, ConcatFacts
    <3>3. QED
      BY <3>2
  <2>14. ASSUME NEW i \in 1..Len(q)
         PROVE  \/ q[i] = KeysMessage(g)
                \/ \E j \in 1..Len(s) : q[i] = s[j]
                \/ \E j \in 1..Len(t) : q[i] = t[j]
    <3>1. CASE i \notin 1..Len(u)
      BY <2>13, <3>1
    <3>2. CASE i \in 1..Len(u)
      <4>1. q[i] = u[i]
        BY <2>13, <3>2
      <4>2. CASE i \in 1..Len(k)
        <5>1. u[i] = k[i]
          BY <2>11, <4>2
        <5>2. QED
          BY <2>6, <4>1, <4>2, <5>1
      <4>3. CASE i \notin 1..Len(k)
        BY <2>11, <3>2, <4>1, <4>3
      <4>4. QED
        BY <4>2, <4>3
    <3>3. QED
      BY <3>1, <3>2
  <2>15. /\ \A j \in 1..Len(s) : \E i \in 1..Len(q) : q[i] = s[j]
         /\ \A j \in 1..Len(t) : \E i \in 1..Len(q) : q[i] = t[j]
    <3>1. ASSUME NEW j \in 1..Len(s)
          PROVE  \E i \in 1..Len(q) : q[i] = s[j]
      <4>1. PICK i \in 1..Len(u) : u[i] = s[j]
        BY <2>11, <3>1
      <4>2. i \in 1..Len(q) /\ q[i] = u[i]
        BY <2>13, <4>1
      <4>3. QED
        BY <4>1, <4>2
    <3>2. \A j \in 1..Len(t) : \E i \in 1..Len(q) : q[i] = t[j]
      BY <2>13
    <3>3. QED
      BY <3>1, <3>2
  <2>16. ASSUME NEW i \in 1..Len(q), q[i].ns # "GroupKeys"
         PROVE  /\ q[i].ns \in Chunk(a) /\ needsPush(config[q[i].ns])
                /\ Current(q[i].ns, g, q[i])
    <3>1. q[i] # KeysMessage(g)
      BY <2>7, <2>16
    <3>2. CASE \E j \in 1..Len(s) : q[i] = s[j]
      BY <2>3, <2>8, <3>2
    <3>3. CASE \E j \in 1..Len(t) : q[i] = t[j]
      BY <2>3, <2>9, <3>3
    <3>4. QED
      BY <2>14, <3>1, <3>2, <3>3
  <2>17. ASSUME NEW i \in 1..Len(q), q[i].ns = "GroupKeys"
         PROVE  q[i] = KeysMessage(q[i].gen)
    <3>1. info # "GroupKeys" /\ member # "GroupKeys"
      BY <1>2, <2>3
    <3>2. ~\E j \in 1..Len(s) : q[i] = s[j]
      BY <2>8, <2>17, <3>1
    <3>3. ~\E j \in 1..Len(t) : q[i] = t[j]
      BY <2>9, <2>17, <3>1
    <3>4. q[i] = KeysMessage(g)
      BY <2>14, <3>2, <3>3
    <3>5. QED
      BY <2>7, <3>4
  <2>18. ASSUME NEW w \in Chunk(a), needsPush(config[w])
         PROVE  /\ \E i \in 1..Len(q) : q[i].ns = w
                /\ \A m \in Messages : Current(w, g, m) => \E i \in 1..Len(q) : q[i] = m
    <3>1. CASE w = info
      <4>1. /\ \E i \in 1..Len(s) : s[i].ns = info
            /\ \A m \in Messages : Current(info, g, m) => \E i \in 1..Len(s) : s[i] = m
        BY <2>8, <2>18, <3>1
      <4>2. \E i \in 1..Len(q) : q[i].ns = info
        BY <2>15, <4>1
      <4>3. ASSUME NEW m \in Messages, Current(info, g, m)
            PROVE  \E i \in 1..Len(q) : q[i] = m
        BY <2>15, <4>1, <4>3
      <4>4. QED
        BY <3>1, <4>2, <4>3
    <3>2. CASE w = member
      <4>1. /\ \E i \in 1..Len(t) : t[i].ns = member
            /\ \A m \in Messages : Current(member, g, m) => \E i \in 1..Len(t) : t[i] = m
        BY <2>9, <2>18, <3>2
      <4>2. \E i \in 1..Len(q) : q[i].ns = member
        BY <2>15, <4>1
      <4>3. ASSUME NEW m \in Messages, Current(member, g, m)
            PROVE  \E i \in 1..Len(q) : q[i] = m
        BY <2>15, <4>1, <4>3
      <4>4. QED
        BY <3>2, <4>2, <4>3
    <3>3. QED
      BY <2>3, <3>1, <3>2
  <2>19. KeysMessage(g) \in swarm \/ (1 \in 1..Len(q) /\ q[1] = KeysMessage(g))
    BY <2>6, <2>11, <2>13
  <2>20. AfterKeys(a, g, q)
    BY <2>16, <2>17, <2>18, <2>19 DEF AfterKeys
  <2>21. QED
    BY <2>1, <2>13, <2>20
<1>6. QED
    BY <1>4, <1>5

\* that none of these messages is about a configuration of this call,
Apart(R, a) == \A i \in 1..Len(R) : R[i].ns \notin Chunk(a)
\* that o is obsolete with S, which is R and then the versions of ws,
Followed(R, S, o, ws) ==
    /\ S \in Seq(Messages) /\ Len(R) <= Len(S)
    /\ o \in SUBSET Messages
    /\ Whole(S, o)
    /\ \A i \in 1..Len(S) :
         \/ \E j \in 1..Len(R) : S[i] = R[j]
         \/ S[i].ns = "GroupKeys"
         \/ /\ S[i].ns \in ws /\ S[i].seqno = config[S[i].ns].seqno
            /\ S[i].changes = config[S[i].ns].changes

\* What was collected stays whole when the next call's is put behind it, which
\* is about other configurations.
LEMMA CollectedIsWhole ==
    ASSUME SyncInv, NEW a, a \in 1..Calls, NEW R, R \in Seq(Messages),
           NEW obs, obs \in SUBSET Messages, Whole(R, obs), Apart(R, a),
           NEW ws, ws = {w \in Chunk(a) : needsPush(config[w])},
           NEW S, S = R \o Collected(a)
    PROVE  Followed(R, S, obs \cup Obsolete(ws), ws)
<1>1. PICK q : q = Collected(a)
    OBVIOUS
<1>2. /\ kind \in Kinds /\ Chunk(a) \subseteq Configs /\ "GroupKeys" \notin Configs
      /\ config \in [Configs -> Configuration]
    BY StateFacts, OrderFacts
<1>3. q \in Seq(Messages)
    BY <1>1, CollectedFacts
<1>4. PICK g \in 0..MaxGen : AfterKeys(a, g, q)
    BY <1>1, CollectedFacts
<1> DEFINE m0 == Len(R)
           n0 == Len(q)
           k0 == Len(S)
<1>5. /\ S \in Seq(Messages) /\ m0 \in Nat /\ n0 \in Nat /\ k0 = m0 + n0
      /\ \A i \in 1..m0 : i \in 1..k0 /\ S[i] = R[i]
      /\ \A i \in 1..n0 : m0 + i \in 1..k0 /\ S[m0 + i] = q[i]
      /\ \A i \in 1..k0 : i \notin 1..m0 => i - m0 \in 1..n0 /\ S[i] = q[i - m0]
    BY <1>1, <1>3, ConcatFacts
<1>6. \A i \in 1..k0 : S[i] \in Messages
    BY <1>5, LenProperties, ElementOfSeq
<1>7. /\ \A i \in 1..n0 : q[i] \in Messages
      /\ \A i \in 1..m0 : R[i] \in Messages
    BY <1>3, LenProperties, ElementOfSeq
<1>8. /\ \A i \in 1..m0 :
           /\ R[i].ns \in Configs =>
                /\ \A m \in Version(R[i]) : \E j \in 1..m0 : R[j] = m
                /\ \A j \in 1..m0 : R[j].ns = R[i].ns => R[j] \in Version(R[i])
           /\ R[i].ns = "GroupKeys" => R[i] = KeysMessage(R[i].gen)
      /\ \A m \in obs :
           /\ m.ns \in Configs
           /\ \E i \in 1..m0 : R[i].ns = m.ns
           /\ \A i \in 1..m0 : R[i].ns = m.ns =>
                m.seqno < R[i].seqno /\ m.changes \subseteq R[i].changes
      /\ \A i \in 1..m0 : R[i].ns \in Configs =>
           \/ KeysMessage(R[i].gen) \in swarm
           \/ \E j \in 1..(i - 1) : R[j] = KeysMessage(R[i].gen)
    BY DEF Whole
<1>9. /\ \A i \in 1..n0 : q[i].ns # "GroupKeys" =>
           /\ q[i].ns \in Chunk(a) /\ needsPush(config[q[i].ns])
           /\ Current(q[i].ns, g, q[i])
      /\ \A i \in 1..n0 : q[i].ns = "GroupKeys" => q[i] = KeysMessage(q[i].gen)
      /\ \A w \in Chunk(a) : needsPush(config[w]) =>
           /\ \E i \in 1..n0 : q[i].ns = w
           /\ \A m \in Messages : Current(w, g, m) => \E i \in 1..n0 : q[i] = m
      /\ \/ KeysMessage(g) \in swarm
         \/ 1 \in 1..n0 /\ q[1] = KeysMessage(g)
    BY <1>4 DEF AfterKeys
<1>10. \A i \in 1..m0 : R[i].ns \notin Chunk(a)
    BY DEF Apart
<1> HIDE DEF m0, n0, k0
<1>11. ASSUME NEW i \in 1..k0
       PROVE  \/ i \in 1..m0 /\ S[i] = R[i] /\ S[i].ns \notin Chunk(a)
              \/ /\ i \notin 1..m0 /\ i - m0 \in 1..n0 /\ S[i] = q[i - m0]
                 /\ S[i].ns = "GroupKeys" => S[i] = KeysMessage(S[i].gen)
                 /\ S[i].ns # "GroupKeys" =>
                      S[i].ns \in Chunk(a) /\ needsPush(config[S[i].ns]) /\ Current(S[i].ns, g, S[i])
  <2>1. CASE i \in 1..m0
    BY <1>5, <1>10, <2>1
  <2>2. CASE i \notin 1..m0
    <3>1. PICK j \in 1..n0 : j = i - m0 /\ S[i] = q[j]
      BY <1>5, <2>2
    <3>2. QED
      BY <1>9, <2>2, <3>1
  <2>3. QED
    BY <2>1, <2>2
<1>12. \A w \in Configs, m \in Messages, x \in Messages :
         Current(w, g, m) /\ Current(w, g, x) => x \in Version(m)
    BY SameVersion DEF Current
<1>13. ASSUME NEW i \in 1..k0, S[i].ns \in Configs
       PROVE  /\ \A m \in Version(S[i]) : \E j \in 1..k0 : S[j] = m
              /\ \A j \in 1..k0 : S[j].ns = S[i].ns => S[j] \in Version(S[i])
              /\ \/ KeysMessage(S[i].gen) \in swarm
                 \/ \E j \in 1..(i - 1) : S[j] = KeysMessage(S[i].gen)
  <2>1. CASE i \in 1..m0
    <3>1. S[i] = R[i] /\ S[i].ns \notin Chunk(a)
      BY <1>5, <1>10, <2>1
    <3>2. ASSUME NEW m \in Version(S[i])
          PROVE  \E j \in 1..k0 : S[j] = m
      <4>1. PICK j \in 1..m0 : R[j] = m
        BY <1>8, <1>13, <2>1, <3>1, <3>2
      <4>2. QED
        BY <1>5, <4>1
    <3>3. ASSUME NEW j \in 1..k0, S[j].ns = S[i].ns
          PROVE  S[j] \in Version(S[i])
      <4>1. j \in 1..m0 /\ S[j] = R[j]
        BY <1>2, <1>11, <1>13, <3>1, <3>3
      <4>2. QED
        BY <1>8, <1>13, <2>1, <3>1, <3>3, <4>1
    <3>4. \/ KeysMessage(S[i].gen) \in swarm
          \/ \E j \in 1..(i - 1) : S[j] = KeysMessage(S[i].gen)
      <4>1. \A j \in 1..(i - 1) : j \in 1..m0
        BY <1>5, <2>1
      <4>2. \/ KeysMessage(R[i].gen) \in swarm
            \/ \E j \in 1..(i - 1) : R[j] = KeysMessage(R[i].gen)
        BY <1>8, <1>13, <2>1, <3>1
      <4>3. \A j \in 1..(i - 1) : S[j] = R[j]
        BY <1>5, <4>1
      <4>4. QED
        BY <3>1, <4>2, <4>3
    <3>5. QED
      BY <3>2, <3>3, <3>4
  <2>2. CASE i \notin 1..m0
    <3>1. /\ i - m0 \in 1..n0 /\ S[i] = q[i - m0] /\ S[i].ns # "GroupKeys"
          /\ S[i].ns \in Chunk(a) /\ needsPush(config[S[i].ns]) /\ Current(S[i].ns, g, S[i])
      BY <1>2, <1>11, <1>13, <2>2
    <3>2. S[i].gen = g
      BY <3>1 DEF Current
    <3>3. ASSUME NEW m \in Version(S[i])
          PROVE  \E j \in 1..k0 : S[j] = m
      <4>1. m \in Messages /\ Current(S[i].ns, g, m)
        BY <1>6, <3>1, VersionFacts DEF Current
      <4>2. PICK j \in 1..n0 : q[j] = m
        BY <1>9, <3>1, <4>1
      <4>3. QED
        BY <1>5, <4>2
    <3>4. ASSUME NEW j \in 1..k0, S[j].ns = S[i].ns
          PROVE  S[j] \in Version(S[i])
      <4>1. Current(S[i].ns, g, S[j])
        BY <1>11, <3>1, <3>4
      <4>2. QED
        BY <1>6, <1>12, <1>13, <3>1, <4>1
    <3>5. \/ KeysMessage(S[i].gen) \in swarm
          \/ \E j \in 1..(i - 1) : S[j] = KeysMessage(S[i].gen)
      <4>1. CASE KeysMessage(g) \in swarm
        BY <3>2, <4>1
      <4>2. CASE 1 \in 1..n0 /\ q[1] = KeysMessage(g)
        <5>1. KeysMessage(g).ns = "GroupKeys"
          BY <1>2, KeysMessageFacts
        <5>2. i - m0 # 1
          BY <3>1, <4>2, <5>1
        <5>3. m0 + 1 \in 1..(i - 1)
          <6>1. m0 \in Nat /\ n0 \in Nat /\ k0 = m0 + n0
            BY <1>5
          <6>2. i \in 1..k0 /\ i - m0 \in 1..n0
            BY <3>1
          <6>3. QED
            BY <5>2, <6>1, <6>2
        <5>4. S[m0 + 1] = KeysMessage(g)
          BY <1>5, <4>2
        <5>5. QED
          BY <3>2, <5>3, <5>4
      <4>3. QED
        BY <1>9, <4>1, <4>2
    <3>6. QED
      BY <3>3, <3>4, <3>5
  <2>3. QED
    BY <2>1, <2>2
<1>14. ASSUME NEW i \in 1..k0, S[i].ns = "GroupKeys"
       PROVE  S[i] = KeysMessage(S[i].gen)
  <2>1. CASE i \in 1..m0
    BY <1>5, <1>8, <1>14, <2>1
  <2>2. CASE i \notin 1..m0
    BY <1>11, <1>14, <2>2
  <2>3. QED
    BY <2>1, <2>2
<1>15. ASSUME NEW m \in Obsolete(ws)
       PROVE  /\ m \in Messages /\ m.ns \in ws
              /\ m.seqno < config[m.ns].seqno /\ m.changes \subseteq config[m.ns].changes
  <2>1. PICK w \in ws : m \in config[w].old
    BY DEF Obsolete
  <2>2. w \in Configs /\ ConfigInv(w, config[w]) /\ config[w] \in Configuration
    BY <1>2 DEF SyncInv, Backed
  <2>3. m \in Messages
    BY <2>1, <2>2 DEF Configuration
  <2>4. m.ns = w /\ m.seqno < config[w].seqno /\ m.changes \subseteq config[w].changes
    BY <2>1, <2>2 DEF ConfigInv
  <2>5. QED
    BY <2>3, <2>4
<1>16. \A i \in 1..k0 : i \notin 1..m0 /\ S[i].ns # "GroupKeys" =>
         /\ S[i].ns \in ws /\ S[i].seqno = config[S[i].ns].seqno
         /\ S[i].changes = config[S[i].ns].changes
    BY <1>11 DEF Current
<1>17. ASSUME NEW m \in obs \cup Obsolete(ws)
       PROVE  /\ m.ns \in Configs
              /\ \E i \in 1..k0 : S[i].ns = m.ns
              /\ \A i \in 1..k0 : S[i].ns = m.ns =>
                   m.seqno < S[i].seqno /\ m.changes \subseteq S[i].changes
  <2>1. CASE m \in obs
    <3>1. PICK j \in 1..m0 : R[j].ns = m.ns
      BY <1>8, <2>1
    <3>2. m.ns \notin Chunk(a) /\ m.ns \in Configs
      BY <1>8, <1>10, <2>1, <3>1
    <3>3. ASSUME NEW i \in 1..k0, S[i].ns = m.ns
          PROVE  m.seqno < S[i].seqno /\ m.changes \subseteq S[i].changes
      <4>1. i \in 1..m0 /\ S[i] = R[i]
        BY <1>2, <1>11, <3>2, <3>3
      <4>2. QED
        BY <1>8, <2>1, <3>3, <4>1
    <3>4. QED
      BY <1>5, <3>1, <3>2, <3>3
  <2>2. CASE m \in Obsolete(ws)
    <3>1. /\ m.ns \in ws /\ m.ns \in Chunk(a) /\ needsPush(config[m.ns]) /\ m.ns \in Configs
          /\ m.seqno < config[m.ns].seqno /\ m.changes \subseteq config[m.ns].changes
      BY <1>2, <1>15, <2>2
    <3>2. PICK j \in 1..n0 : q[j].ns = m.ns
      BY <1>9, <3>1
    <3>3. ASSUME NEW i \in 1..k0, S[i].ns = m.ns
          PROVE  m.seqno < S[i].seqno /\ m.changes \subseteq S[i].changes
      <4>1. i \notin 1..m0 /\ S[i].ns # "GroupKeys"
        BY <1>2, <1>5, <1>10, <3>1, <3>3
      <4>2. S[i].seqno = config[m.ns].seqno /\ S[i].changes = config[m.ns].changes
        BY <1>16, <3>3, <4>1
      <4>3. QED
        BY <3>1, <4>2
    <3>4. QED
      BY <1>5, <3>1, <3>2, <3>3
  <2>3. QED
    BY <2>1, <2>2
<1>18. Whole(S, obs \cup Obsolete(ws))
  <2> DEFINE o == obs \cup Obsolete(ws)
  <2>1. \A m \in o : /\ m.ns \in Configs
                     /\ \E i \in 1..k0 : S[i].ns = m.ns
                     /\ \A i \in 1..k0 : S[i].ns = m.ns =>
                          m.seqno < S[i].seqno /\ m.changes \subseteq S[i].changes
    BY <1>17
  <2> HIDE DEF o
  <2>2. Whole(S, o)
    BY <1>13, <1>14, <2>1 DEF Whole, k0
  <2>3. QED
    BY <2>2 DEF o
<1>19. \A i \in 1..k0 :
         \/ \E j \in 1..m0 : S[i] = R[j]
         \/ S[i].ns = "GroupKeys"
         \/ /\ S[i].ns \in ws /\ S[i].seqno = config[S[i].ns].seqno
            /\ S[i].changes = config[S[i].ns].changes
    BY <1>5, <1>16
<1>20. m0 <= k0
    BY <1>5
<1>21. obs \cup Obsolete(ws) \in SUBSET Messages
    BY <1>15
<1>22. QED
    BY <1>5, <1>18, <1>19, <1>20, <1>21 DEF m0, k0, Followed

-----------------------------------------------------------------------------
(* Collecting and confirming *)

\* a push that has collected more, and what is obsolete with it
Collecting(r, sent, obs, a, b) == [r EXCEPT !.sent = sent, !.old = obs, !.at = a, !.phase = b]

LEMMA CollectingPush ==
    ASSUME NEW r \in Push, NEW sent \in Seq(Messages), NEW obs \in SUBSET Messages,
           NEW a, a \in Nat \ {0}, NEW b \in Phases, NEW s, s = Collecting(r, sent, obs, a, b)
    PROVE  /\ s \in Push /\ s.at = a /\ s.phase = b /\ s.sent = sent /\ s.old = obs
           /\ s.extra = r.extra /\ s.ok = r.ok /\ s.results = r.results
<1> DEFINE e == [r EXCEPT !.sent = sent]
           f == [e EXCEPT !.old = obs]
           g == [f EXCEPT !.at = a]
<1>1. s = [g EXCEPT !.phase = b]
    BY DEF Collecting
<1>2. e = [phase |-> r.phase, at |-> r.at, sent |-> sent, old |-> r.old,
           extra |-> r.extra, ok |-> r.ok, results |-> r.results]
    BY DEF Push
<1> HIDE DEF e
<1>3. f = [phase |-> r.phase, at |-> r.at, sent |-> sent, old |-> obs,
           extra |-> r.extra, ok |-> r.ok, results |-> r.results]
    BY <1>2
<1> HIDE DEF f
<1>4. g = [phase |-> r.phase, at |-> a, sent |-> sent, old |-> obs,
           extra |-> r.extra, ok |-> r.ok, results |-> r.results]
    BY <1>3
<1> HIDE DEF g
<1>5. s = [phase |-> b, at |-> a, sent |-> sent, old |-> obs,
           extra |-> r.extra, ok |-> r.ok, results |-> r.results]
    BY <1>1, <1>4
<1>6. s \in Push
    BY <1>5 DEF Push, Phases
<1>7. QED
    BY <1>5, <1>6

\* A push goes on when configurations do, and others stay as they are.
LEMMA OnePushMoves ==
    ASSUME SyncInv, NEW p \in Pushes, NEW s, push' = [push EXCEPT ![p] = s], GoesOn(s)'
    PROVE  /\ push' = [x \in Pushes |-> push'[x]]
           /\ \A x \in Pushes : push'[x] = push[x] \/ GoesOn(push[x])'
<1>1. push \in [Pushes -> Push]
    BY StateFacts
<1>2. push'[p] = s /\ \A x \in Pushes : x # p => push'[x] = push[x]
    BY <1>1
<1>3. push' = [x \in Pushes |-> push'[x]]
    BY <1>1
<1>4. QED
    BY <1>2, <1>3

\* What is taken to be pushed when the results are read was served whole, and
\* is of the version the configuration still has.
LEMMA confirmInv ==
    ASSUME SyncInv, NEW p \in Pushes, confirm(p)
    PROVE  SyncInv'
<1> DEFINE r == push[p]
           ws == {w \in Chunk(r.at) : ConfirmedHashes(r, w) # {}}
<1>1. /\ UNCHANGED <<kind, keys, disk, polled, swarm, stray, made>>
      /\ In(p, "confirm") /\ Step(p, "save")
      /\ config' = [w \in Configs |->
           IF w \in ws THEN confirmPushed(config[w], PushedSeqno(r, w), ConfirmedHashes(r, w))
           ELSE config[w]]
      /\ undumped' = undumped \cup UNION {Object(w) : w \in {u \in ws : config'[u] # config[u]}}
    BY DEF confirm, bounds
<1>2. /\ kind \in Kinds /\ r \in Push /\ GoesOn(r) /\ PushInv(r) /\ r.phase = "confirm"
      /\ Orderly(SortedSubRequests(r))
    BY <1>1, StateFacts DEF In, Sendable
<1>3. /\ config \in [Configs -> Configuration] /\ keys \in GroupKeys
      /\ \A w \in Configs : /\ ConfigInv(w, config[w])
                            /\ config[w].state = "clean" => config[w].changes \subseteq Stored(w)
      /\ ~keys.pending => KeysMessage(keys.gen) \in swarm
    BY DEF SyncInv, Backed
<1>4. ws \subseteq Configs
  <2>1. Calls \in Nat \ {0} /\ r.at \in Nat \ {0} /\ r.at <= Calls
    BY <1>2, OrderFacts DEF Push, PushInv
  <2>2. r.at \in 1..Calls
    BY <2>1
  <2>3. Chunk(r.at) \subseteq Configs
    BY <1>2, <2>2, OrderFacts
  <2>4. QED
    BY <2>3
<1>5. \A w \in ws : ConfirmedHashes(r, w) # {}
    OBVIOUS
<1> HIDE DEF r, ws
<1>6. ASSUME NEW w \in Configs
      PROVE  /\ config'[w] \in Configuration
             /\ ConfigInv(w, config'[w]) /\ Onward(config[w], config'[w])
             /\ config'[w].state = "clean" => config'[w].changes \subseteq Stored(w)
  <2>1. CASE w \in ws
    <3>1. PICK c, n, H, d : /\ c = config[w] /\ n = PushedSeqno(r, w) /\ H = ConfirmedHashes(r, w)
                            /\ d = confirmPushed(c, n, H)
      OBVIOUS
    <3>2. config'[w] = d
      BY <1>1, <2>1, <3>1
    <3>3. c \in Configuration /\ ConfigInv(w, c)
          /\ (c.state = "clean" => c.changes \subseteq Stored(w))
      BY <1>3, <3>1
    <3>4. /\ Indexes(r, w) # {} /\ \A i \in Indexes(r, w) : i <= r.ok
          /\ \A m \in H : \E i \in Indexes(r, w) : m = r.sent[i]
      BY <1>2, <1>5, <2>1, <3>1, ConfirmedHashesFacts
    <3>5. /\ \A i \in Indexes(r, w) : i \in 1..Len(r.sent) /\ r.sent[i].ns = w
          /\ \A i, j \in Indexes(r, w) :
               r.sent[i].seqno = r.sent[j].seqno /\ r.sent[i].changes = r.sent[j].changes
          /\ \A i \in Indexes(r, w) : n = r.sent[i].seqno
      BY <1>2, <3>1, <3>4, OneVersion
    <3>6. \A i \in 1..Len(r.sent) : r.sent[i] \in Messages /\ i \in DOMAIN r.sent
      BY <1>2, SentFacts
    <3>7. \A i \in Indexes(r, w) : Known(r.sent[i], c) /\ r.sent[i].changes \subseteq Stored(w)
      BY <1>2, <3>1, <3>4, <3>5, <3>6 DEF GoesOn, SentIsKnown, ServedIsStored
    <3>8. c.state = "waiting" /\ n = c.seqno => \A i \in Indexes(r, w) : r.sent[i].changes = c.changes
      <4>1. c.seqno \in Nat
        BY <3>3 DEF Configuration
      <4>2. QED
        BY <3>5, <3>7, <4>1 DEF Known
    <3>9. /\ H \in SUBSET Messages /\ \A m \in H : m.ns = w /\ m.seqno = n
          /\ c.state = "waiting" /\ n = c.seqno => \A m \in H : m.changes = c.changes
      BY <3>4, <3>5, <3>6, <3>8
    <3>10. /\ d \in Configuration /\ ConfigInv(w, d) /\ Onward(c, d) /\ d.changes = c.changes
           /\ d.state = "clean" => c.state = "clean" \/ (c.state = "waiting" /\ n = c.seqno)
      BY <3>1, <3>3, <3>9, ConfirmedFacts
    <3>11. d.state = "clean" => d.changes \subseteq Stored(w)
      BY <3>3, <3>4, <3>7, <3>8, <3>10
    <3>12. QED
      BY <3>1, <3>2, <3>10, <3>11
  <2>2. CASE w \notin ws
    <3>1. config'[w] = config[w]
      BY <1>1, <2>2
    <3>2. QED
      BY <1>3, <3>1, StateFacts
  <2>3. QED
    BY <2>1, <2>2
<1>7. config' \in [Configs -> Configuration]
  <2>1. config' = [w \in Configs |-> config'[w]]
    BY <1>1
  <2>2. QED
    BY <1>6, <2>1
<1>8. made' \subseteq AllChanges /\ undumped' \subseteq Configs /\ polled' \subseteq Configs
  <2>1. \A w \in ws : Object(w) \subseteq Configs
    BY <1>2, <1>4, OrderFacts
  <2>2. QED
    BY <1>1, <2>1, StateFacts
<1>9. PICK s : GoesOn(s) /\ push' = [push EXCEPT ![p] = s]
    BY <1>1, StepGoesOn
<1>10. GoesOn(s)'
    BY <1>1, <1>6, <1>9, SwarmStays, GoesOnStays
<1>11. /\ push' = [x \in Pushes |-> push'[x]]
       /\ \A x \in Pushes : push'[x] = push[x] \/ GoesOn(push[x])'
    BY <1>9, <1>10, OnePushMoves
<1>12. QED
    BY <1>1, <1>3, <1>6, <1>7, <1>8, <1>11, ConfigsGoOn

\* What is collected is of versions the configurations have, and follows its keys.
LEMMA PendingChangesInv ==
    ASSUME SyncInv, NEW p \in Pushes, PendingChanges(p)
    PROVE  SyncInv'
<1>1. PICK r, a, ws, sent, obs :
        /\ r = push[p] /\ a = r.at
        /\ ws = {w \in Chunk(a) : needsPush(config[w])}
        /\ sent = r.sent \o Collected(a) /\ obs = r.old \cup Obsolete(ws)
    OBVIOUS
<1>2. /\ UNCHANGED <<kind, keys, disk, polled, swarm, stray, made>>
      /\ In(p, "collect")
      /\ config' = [w \in Configs |-> IF w \in ws THEN Pushed(config[w]) ELSE config[w]]
      /\ undumped' = undumped \cup UNION {Object(w) : w \in {u \in ws : config[u].state = "dirty"}}
      /\ \/ push' = [push EXCEPT ![p] = Idle]
         \/ push' = [push EXCEPT ![p] =
                [r EXCEPT !.sent = sent, !.old = obs,
                          !.at = IF a = Calls THEN 1 ELSE a + 1,
                          !.phase = IF a = Calls THEN "request" ELSE "collect"]]
  <2> DEFINE r0 == push[p]
             ws0 == {w \in Chunk(r0.at) : needsPush(config[w])}
             sent0 == r0.sent \o Collected(r0.at)
  <2>1. /\ UNCHANGED <<kind, keys, disk, polled, swarm, stray, made>>
        /\ In(p, "collect")
        /\ config' = [w \in Configs |-> IF w \in ws0 THEN Pushed(config[w]) ELSE config[w]]
        /\ undumped' = undumped \cup UNION {Object(w) : w \in {u \in ws0 : config[u].state = "dirty"}}
        /\ push' = [push EXCEPT ![p] =
             IF r0.at = Calls /\ sent0 = <<>> /\ r0.extra = <<>> THEN Idle
             ELSE [r0 EXCEPT !.sent = sent0, !.old = r0.old \cup Obsolete(ws0),
                             !.at = IF r0.at = Calls THEN 1 ELSE r0.at + 1,
                             !.phase = IF r0.at = Calls THEN "request" ELSE "collect"]]
    BY DEF PendingChanges, bounds
  <2>2. r0 = r /\ r0.at = a /\ ws0 = ws /\ sent0 = sent /\ r0.old \cup Obsolete(ws0) = obs
    BY <1>1
  <2> HIDE DEF r0, ws0, sent0
  <2>3. \/ push' = [push EXCEPT ![p] = Idle]
        \/ push' = [push EXCEPT ![p] =
             [r0 EXCEPT !.sent = sent0, !.old = r0.old \cup Obsolete(ws0),
                        !.at = IF r0.at = Calls THEN 1 ELSE r0.at + 1,
                        !.phase = IF r0.at = Calls THEN "request" ELSE "collect"]]
    BY <2>1
  <2>4. QED
    BY <2>1, <2>2, <2>3
<1>3. /\ kind \in Kinds /\ r \in Push /\ GoesOn(r) /\ PushInv(r) /\ r.phase = "collect"
      /\ push \in [Pushes -> Push] /\ Sendable(SortedSubRequests(r))
    BY <1>1, <1>2, StateFacts DEF In
<1>4. /\ config \in [Configs -> Configuration] /\ keys \in GroupKeys
      /\ \A w \in Configs : /\ ConfigInv(w, config[w])
                            /\ config[w].state = "clean" => config[w].changes \subseteq Stored(w)
      /\ ~keys.pending => KeysMessage(keys.gen) \in swarm
    BY DEF SyncInv, Backed
<1>5. a \in Nat /\ Calls \in Nat /\ a \in 1..Calls /\ a # 0
  <2>1. Calls \in Nat \ {0} /\ a \in Nat \ {0} /\ a <= Calls
    BY <1>1, <1>3, OrderFacts DEF Push, PushInv
  <2>2. QED
    BY <2>1
<1>6. Chunk(a) \subseteq Configs /\ ws \subseteq Configs
  <2>1. Chunk(a) \subseteq Configs
    BY <1>3, <1>5, OrderFacts
  <2>2. QED
    BY <1>1, <2>1
<1>7. ASSUME NEW w \in Configs
      PROVE  /\ config'[w] \in Configuration
             /\ ConfigInv(w, config'[w]) /\ Onward(config[w], config'[w])
             /\ config'[w].state = "clean" => config'[w].changes \subseteq Stored(w)
             /\ w \in ws => /\ config'[w].state = "waiting" /\ config'[w].seqno = config[w].seqno
                            /\ config'[w].changes = config[w].changes
  <2>1. CASE w \in ws
    <3>1. PICK c, d : c = config[w] /\ d = Pushed(c)
      OBVIOUS
    <3>2. c \in Configuration /\ ConfigInv(w, c) /\ c.state # "clean"
      BY <1>1, <1>4, <2>1, <3>1 DEF needsPush
    <3>3. /\ d \in Configuration /\ ConfigInv(w, d) /\ Onward(c, d)
          /\ d.state = "waiting" /\ d.seqno = c.seqno /\ d.changes = c.changes
      BY <3>1, <3>2, PushedFacts
    <3>4. config'[w] = d
      BY <1>2, <2>1, <3>1
    <3>5. QED
      BY <3>1, <3>3, <3>4
  <2>2. CASE w \notin ws
    <3>1. config'[w] = config[w]
      BY <1>2, <2>2
    <3>2. QED
      BY <1>4, <2>2, <3>1, StateFacts
  <2>3. QED
    BY <2>1, <2>2
<1>8. config' \in [Configs -> Configuration]
  <2>1. config' = [w \in Configs |-> config'[w]]
    BY <1>2
  <2>2. QED
    BY <1>7, <2>1
<1>9. made' \subseteq AllChanges /\ undumped' \subseteq Configs /\ polled' \subseteq Configs
  <2>1. \A w \in ws : Object(w) \subseteq Configs
    BY <1>3, <1>6, OrderFacts
  <2>2. QED
    BY <1>2, <2>1, StateFacts
<1>10. SwarmGrows /\ Configs' = Configs /\ Push' = Push
       /\ Calls' = Calls /\ \A i : Chunk(i)' = Chunk(i)
    BY <1>2, SwarmStays, KindStays
<1>11. \E s : GoesOn(s)' /\ push' = [push EXCEPT ![p] = s]
  <2>1. CASE push' = [push EXCEPT ![p] = Idle]
    BY <1>2, <1>3, <2>1, IdleAfter
  <2>2. CASE push' = [push EXCEPT ![p] =
                [r EXCEPT !.sent = sent, !.old = obs,
                          !.at = IF a = Calls THEN 1 ELSE a + 1,
                          !.phase = IF a = Calls THEN "request" ELSE "collect"]]
    <3>1. PICK n, f, s : /\ n = (IF a = Calls THEN 1 ELSE a + 1)
                         /\ f = (IF a = Calls THEN "request" ELSE "collect")
                         /\ s = Collecting(r, sent, obs, n, f)
      OBVIOUS
    <3>2. push' = [push EXCEPT ![p] = s]
      BY <2>2, <3>1 DEF Collecting
    <3>3. /\ r.sent \in Seq(Messages) /\ r.old \in SUBSET Messages
          /\ Len(r.sent) \in Nat /\ DOMAIN r.sent = 1..Len(r.sent)
      BY <1>3, SentFacts DEF Push
    <3>4. \A i \in 1..Len(r.sent) : \A j \in a..Calls : r.sent[i].ns \notin Chunk(j)
      BY <1>1, <1>3, <3>3 DEF PushInv
    <3>5. Whole(r.sent, r.old)
      BY <1>3, SendableIsWhole
    <3>6. a \in a..Calls
      BY <1>5
    <3>7. /\ sent \in Seq(Messages) /\ Len(r.sent) <= Len(sent)
          /\ obs \in SUBSET Messages /\ Whole(sent, obs)
          /\ \A i \in 1..Len(sent) :
               \/ \E j \in 1..Len(r.sent) : sent[i] = r.sent[j]
               \/ sent[i].ns = "GroupKeys"
               \/ /\ sent[i].ns \in ws /\ sent[i].seqno = config[sent[i].ns].seqno
                  /\ sent[i].changes = config[sent[i].ns].changes
      <4>1. Apart(r.sent, a)
        BY <3>4, <3>6 DEF Apart
      <4>2. Followed(r.sent, sent, obs, ws)
        <5>1. PICK R, o : R = r.sent /\ o = r.old
          OBVIOUS
        <5>2. R \in Seq(Messages) /\ o \in SUBSET Messages /\ Whole(R, o) /\ Apart(R, a)
          BY <3>3, <3>5, <4>1, <5>1
        <5>3. sent = R \o Collected(a) /\ ws = {w \in Chunk(a) : needsPush(config[w])}
          BY <1>1, <5>1
        <5>4. Followed(R, sent, o \cup Obsolete(ws), ws)
          BY <1>5, <5>2, <5>3, CollectedIsWhole
        <5>5. QED
          BY <1>1, <5>1, <5>4
      <4>3. QED
        BY <4>2 DEF Followed
    <3>8. n \in Nat \ {0} /\ f \in Phases
      BY <1>5, <3>1 DEF Phases
    <3>9. /\ s \in Push /\ s.at = n /\ s.phase = f /\ s.sent = sent /\ s.old = obs
          /\ s.extra = r.extra /\ s.ok = r.ok /\ s.results = r.results
      BY <1>3, <3>1, <3>7, <3>8, CollectingPush
    <3>10. DOMAIN sent = 1..Len(sent) /\ Len(sent) \in Nat
           /\ \A i \in 1..Len(sent) : sent[i] \in Messages
      BY <3>7, LenProperties, ElementOfSeq
    <3>11. PushInv(s)
      <4>1. s.at <= Calls
        BY <1>5, <3>1, <3>9
      <4>2. s.results <= Len(s.sent) + 1
        <5> DEFINE x == Len(r.sent)
                   y == Len(sent)
        <5>1. x \in Nat /\ y \in Nat /\ x <= y /\ r.results \in Nat /\ r.results <= x + 1
          BY <1>3, <3>3, <3>7, <3>10 DEF PushInv, Push
        <5> HIDE DEF x, y
        <5>2. r.results <= y + 1
          BY <5>1
        <5>3. QED
          BY <3>9, <5>2 DEF y
      <4>3. ASSUME s.phase = "collect"
            PROVE  /\ s.at # 1
                   /\ \A i \in 1..Len(sent) : \A j \in s.at..Calls : sent[i].ns \notin Chunk(j)
        <5>1. s.at = a + 1
          BY <3>1, <3>9, <4>3
        <5>2. s.at # 1
          BY <1>5, <5>1
        <5>3. ASSUME NEW i \in 1..Len(sent), NEW j \in s.at..Calls, sent[i].ns \in Chunk(j)
              PROVE  FALSE
          <6>1. j \in a..Calls /\ j \in 1..Calls /\ j # a
            BY <1>5, <5>1
          <6>2. Chunk(j) \subseteq Configs /\ Chunk(j) \cap Chunk(a) = {}
                /\ "GroupKeys" \notin Configs
            BY <1>3, <1>5, <6>1, OrderFacts
          <6>3. CASE \E k \in 1..Len(r.sent) : sent[i] = r.sent[k]
            BY <3>4, <5>3, <6>1, <6>3
          <6>4. CASE sent[i].ns \in ws
            BY <1>1, <5>3, <6>2, <6>4
          <6>5. QED
            BY <3>7, <5>3, <6>2, <6>3, <6>4
        <5>4. QED
          BY <5>2, <5>3
      <4>4. s.phase \in {"request", "collect"}
        BY <3>1, <3>9
      <4>5. QED
        BY <3>9, <3>10, <4>1, <4>2, <4>3, <4>4 DEF PushInv
    <3>12. PushInv(s)'
      BY <1>10, <3>11 DEF PushInv
    <3>13. SentIsKnown(s)'
      <4>1. ASSUME NEW i \in 1..Len(sent), sent[i].ns \in Configs
            PROVE  Known(sent[i], config'[sent[i].ns])
        <5>1. CASE \E k \in 1..Len(r.sent) : sent[i] = r.sent[k]
          <6>1. PICK k \in 1..Len(r.sent) : sent[i] = r.sent[k]
            BY <5>1
          <6>2. Known(sent[i], config[sent[i].ns])
            BY <1>3, <3>3, <4>1, <6>1 DEF GoesOn, SentIsKnown
          <6>3. QED
            BY <1>7, <3>10, <4>1, <6>2 DEF Onward
        <5>2. CASE /\ sent[i].ns \in ws /\ sent[i].seqno = config[sent[i].ns].seqno
                   /\ sent[i].changes = config[sent[i].ns].changes
          BY <1>7, <4>1, <5>2 DEF Known
        <5>3. sent[i].ns # "GroupKeys"
          BY <1>3, <4>1, OrderFacts
        <5>4. QED
          BY <3>7, <5>1, <5>2, <5>3
      <4>2. \A i \in DOMAIN s.sent : s.sent[i].ns \in Configs =>
              Known(s.sent[i], config'[s.sent[i].ns])
        BY <3>9, <3>10, <4>1
      <4>3. QED
        BY <1>10, <4>2 DEF SentIsKnown
    <3>14. ServedIsStored(s)'
      <4>1. s.phase \notin {"reply", "confirm"}
        BY <3>1, <3>9
      <4>2. QED
        BY <4>1 DEF ServedIsStored
    <3>15. Sendable(SortedSubRequests(s))'
      <4>1. Sendable(SortedSubRequests(s))
        BY <1>3, <3>7, <3>9, SendableIsWhole
      <4>2. \A q : Sendable(q) => Sendable(q)'
        BY <1>2, <1>10, SendableStays
      <4>3. SortedSubRequests(s)' = SortedSubRequests(s)
        BY DEF SortedSubRequests, DeleteHashes
      <4>4. QED
        BY <4>1, <4>2, <4>3
    <3>16. GoesOn(s)'
      BY <1>10, <3>9, <3>12, <3>13, <3>14, <3>15 DEF GoesOn
    <3>17. QED
      BY <3>2, <3>16
  <2>3. QED
    BY <1>2, <2>1, <2>2
<1>12. PICK s : GoesOn(s)' /\ push' = [push EXCEPT ![p] = s]
    BY <1>11
<1>13. /\ push' = [x \in Pushes |-> push'[x]]
       /\ \A x \in Pushes : push'[x] = push[x] \/ GoesOn(push[x])'
    BY <1>12, OnePushMoves
<1>14. QED
    BY <1>2, <1>4, <1>7, <1>8, <1>9, <1>13, ConfigsGoOn

-----------------------------------------------------------------------------
(* The theorems *)

LEMMA InitInv == Init => SyncInv
<1> SUFFICES ASSUME Init
             PROVE  SyncInv
    OBVIOUS
<1>1. /\ kind \in Kinds /\ config = [w \in Configs |-> Empty]
      /\ keys = [gen |-> 0, pending |-> FALSE]
      /\ disk = [config |-> config, keys |-> keys]
      /\ undumped = {} /\ polled = {} /\ swarm = {KeysMessage(0)} /\ stray = {}
      /\ push = [p \in Pushes |-> Idle] /\ made = {}
    BY DEF Init
<1>2. /\ KeysMessage(0).ns = "GroupKeys" /\ KeysMessage(0).gen = 0
      /\ KeysMessage(0) \in Messages
  <2>1. 0 \in 0..MaxGen /\ 1 \in 1..Parts
    BY ConfigSyncAssumption, PartsAssumption
  <2>2. QED
    BY <2>1 DEF KeysMessage, Messages
<1>3. SwarmInv
  <2>1. IsFiniteSet(swarm)
    BY <1>1, FS_Singleton
  <2>2. QED
    BY <1>1, <1>2, <2>1 DEF SwarmInv
<1>4. Empty \in Configuration /\ Empty.state = "clean" /\ Empty.changes = {}
      /\ Empty.hashes = {} /\ Empty.old = {}
    BY DEF Empty, Configuration
<1>5. Backed(config, keys)
  <2>1. config \in [Configs -> Configuration] /\ \A w \in Configs : config[w] = Empty
    BY <1>1, <1>4
  <2>2. keys \in GroupKeys /\ keys.gen = 0
    BY <1>1, ConfigSyncAssumption DEF GroupKeys
  <2>3. \A w \in Configs : /\ ConfigInv(w, config[w])
                           /\ config[w].changes \subseteq Stored(w)
    BY <1>4, <2>1 DEF ConfigInv
  <2>4. KeysMessage(keys.gen) \in swarm
    BY <1>1, <2>2
  <2>5. QED
    BY <2>1, <2>2, <2>3, <2>4 DEF Backed
<1>6. disk = [config |-> disk.config, keys |-> disk.keys] /\ Backed(disk.config, disk.keys)
  <2>1. disk.config = config /\ disk.keys = keys
    BY <1>1
  <2>2. QED
    BY <1>1, <1>5, <2>1
<1>7. push = [p \in Pushes |-> push[p]] /\ \A p \in Pushes : GoesOn(push[p])
    BY <1>1, IdleFacts
<1>8. QED
    BY <1>1, <1>3, <1>5, <1>6, <1>7 DEF SyncInv

\* no other action has to do with the swarm
LEMMA SwarmKept ==
    ASSUME NEW p \in Pushes,
           \/ StartPush(p) \/ handleMemberAddedFromUI(p) \/ PendingChanges(p)
           \/ saveDumpsToDb(p, "dump", "collect") \/ saveDumpsToDb(p, "save", "idle")
           \/ HandleReply(p) \/ confirm(p) \/ DumpFails(p) \/ RequestFails(p)
    PROVE  SwarmGrows
<1>1. UNCHANGED <<kind, swarm>>
    BY DEF StartPush, handleMemberAddedFromUI, PendingChanges, saveDumpsToDb,
           HandleReply, confirm, DumpFails, RequestFails
<1>2. QED
    BY <1>1, SwarmStays

LEMMA StutterInv ==
    ASSUME SyncInv, UNCHANGED vars
    PROVE  SyncInv' /\ SwarmGrows
<1>1. /\ UNCHANGED <<kind, config, keys, undumped, disk, polled, swarm, push, stray, made>>
    BY DEF vars, memory, bounds
<1>2. SwarmGrows /\ SwarmInv'
    BY <1>1, SwarmStays, StateFacts
<1>3. made' \subseteq AllChanges
    BY <1>1, StateFacts
<1>4. QED
    BY <1>1, <1>2, <1>3, OthersStay

\* one step per action
LEMMA NextInv ==
    ASSUME SyncInv, WithHistory => Kinds \subseteq {"user"}, [Next]_vars
    PROVE  SyncInv' /\ SwarmGrows
<1>1. ASSUME NEW w \in Configs, NEW c \in OurChanges, Change(w, c)
      PROVE  SyncInv' /\ SwarmGrows
  <2>1. UNCHANGED <<kind, swarm>>
    BY <1>1 DEF Change
  <2>2. QED
    BY <1>1, <2>1, ChangeInv, SwarmStays
<1>2. ASSUME NEW w \in Configs, NEW c \in TheirChanges, OtherDevice(w, c)
      PROVE  SyncInv' /\ SwarmGrows
    BY <1>2, OtherDeviceInv
<1>3. ASSUME NEW w \in Configs, Merge(w)
      PROVE  SyncInv' /\ SwarmGrows
  <2>1. UNCHANGED <<kind, swarm>>
    BY <1>3 DEF Merge
  <2>2. QED
    BY <1>3, <2>1, MergeInv, SwarmStays
<1>4. ASSUME NEW w \in Configs, DumpMerged(w)
      PROVE  SyncInv' /\ SwarmGrows
  <2>1. UNCHANGED <<kind, swarm>>
    BY <1>4 DEF DumpMerged
  <2>2. QED
    BY <1>4, <2>1, DumpMergedInv, SwarmStays
<1>5. ASSUME NEW p \in Pushes, StartPush(p)
      PROVE  SyncInv' /\ SwarmGrows
    BY <1>5, StartPushInv, SwarmKept
<1>6. ASSUME NEW p \in Pushes, handleMemberAddedFromUI(p)
      PROVE  SyncInv' /\ SwarmGrows
    BY <1>6, handleMemberAddedFromUIInv, SwarmKept
<1>7. ASSUME NEW p \in Pushes, PendingChanges(p)
      PROVE  SyncInv' /\ SwarmGrows
    BY <1>7, PendingChangesInv, SwarmKept
<1>8. ASSUME NEW p \in Pushes, saveDumpsToDb(p, "dump", "collect")
      PROVE  SyncInv' /\ SwarmGrows
    BY <1>8, saveDumpsToDbInv, SwarmKept
<1>9. ASSUME NEW p \in Pushes, saveDumpsToDb(p, "save", "idle")
      PROVE  SyncInv' /\ SwarmGrows
    BY <1>9, saveDumpsToDbInv, SwarmKept
<1>10. ASSUME NEW p \in Pushes, ServeRequest(p)
       PROVE  SyncInv' /\ SwarmGrows
    BY <1>10, ServeRequestInv
<1>11. ASSUME NEW p \in Pushes, HandleReply(p)
       PROVE  SyncInv' /\ SwarmGrows
    BY <1>11, HandleReplyInv, SwarmKept
<1>12. ASSUME NEW p \in Pushes, confirm(p)
       PROVE  SyncInv' /\ SwarmGrows
    BY <1>12, confirmInv, SwarmKept
<1>13. ASSUME NEW p \in Pushes, DumpFails(p)
       PROVE  SyncInv' /\ SwarmGrows
    BY <1>13, DumpFailsInv, SwarmKept
<1>14. ASSUME NEW p \in Pushes, RequestFails(p)
       PROVE  SyncInv' /\ SwarmGrows
    BY <1>14, RequestFailsInv, SwarmKept
<1>15. ASSUME ServeStray
       PROVE  SyncInv' /\ SwarmGrows
    BY <1>15, ServeStrayInv
<1>16. ASSUME Crash
       PROVE  SyncInv' /\ SwarmGrows
  <2>1. UNCHANGED <<kind, swarm>>
    BY <1>16 DEF Crash
  <2>2. QED
    BY <1>16, <2>1, CrashInv, SwarmStays
<1>17. QED
    BY <1>1, <1>2, <1>3, <1>4, <1>5, <1>6, <1>7, <1>8, <1>9, <1>10, <1>11, <1>12,
       <1>13, <1>14, <1>15, <1>16, StutterInv DEF Next, PushStep

\* SyncInv holds: what configurations and dumps keep can be loaded and, when
\* clean, is on the swarm; what a push still sends comes as whole versions behind
\* their keys, with nothing deleted that is not replaced before; what it will
\* confirm is stored.
THEOREM SyncInvariant ==
    ASSUME WithHistory => Kinds \subseteq {"user"}
    PROVE  Spec => []SyncInv
<1>1. Init => SyncInv
    BY InitInv
<1>2. SyncInv /\ [Next]_vars => SyncInv'
    BY NextInv
<1>3. QED
    BY <1>1, <1>2, PTL DEF Spec

\* The states of configurations are those of the library, and what they keep to
\* delete later is their own (LibSessionUtil); the results of a push are no more
\* than its requests (TypeOK).
THEOREM TypeCorrect ==
    ASSUME WithHistory => Kinds \subseteq {"user"}
    PROVE  Spec => []TypeOK
<1>1. SyncInv => TypeOK
  <2> SUFFICES ASSUME SyncInv
               PROVE  TypeOK
    OBVIOUS
  <2>1. kind \in Kinds /\ undumped \subseteq Configs /\ polled \subseteq Configs
    BY StateFacts
  <2>2. keys.gen \in 0..MaxGen
    BY StateFacts DEF GroupKeys
  <2>3. ASSUME NEW w \in Configs
        PROVE  /\ config[w].state \in {"clean", "dirty", "waiting"}
               /\ config[w].state # "clean" => config[w].hashes = {}
               /\ \A m \in config[w].hashes \cup config[w].old : m \in Hashes(w)
    <3>1. config[w] \in Configuration /\ ConfigInv(w, config[w])
      BY <2>3, StateFacts DEF SyncInv, Backed
    <3>2. PICK c : c = config[w]
      OBVIOUS
    <3>3. c.state \in {"clean", "dirty", "waiting"} /\ (c.state # "clean" => c.hashes = {})
          /\ \A m \in c.hashes \cup c.old : m \in Messages /\ m.ns = w
      BY <3>1, <3>2 DEF Configuration, ConfigInv
    <3>4. \A m \in Messages : m.ns = w => m \in Hashes(w)
      BY DEF Messages, Hashes
    <3>5. QED
      BY <3>2, <3>3, <3>4
  <2>4. ASSUME NEW p \in Pushes
        PROVE  push[p].results \in 0..Len(push[p].sent) + 2
    <3>1. push[p] \in Push /\ PushInv(push[p])
      BY <2>4, StateFacts
    <3>2. push[p].sent \in Seq(Messages) /\ push[p].results \in Nat
          /\ push[p].results <= Len(push[p].sent) + 1
      BY <3>1 DEF Push, PushInv
    <3> DEFINE n == Len(push[p].sent)
               k == push[p].results
    <3>3. n \in Nat /\ k \in Nat /\ k <= n + 1
      BY <3>2, LenProperties
    <3> HIDE DEF n, k
    <3>4. k \in 0..n + 2
      BY <3>3
    <3>5. QED
      BY <3>4 DEF n, k
  <2>5. QED
    BY <2>1, <2>2, <2>3, <2>4 DEF TypeOK
<1>2. QED
    BY <1>1, SyncInvariant, PTL

\* A configuration that is taken to be pushed, in memory or in its dump, is on
\* the swarm with all its changes, whatever changed, was merged or pushed between
\* the request and its confirmation, and whatever failed or restarted
\* (confirmPushedAndDump; CleanIsStored).
THEOREM CleanStored ==
    ASSUME WithHistory => Kinds \subseteq {"user"}
    PROVE  Spec => []CleanIsStored
<1>1. SyncInv => CleanIsStored
    BY DEF SyncInv, Backed, CleanIsStored
<1>2. QED
    BY <1>1, SyncInvariant, PTL

\* No step takes from the swarm a change it had: obsolete messages go after what
\* replaces them, also in a request that is served after its sender gave up
\* (sendMessagesDataToSnode; ChangesStay).
THEOREM ChangesKept ==
    ASSUME WithHistory => Kinds \subseteq {"user"}
    PROVE  Spec => ChangesStay
<1>1. SyncInv /\ [Next]_vars => [\A w \in Configs : Stored(w) \subseteq Stored(w)']_vars
    BY NextInv DEF SwarmGrows
<1>2. QED
    BY <1>1, SyncInvariant, PTL DEF Spec, ChangesStay

\* A message of a group's configuration is never on the swarm without the keys it
\* is encrypted with (libsession_utils.ts:208), as long as no member is added
\* with history (KeysFirst).
THEOREM KeysLeadTheirs ==
    ASSUME WithHistory => Kinds \subseteq {"user"}
    PROVE  Spec => []KeysFirst
<1>1. SyncInv => KeysFirst
    BY DEF SyncInv, SwarmInv, KeysFirst
<1>2. QED
    BY <1>1, SyncInvariant, PTL
=============================================================================
