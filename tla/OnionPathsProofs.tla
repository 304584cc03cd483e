-------------------------- MODULE OnionPathsProofs --------------------------
(***************************************************************************)
(* What holds of the onion paths for every network, number of paths, hops  *)
(* and requests: their type, that every path is whole, and that a node     *)
(* whose count reached the threshold is being dropped.                     *)
(***************************************************************************)
EXTENDS OnionPaths, SequenceTheorems, FiniteSetTheorems, WellFoundedInduction, TLAPS

-----------------------------------------------------------------------------
(* Numbers *)

LEMMA MinOfNaturals ==
    ASSUME NEW S \in SUBSET Nat, S # {}
    PROVE  Min(S) \in S /\ \A y \in S : Min(S) <= y
<1> DEFINE R == {ss \in Nat \X Nat : ss[1] < ss[2]}
<1>1. IsWellFoundedOn(R, Nat)
    BY NatLessThanWellFounded DEF OpToRel
<1>2. PICK x \in S : \A y \in S : ~(<<y, x>> \in R)
  <2> HIDE DEF R
  <2>1. QED
    BY <1>1, WFMin, Zenon
<1>3. \A y \in S : x <= y
  <2>1. \A y \in S : ~(y < x)
    BY <1>2
  <2>2. QED
    BY <2>1
<1>4. QED
    BY <1>3 DEF Min

LEMMA MaxOfTwo ==
    ASSUME NEW a \in Nat, NEW b \in Nat
    PROVE  Max({a, b}) \in Nat /\ Max({a, b}) >= a /\ Max({a, b}) >= b
    BY DEF Max

LEMMA MinOfTwo ==
    ASSUME NEW a \in Int, NEW b \in Int
    PROVE  Min({a, b}) \in {a, b} /\ Min({a, b}) <= a /\ Min({a, b}) <= b
    BY DEF Min

-----------------------------------------------------------------------------
(* Paths *)

\* a path as the requests need it
Whole(path) ==
    path \in Seq(Snodes) /\ Len(path) = ONION_REQUEST_HOPS /\ IsInjective(path)

AllWhole(paths) == \A i \in DOMAIN paths : paths[i] # <<>> => Whole(paths[i])

LEMMA WholePaths ==
    ASSUME onionPaths \in Seq(Seq(Snodes))
    PROVE  PathsAreWhole <=> AllWhole(onionPaths)
    BY DEF PathsAreWhole, AllWhole, Whole

\* a node of a path is replaced by one that is not in it
LEMMA PatchedIsWhole ==
    ASSUME NEW path, Whole(path), NEW n \in Nodes(path), NEW s \in Snodes, s \notin Nodes(path)
    PROVE  Whole(Patched(path, n, s))
<1> DEFINE k == CHOOSE h \in DOMAIN path : path[h] = n
           new == Patched(path, n, s)
<1>1. /\ path \in [1..Len(path) -> Snodes] /\ DOMAIN path = 1..Len(path) /\ Len(path) \in Nat
      /\ \A a, b \in 1..Len(path) : path[a] = path[b] => a = b
      /\ \A a \in 1..Len(path) : path[a] # s
    BY DEF Whole, IsInjective, Nodes
<1>2. k \in 1..Len(path) /\ path[k] = n
    BY <1>1 DEF Nodes
<1>3. new = [h \in 1..Len(path) |->
               IF h = Len(path) THEN s ELSE IF h < k THEN path[h] ELSE path[h + 1]]
    BY <1>1 DEF Patched
<1> HIDE DEF k, new
<1>4. new \in [1..Len(path) -> Snodes]
    BY <1>1, <1>2, <1>3
<1>5. new \in Seq(Snodes) /\ Len(new) = Len(path)
    BY <1>1, <1>4, SeqDef
<1>6. ASSUME NEW a \in 1..Len(path), NEW b \in 1..Len(path), a < b
      PROVE  new[a] # new[b]
  <2>1. CASE b = Len(path)
    BY <1>1, <1>2, <1>3, <1>6, <2>1
  <2>2. CASE b # Len(path)
    BY <1>1, <1>2, <1>3, <1>6, <2>2
  <2>3. QED
    BY <2>1, <2>2
<1>7. IsInjective(new)
  <2> SUFFICES ASSUME NEW a \in 1..Len(path), NEW b \in 1..Len(path), new[a] = new[b]
               PROVE  a = b
    BY <1>4 DEF IsInjective
  <2>1. ~(a < b) /\ ~(b < a)
    BY <1>6
  <2>2. QED
    BY <2>1, <1>1
<1>8. QED
    BY <1>5, <1>7 DEF Whole, new

\* findIndex gives 0, -1 or the place of a path with the node
LEMMA PathWithFinds ==
    ASSUME onionPaths \in Seq(Seq(Snodes)), NEW n
    PROVE  /\ PathWith(n) \in Int
           /\ PathWith(n) > 0 =>
                 /\ PathWith(n) \in DOMAIN onionPaths /\ PathWith(n) \in Nat \ {0}
                 /\ onionPaths[PathWith(n)] # <<>> /\ onionPaths[PathWith(n)] \in Seq(Snodes)
                 /\ n \in Nodes(onionPaths[PathWith(n)])
<1> DEFINE hits == {i \in DOMAIN onionPaths : onionPaths[i] = <<>> \/ n \in Nodes(onionPaths[i])}
<1>1. PathWith(n) = IF hits = {} THEN 0 ELSE IF onionPaths[Min(hits)] = <<>> THEN -1 ELSE Min(hits)
    BY DEF PathWith, FindIndex
<1>2. /\ DOMAIN onionPaths = 1..Len(onionPaths) /\ Len(onionPaths) \in Nat
      /\ \A i \in 1..Len(onionPaths) : onionPaths[i] \in Seq(Snodes)
    OBVIOUS
<1>3. hits \in SUBSET Nat
    BY <1>2
<1>4. hits # {} => Min(hits) \in hits
    BY <1>3, MinOfNaturals
<1>5. hits # {} => /\ Min(hits) \in 1..Len(onionPaths)
                   /\ onionPaths[Min(hits)] = <<>> \/ n \in Nodes(onionPaths[Min(hits)])
    BY <1>2, <1>4
<1> HIDE DEF hits
<1>6. QED
    BY <1>1, <1>2, <1>5

\* a whole path is put into the paths
LEMMA PatchPathKeeps ==
    ASSUME onionPaths \in Seq(Seq(Snodes)), AllWhole(onionPaths),
           NEW i \in Nat \ {0}, NEW path, Whole(path), PatchPath(i, path)
    PROVE  onionPaths' \in Seq(Seq(Snodes)) /\ AllWhole(onionPaths')
<1> DEFINE n == Max({i, Len(onionPaths)})
<1>1. /\ DOMAIN onionPaths = 1..Len(onionPaths) /\ Len(onionPaths) \in Nat
      /\ \A j \in 1..Len(onionPaths) : onionPaths[j] \in Seq(Snodes)
    OBVIOUS
<1>2. n \in Nat /\ n >= i
    BY <1>1, MaxOfTwo
<1>3. onionPaths' = [j \in 1..n |-> IF j = i THEN path
                                  ELSE IF j \in DOMAIN onionPaths THEN onionPaths[j] ELSE <<>>]
    BY DEF PatchPath
<1>4. path \in Seq(Snodes)
    BY DEF Whole
<1> HIDE DEF n
<1>5. onionPaths' \in [1..n -> Seq(Snodes)]
    BY <1>1, <1>3, <1>4
<1>6. onionPaths' \in Seq(Seq(Snodes))
    BY <1>2, <1>5, SeqDef
<1>7. AllWhole(onionPaths')
    BY <1>3, <1>5 DEF AllWhole
<1>8. QED
    BY <1>6, <1>7

\* some of the paths stay
LEMMA KeepKeeps ==
    ASSUME onionPaths \in Seq(Seq(Snodes)), AllWhole(onionPaths),
           NEW places, places \subseteq DOMAIN onionPaths, Keep(places)
    PROVE  onionPaths' \in Seq(Seq(Snodes)) /\ AllWhole(onionPaths')
<1>1. /\ DOMAIN onionPaths = 1..Len(onionPaths) /\ Len(onionPaths) \in Nat
      /\ \A j \in 1..Len(onionPaths) : onionPaths[j] \in Seq(Snodes)
    OBVIOUS
<1>0. PICK n \in 0..Len(onionPaths) :
        \E at \in [1..n -> places] : onionPaths' = [i \in 1..n |-> onionPaths[at[i]]]
    BY DEF Keep
<1>2. PICK at \in [1..n -> places] : onionPaths' = [i \in 1..n |-> onionPaths[at[i]]]
    BY <1>0
<1>3. n \in Nat
    BY <1>1
<1>4. onionPaths' \in [1..n -> Seq(Snodes)]
    BY <1>1, <1>2
<1>5. onionPaths' \in Seq(Seq(Snodes))
    BY <1>3, <1>4, SeqDef
<1>6. AllWhole(onionPaths')
    BY <1>2, <1>4 DEF AllWhole
<1>7. QED
    BY <1>5, <1>6

\* a path that is built starts with a guard, and its other nodes are no guards
LEMMA NewPathsAreWhole ==
    ASSUME OnionAssumption, pool \subseteq Snodes, guardNodes \subseteq Snodes,
           NewPaths
    PROVE  onionPaths' \in Seq(Seq(Snodes)) /\ AllWhole(onionPaths')
<1> DEFINE others == pool \ guardNodes
           n == NewPathCount
<1>1. ONION_REQUEST_HOPS \in Nat /\ ONION_REQUEST_HOPS >= 2 /\ IsFiniteSet(Snodes)
    BY DEF OnionAssumption
<1>2. Cardinality(guardNodes) \in Nat /\ Cardinality(others) \in Nat
  <2>1. IsFiniteSet(guardNodes) /\ IsFiniteSet(others)
    BY <1>1, FS_Subset
  <2>2. QED
    BY <2>1, FS_CardinalityType
<1>3. n \in Nat
  <2> DEFINE c == Cardinality(others) \div nodesNeededPerPaths
  <2>1. c \in Nat
    BY <1>1, <1>2 DEF nodesNeededPerPaths
  <2>2. n = Min({Cardinality(guardNodes), c})
    BY DEF NewPathCount
  <2> HIDE DEF c, n
  <2>3. Cardinality(guardNodes) \in Int /\ c \in Int
    BY <1>2, <2>1
  <2>4. n \in {Cardinality(guardNodes), c}
    BY <2>2, <2>3, MinOfTwo, Zenon
  <2>5. QED
    BY <1>2, <2>1, <2>4
<1>4. PICK g \in Injection(1..n, guardNodes),
           o \in Injection((1..n) \X (2..ONION_REQUEST_HOPS), others) :
        onionPaths' = [i \in 1..n |-> PathFrom(g, o, i)]
    BY DEF NewPaths
<1> HIDE DEF n
<1>5. /\ g \in [1..n -> guardNodes]
      /\ o \in [(1..n) \X (2..ONION_REQUEST_HOPS) -> others]
      /\ \A a, b \in (1..n) \X (2..ONION_REQUEST_HOPS) : o[a] = o[b] => a = b
    BY DEF Injection, IsInjective
<1>6. others \subseteq Snodes /\ \A x \in others : x \notin guardNodes
    OBVIOUS
<1> HIDE DEF others
<1>7. ASSUME NEW i \in 1..n
      PROVE  Whole(PathFrom(g, o, i))
  <2> DEFINE path == PathFrom(g, o, i)
  <2>1. g[i] \in guardNodes /\ \A h \in 2..ONION_REQUEST_HOPS : o[<<i, h>>] \in others
    BY <1>5
  <2>2. \A h, k \in 2..ONION_REQUEST_HOPS : o[<<i, h>>] = o[<<i, k>>] => h = k
    BY <1>5
  <2>3. path = [h \in 1..ONION_REQUEST_HOPS |-> IF h = 1 THEN g[i] ELSE o[<<i, h>>]]
    BY DEF PathFrom
  <2>4. \A h \in 1..ONION_REQUEST_HOPS : h = 1 \/ h \in 2..ONION_REQUEST_HOPS
    BY <1>1
  <2> HIDE DEF path
  <2>5. path \in [1..ONION_REQUEST_HOPS -> Snodes]
    BY <1>6, <2>1, <2>3, <2>4
  <2>6. path \in Seq(Snodes) /\ Len(path) = ONION_REQUEST_HOPS
    BY <1>1, <2>5, SeqDef
  <2>7. path[1] = g[i] /\ \A h \in 2..ONION_REQUEST_HOPS : path[h] = o[<<i, h>>]
    BY <1>1, <2>3
  <2>8. IsInjective(path)
    BY <1>6, <2>1, <2>2, <2>4, <2>5, <2>7 DEF IsInjective
  <2>9. QED
    BY <2>6, <2>8 DEF Whole, path
<1>8. onionPaths' \in [1..n -> Seq(Snodes)]
    BY <1>4, <1>7 DEF Whole
<1>9. onionPaths' \in Seq(Seq(Snodes))
    BY <1>3, <1>8, SeqDef
<1>10. AllWhole(onionPaths')
    BY <1>4, <1>7 DEF AllWhole
<1>11. QED
    BY <1>9, <1>10

-----------------------------------------------------------------------------
(* The inductive invariant *)

\* what a request that failed, and a drop that waits for the pool, know: the
\* path it will write back is whole, and what it may not take is in it
Knows(state) ==
    /\ state.pc \in {"onPath", "atDestination"} => state.node \in Snodes /\ state.guard \in Snodes
    /\ state.pc = "seed" =>
          /\ Whole(state.path) /\ state.index \in Nat \ {0}
          /\ state.node \in Nodes(state.path) /\ Nodes(state.path) \subseteq state.exclude

HandlersKnow == \A r \in Requests : Knows(req[r])

Paths == onionPaths \in Seq(Seq(Snodes)) /\ AllWhole(onionPaths)

Counts ==
    /\ pathFailureCount \in [Snodes -> 0..(failureThreshold - 1)]
    /\ snodeFailureCount \in [Snodes -> Nat]

Handlers == req \in [Requests -> Handling] /\ HandlersKnow

Others ==
    /\ pool \subseteq Snodes /\ guardNodes \subseteq Snodes
    /\ build \in [pc : {"idle", "pool", "load", "guards", "make"}, from : SUBSET Snodes]
    /\ faults \in Nat

PathInv == Paths /\ Counts /\ Handlers /\ CountedNodeIsDropped /\ Others

LEMMA InvariantParts == PathInv => TypeOK /\ PathsAreWhole
    BY WholePaths DEF PathInv, Paths, Counts, Handlers, Others, TypeOK

\* where a handler may go
LEMMA NewStates ==
    /\ Idle \in Handling /\ Knows(Idle)
    /\ \A nodes \in Seq(Snodes) :
          Against(nodes) \in Handling /\ Knows(Against(nodes)) /\ Against(nodes).pc = "count"
<1>1. <<>> \in Seq(Snodes)
    OBVIOUS
<1>2. Idle \in Handling
    BY <1>1 DEF Idle, Handling
<1>3. Idle.pc = "idle"
    BY DEF Idle
<1>4. ASSUME NEW nodes \in Seq(Snodes)
      PROVE  Against(nodes) \in Handling /\ Against(nodes).pc = "count"
    BY <1>1 DEF Against, Idle, Handling
<1>5. \A state : state.pc \in {"idle", "count"} => Knows(state)
    BY DEF Knows
<1>6. QED
    BY <1>2, <1>3, <1>4, <1>5

LEMMA GotoKeeps ==
    ASSUME Handlers, NEW r \in Requests, NEW state \in Handling, Knows(state), Goto(r, state)
    PROVE  Handlers'
<1>1. req' = [req EXCEPT ![r] = state]
    BY DEF Goto
<1>2. req' \in [Requests -> Handling] /\ \A s \in Requests : req'[s] = IF s = r THEN state ELSE req[s]
    BY <1>1 DEF Handlers
<1>3. \A s \in Requests : Knows(req'[s])
    BY <1>2 DEF Handlers, HandlersKnow
<1>4. QED
    BY <1>2, <1>3 DEF Handlers, HandlersKnow

\* a handler that drops no node leaves the counted ones to those that do
LEMMA CountsStay ==
    ASSUME Handlers, CountedNodeIsDropped, UNCHANGED snodeFailureCount,
           NEW r \in Requests, NEW state, Goto(r, state),
           req[r].pc # "drop" \/ (state.pc = "drop" /\ state.node = req[r].node)
    PROVE  CountedNodeIsDropped'
<1>1. \A s \in Requests : req'[s] = IF s = r THEN state ELSE req[s]
    BY DEF Goto, Handlers
<1>2. QED
    BY <1>1 DEF CountedNodeIsDropped

LEMMA SeededCounts == OnionAssumption /\ Seeded => Counts' /\ CountedNodeIsDropped' /\ pool' \subseteq Snodes
    BY DEF OnionAssumption, Seeded, Counts, CountedNodeIsDropped, NoCounts

LEMMA PathInvInit == OnionAssumption /\ Init => PathInv
<1> SUFFICES ASSUME OnionAssumption, Init
             PROVE  PathInv
    OBVIOUS
<1>1. Paths
    BY DEF Init, Paths, AllWhole
<1>2. Counts /\ CountedNodeIsDropped
    BY DEF Init, OnionAssumption, Counts, CountedNodeIsDropped, NoCounts
<1>3. Handlers
    BY NewStates DEF Init, Handlers, HandlersKnow
<1>4. Others
    BY DEF Init, Others, NoBuild
<1>5. QED
    BY <1>1, <1>2, <1>3, <1>4 DEF PathInv

-----------------------------------------------------------------------------
(* Requests and their errors *)

LEMMA SendRequestKeeps ==
    ASSUME OnionAssumption, PathInv, NEW r \in Requests, NEW n \in Dead, SendRequest(r, n)
    PROVE  PathInv'
<1>1. /\ At(r, "idle")
      /\ UNCHANGED <<pool, onionPaths, guardNodes, counts, build, faults>>
    BY DEF SendRequest
<1>2. PICK i \in DOMAIN onionPaths :
        LET sent == [Idle EXCEPT !.node = n, !.guard = onionPaths[i][1]]
        IN  /\ onionPaths[i] # <<>>
            /\ \/ Goto(r, [sent EXCEPT !.pc = "onPath"])
               \/ Goto(r, [sent EXCEPT !.pc = "atDestination"])
    BY DEF SendRequest
<1>3. onionPaths[i][1] \in Snodes /\ n \in Snodes
  <2>1. onionPaths[i] \in Seq(Snodes)
    BY DEF PathInv, Paths
  <2>2. Len(onionPaths[i]) \in Nat \ {0}
    BY <1>2, <2>1, EmptySeq
  <2>3. QED
    BY <2>1, <2>2, ElementOfSeq DEF OnionAssumption
<1> DEFINE sent == [Idle EXCEPT !.node = n, !.guard = onionPaths[i][1]]
<1>4. sent \in Handling /\ sent.node = n /\ sent.guard = onionPaths[i][1]
  <2>1. Idle \in Handling
    BY NewStates
  <2>2. QED
    BY <1>3, <2>1 DEF Handling
<1>5. PICK pc \in {"onPath", "atDestination"} : Goto(r, [sent EXCEPT !.pc = pc])
    BY <1>2
<1> HIDE DEF sent
<1> DEFINE state == [sent EXCEPT !.pc = pc]
<1>6. state \in Handling /\ state.pc = pc /\ state.node = n /\ state.guard = onionPaths[i][1]
    BY <1>4 DEF Handling
<1> HIDE DEF state
<1>7. Knows(state) /\ state.pc # "drop" /\ Goto(r, state)
  <2>1. Goto(r, state)
    BY <1>5 DEF state
  <2>2. QED
    BY <1>3, <1>6, <2>1 DEF Knows
<1>8. Handlers'
    BY <1>7, <1>6, GotoKeeps DEF PathInv
<1>9. CountedNodeIsDropped'
  <2>1. UNCHANGED snodeFailureCount /\ req[r].pc # "drop"
    BY <1>1 DEF At, counts
  <2>2. QED
    BY <1>7, <2>1, CountsStay DEF PathInv
<1>10. QED
    BY <1>1, <1>8, <1>9 DEF PathInv, Paths, Counts, Others, counts

LEMMA getOnionPathKeeps ==
    ASSUME PathInv, NEW r \in Requests, getOnionPath(r)
    PROVE  PathInv'
<1>1. /\ req[r].pc = "idle"
      /\ Goto(r, [Idle EXCEPT !.pc = "build"])
      /\ UNCHANGED <<pool, onionPaths, guardNodes, pathFailureCount, snodeFailureCount, faults>>
      /\ build' = IF build.pc = "idle" THEN [NoBuild EXCEPT !.pc = "pool"] ELSE build
    BY DEF getOnionPath, At, counts, buildNewOnionPathsOneAtATime
<1>2. [Idle EXCEPT !.pc = "build"] \in Handling /\ Knows([Idle EXCEPT !.pc = "build"])
  <2>1. Idle \in Handling
    BY NewStates
  <2>2. QED
    BY <2>1 DEF Handling, Knows
<1>3. Handlers' /\ CountedNodeIsDropped'
    BY <1>1, <1>2, GotoKeeps, CountsStay DEF PathInv
<1>4. Others'
    BY <1>1 DEF PathInv, Others, NoBuild
<1>5. QED
    BY <1>1, <1>3, <1>4 DEF PathInv, Paths, Counts

LEMMA NodeNotFoundKeeps ==
    ASSUME PathInv, NEW r \in Requests, NodeNotFound(r)
    PROVE  PathInv'
<1> DEFINE state == [Idle EXCEPT !.pc = "drop", !.now = req[r].node \notin pool, !.node = req[r].node]
<1>1. /\ req[r].pc \in {"onPath", "atDestination"}
      /\ pool' = pool \ {req[r].node} /\ Goto(r, state)
      /\ UNCHANGED <<onionPaths, guardNodes, pathFailureCount, snodeFailureCount, build, faults>>
    BY DEF NodeNotFound, Fails, At, counts, dropSnodeFromSnodePool
<1>2. req[r].node \in Snodes
    BY <1>1 DEF PathInv, Handlers, HandlersKnow, Knows
<1>3. state \in Handling /\ Knows(state)
  <2>1. Idle \in Handling
    BY NewStates
  <2>2. QED
    BY <1>2, <2>1 DEF Handling, Knows
<1> HIDE DEF state
<1>4. Handlers' /\ CountedNodeIsDropped'
    BY <1>1, <1>3, GotoKeeps, CountsStay DEF PathInv
<1>5. QED
    BY <1>1, <1>4 DEF PathInv, Paths, Counts, Others

LEMMA DestinationFailsKeeps ==
    ASSUME PathInv, NEW r \in Requests, DestinationFails(r)
    PROVE  PathInv'
<1>1. /\ req[r].pc = "atDestination" /\ Goto(r, Against(<<req[r].node>>))
      /\ UNCHANGED <<pool, onionPaths, guardNodes, pathFailureCount, snodeFailureCount, build, faults>>
    BY DEF DestinationFails, At, counts
<1>2. req[r].node \in Snodes
    BY <1>1 DEF PathInv, Handlers, HandlersKnow, Knows
<1>3. <<req[r].node>> \in Seq(Snodes)
    BY <1>2
<1>4. Handlers' /\ CountedNodeIsDropped'
    BY <1>1, <1>3, NewStates, GotoKeeps, CountsStay DEF PathInv
<1>5. QED
    BY <1>1, <1>4 DEF PathInv, Paths, Counts, Others

LEMMA incrementBadPathCountOrDropKeeps ==
    ASSUME OnionAssumption, PathInv, NEW r \in Requests, incrementBadPathCountOrDrop(r)
    PROVE  PathInv'
<1> DEFINE i == PathWith(req[r].guard)
           path == onionPaths[i]
           counted == [Against(Tail(path)) EXCEPT !.guard = path[1],
                         !.count = NewCount(pathFailureCount[path[1]])]
<1>1. /\ req[r].pc = "onPath"
      /\ \/ i = -1 /\ Goto(r, Idle)
         \/ i = 0 /\ Goto(r, Against(<<req[r].guard>>))
         \/ i > 0 /\ Goto(r, counted)
      /\ UNCHANGED <<pool, onionPaths, guardNodes, pathFailureCount, snodeFailureCount, build, faults>>
    BY DEF incrementBadPathCountOrDrop, At, counts, Done
<1>2. req[r].guard \in Snodes
    BY <1>1 DEF PathInv, Handlers, HandlersKnow, Knows
<1>3. <<req[r].guard>> \in Seq(Snodes)
    BY <1>2
<1>4. ASSUME i > 0
      PROVE  counted \in Handling /\ Knows(counted)
  <2>1. path \in Seq(Snodes) /\ path # <<>>
    BY <1>4, PathWithFinds DEF PathInv, Paths
  <2> HIDE DEF path
  <2>2. Tail(path) \in Seq(Snodes)
    BY <2>1
  <2>3. path[1] \in Snodes
    BY <2>1, EmptySeq, ElementOfSeq
  <2>4. NewCount(pathFailureCount[path[1]]) \in Nat
    BY <2>3 DEF PathInv, Counts, NewCount, OnionAssumption
  <2>5. Against(Tail(path)) \in Handling /\ Against(Tail(path)).pc = "count"
    BY <2>2, NewStates
  <2>6. QED
    BY <2>3, <2>4, <2>5 DEF Handling, Knows
<1> HIDE DEF counted, i
<1>5. PICK state \in Handling : Knows(state) /\ Goto(r, state)
    BY <1>1, <1>3, <1>4, NewStates
<1>6. Handlers' /\ CountedNodeIsDropped'
    BY <1>1, <1>5, GotoKeeps, CountsStay DEF PathInv
<1>7. QED
    BY <1>1, <1>6 DEF PathInv, Paths, Counts, Others

-----------------------------------------------------------------------------
(* The nodes a failure counts against *)

LEMMA IncrementKeeps ==
    ASSUME OnionAssumption, PathInv, NEW r \in Requests, Increment(r)
    PROVE  PathInv'
<1> DEFINE n == Head(req[r].rest)
           goOn == [req[r] EXCEPT !.rest = Tail(@)]
           drops == [goOn EXCEPT !.pc = "drop", !.now = n \notin pool, !.node = n]
           often == snodeFailureCount[n] + 1 >= failureThreshold
<1>1. /\ req[r].pc = "count" /\ req[r].rest # <<>>
      /\ snodeFailureCount' = [snodeFailureCount EXCEPT ![n] = @ + 1]
      /\ IF often THEN pool' = pool \ {n} /\ Goto(r, drops) ELSE pool' = pool /\ Goto(r, goOn)
      /\ UNCHANGED <<onionPaths, guardNodes, pathFailureCount, build, faults>>
    BY DEF Increment, At, dropSnodeFromSnodePool
<1>2. n \in Snodes /\ Tail(req[r].rest) \in Seq(Snodes) /\ req[r] \in Handling
  <2>1. req[r] \in Handling /\ req[r].rest \in Seq(Snodes)
    BY DEF PathInv, Handlers, Handling
  <2>2. QED
    BY <1>1, <2>1, HeadTailProperties
<1> HIDE DEF n
<1>3. goOn \in Handling /\ goOn.pc = "count"
    BY <1>1, <1>2 DEF Handling
<1> HIDE DEF goOn
<1>4. drops \in Handling /\ drops.pc = "drop" /\ drops.node = n
    BY <1>2, <1>3 DEF Handling
<1> HIDE DEF drops
<1>5. Knows(goOn) /\ Knows(drops)
    BY <1>3, <1>4 DEF Knows
<1>6. Handlers'
    BY <1>1, <1>3, <1>4, <1>5, GotoKeeps DEF PathInv
<1>7. Counts'
  <2>1. snodeFailureCount \in [Snodes -> Nat]
    BY DEF PathInv, Counts
  <2>2. snodeFailureCount[n] + 1 \in Nat
    BY <1>2, <2>1
  <2>3. snodeFailureCount' \in [Snodes -> Nat]
    BY <1>1, <2>1, <2>2
  <2>4. QED
    BY <1>1, <2>3 DEF PathInv, Counts
<1>8. CountedNodeIsDropped'
  <2> SUFFICES ASSUME NEW m \in Snodes, snodeFailureCount'[m] >= failureThreshold
               PROVE  \E s \in Requests : req'[s].pc = "drop" /\ req'[s].node = m
    BY DEF CountedNodeIsDropped
  <2>1. \A s \in Requests : s # r => req'[s] = req[s]
    BY <1>1 DEF PathInv, Handlers, Goto
  <2>2. CASE m = n
    <3>1. often
      BY <1>1, <1>2, <2>2 DEF PathInv, Counts
    <3>2. req'[r] = drops
      BY <1>1, <3>1 DEF PathInv, Handlers, Goto
    <3>3. QED
      BY <1>4, <2>2, <3>2
  <2>3. CASE m # n
    <3>1. snodeFailureCount'[m] = snodeFailureCount[m]
      BY <1>1, <1>2, <2>3 DEF PathInv, Counts
    <3>2. PICK s \in Requests : req[s].pc = "drop" /\ req[s].node = m
      BY <3>1 DEF PathInv, CountedNodeIsDropped
    <3>3. QED
      BY <1>1, <2>1, <3>2
  <2>4. QED
    BY <2>2, <2>3
<1>9. pool' \subseteq Snodes
    BY <1>1 DEF PathInv, Others
<1>10. QED
    BY <1>1, <1>6, <1>7, <1>8, <1>9 DEF PathInv, Paths, Others

LEMMA GoOnKeeps ==
    ASSUME Handlers, NEW r \in Requests, GoOn(r)
    PROVE  Handlers' /\ req'[r].pc = "count" /\ \A s \in Requests : s # r => req'[s] = req[s]
<1> DEFINE state == [Against(req[r].rest) EXCEPT !.guard = req[r].guard, !.count = req[r].count]
<1>1. req[r] \in Handling
    BY DEF Handlers
<1>2. Against(req[r].rest) \in Handling /\ Against(req[r].rest).pc = "count"
    BY <1>1, NewStates DEF Handling
<1>3. state \in Handling /\ state.pc = "count"
    BY <1>1, <1>2 DEF Handling
<1>4. Goto(r, state)
    BY DEF GoOn
<1> HIDE DEF state
<1>5. Knows(state)
    BY <1>3 DEF Knows
<1>6. req' = [req EXCEPT ![r] = state]
    BY <1>4 DEF Goto
<1>7. QED
    BY <1>3, <1>4, <1>5, <1>6, GotoKeeps DEF Handlers

\* the nodes of a path there is are in use
LEMMA NodesAreInUse ==
    ASSUME NEW paths, NEW i \in DOMAIN paths
    PROVE  Nodes(paths[i]) \subseteq InUse(paths)
    BY DEF InUse

LEMMA dropSnodeFromPathKeeps ==
    ASSUME OnionAssumption, PathInv, NEW r \in Requests, dropSnodeFromPath(r)
    PROVE  PathInv'
<1> DEFINE n == req[r].node
           i == PathWith(n)
           waits == [req[r] EXCEPT !.pc = "seed", !.now = FALSE, !.index = i,
                       !.path = onionPaths[i], !.exclude = ToExclude(i)]
<1>1. /\ req[r].pc = "drop"
      /\ snodeFailureCount' = [snodeFailureCount EXCEPT ![n] = 0]
      /\ \/ Goto(r, Idle) /\ UNCHANGED onionPaths
         \/ GoOn(r) /\ UNCHANGED onionPaths
         \/ /\ i > 0 /\ GoOn(r)
            /\ \E s \in pool \ ToExclude(i) : PatchPath(i, Patched(onionPaths[i], n, s))
         \/ i > 0 /\ Goto(r, waits) /\ UNCHANGED onionPaths
      /\ UNCHANGED <<pool, guardNodes, pathFailureCount, build, faults>>
    BY DEF dropSnodeFromPath, At, Recount, Done
<1>2. i > 0 => /\ i \in DOMAIN onionPaths /\ i \in Nat \ {0} /\ n \in Nodes(onionPaths[i])
              /\ onionPaths[i] # <<>> /\ onionPaths[i] \in Seq(Snodes)
    BY PathWithFinds DEF PathInv, Paths
<1> HIDE DEF i
<1>3. i > 0 => Whole(onionPaths[i]) /\ Nodes(onionPaths[i]) \subseteq ToExclude(i)
  <2>1. i > 0 => Whole(onionPaths[i])
    BY <1>2 DEF PathInv, Paths, AllWhole
  <2>2. i > 0 => Nodes(onionPaths[i]) \subseteq InUse(onionPaths)
    BY <1>2, NodesAreInUse
  <2>3. QED
    BY <2>1, <2>2 DEF ToExclude
<1>4. ToExclude(i) \in SUBSET Snodes
  <2>1. \A j \in DOMAIN onionPaths : onionPaths[j] \in Seq(Snodes)
    BY DEF PathInv, Paths
  <2>2. \A j \in DOMAIN onionPaths : Nodes(onionPaths[j]) \subseteq Snodes
    BY <2>1 DEF Nodes
  <2>3. QED
    BY <2>2 DEF ToExclude, InUse
<1>5. Handlers' /\ req'[r].pc # "drop" /\ \A s \in Requests : s # r => req'[s] = req[s]
  <2>1. CASE GoOn(r)
    BY <2>1, GoOnKeeps DEF PathInv
  <2>2. CASE Goto(r, Idle)
    <3>1. req' = [req EXCEPT ![r] = Idle]
      BY <2>2 DEF Goto
    <3>2. Idle.pc # "drop"
      BY DEF Idle
    <3>3. QED
      BY <2>2, <3>1, <3>2, NewStates, GotoKeeps DEF PathInv, Handlers
  <2>3. CASE i > 0 /\ Goto(r, waits)
    <3>1. req[r] \in Handling
      BY DEF PathInv, Handlers
    <3>2. /\ waits \in Handling /\ waits.pc = "seed" /\ waits.index = i /\ waits.node = n
          /\ waits.path = onionPaths[i] /\ waits.exclude = ToExclude(i)
      BY <1>2, <1>4, <2>3, <3>1 DEF Handling
    <3> HIDE DEF waits
    <3>3. Knows(waits)
      BY <1>2, <1>3, <2>3, <3>2 DEF Knows
    <3>4. req' = [req EXCEPT ![r] = waits]
      BY <2>3 DEF Goto
    <3>5. QED
      BY <2>3, <3>2, <3>3, <3>4, GotoKeeps DEF PathInv, Handlers
  <2>4. QED
    BY <1>1, <2>1, <2>2, <2>3
<1> HIDE DEF waits
<1>6. Paths'
  <2>1. CASE UNCHANGED onionPaths
    BY <2>1 DEF PathInv, Paths
  <2>2. CASE i > 0 /\ \E s \in pool \ ToExclude(i) : PatchPath(i, Patched(onionPaths[i], n, s))
    <3>1. PICK s \in pool \ ToExclude(i) : PatchPath(i, Patched(onionPaths[i], n, s))
      BY <2>2
    <3>2. s \in Snodes /\ s \notin Nodes(onionPaths[i])
      BY <1>3, <2>2, <3>1 DEF PathInv, Others
    <3>3. Whole(Patched(onionPaths[i], n, s))
      BY <1>2, <1>3, <2>2, <3>2, PatchedIsWhole
    <3>4. QED
      BY <1>2, <2>2, <3>1, <3>3, PatchPathKeeps DEF PathInv, Paths
  <2>3. QED
    BY <1>1, <2>1, <2>2
<1>7. Counts'
    BY <1>1 DEF PathInv, Counts
<1>8. CountedNodeIsDropped'
  <2> SUFFICES ASSUME NEW m \in Snodes, snodeFailureCount'[m] >= failureThreshold
               PROVE  \E s \in Requests : req'[s].pc = "drop" /\ req'[s].node = m
    BY DEF CountedNodeIsDropped
  <2>1. m # n /\ snodeFailureCount'[m] = snodeFailureCount[m]
    BY <1>1 DEF PathInv, Counts, OnionAssumption
  <2>2. PICK s \in Requests : req[s].pc = "drop" /\ req[s].node = m
    BY <2>1 DEF PathInv, CountedNodeIsDropped
  <2>3. s # r
    BY <2>1, <2>2
  <2>4. QED
    BY <1>5, <2>2, <2>3
<1>9. QED
    BY <1>1, <1>5, <1>6, <1>7, <1>8 DEF PathInv, Others

LEMMA SeededForPathKeeps ==
    ASSUME OnionAssumption, PathInv, NEW r \in Requests, SeededForPath(r)
    PROVE  PathInv'
<1>1. /\ req[r].pc = "seed" /\ Seeded /\ GoOn(r)
      /\ \E s \in Snodes \ req[r].exclude :
            PatchPath(req[r].index, Patched(req[r].path, req[r].node, s))
      /\ UNCHANGED <<guardNodes, build, faults>>
    BY DEF SeededForPath, At
<1>2. /\ Whole(req[r].path) /\ req[r].index \in Nat \ {0}
      /\ req[r].node \in Nodes(req[r].path) /\ Nodes(req[r].path) \subseteq req[r].exclude
    BY <1>1 DEF PathInv, Handlers, HandlersKnow, Knows
<1>3. PICK s \in Snodes \ req[r].exclude :
        PatchPath(req[r].index, Patched(req[r].path, req[r].node, s))
    BY <1>1
<1>4. Whole(Patched(req[r].path, req[r].node, s))
    BY <1>2, <1>3, PatchedIsWhole
<1>5. Paths'
    BY <1>2, <1>3, <1>4, PatchPathKeeps DEF PathInv, Paths
<1>6. Handlers'
    BY <1>1, GoOnKeeps DEF PathInv
<1>7. QED
    BY <1>1, <1>5, <1>6, SeededCounts DEF PathInv, Others

LEMMA NotSeededKeeps ==
    ASSUME PathInv, NEW r \in Requests, NotSeeded(r)
    PROVE  PathInv'
<1>1. /\ req[r].pc = "seed" /\ Goto(r, Idle) /\ faults' = faults + 1
      /\ UNCHANGED <<pool, onionPaths, guardNodes, pathFailureCount, snodeFailureCount, build>>
    BY DEF NotSeeded, At, Done, Fault, counts
<1>2. Handlers' /\ CountedNodeIsDropped'
    BY <1>1, NewStates, GotoKeeps, CountsStay DEF PathInv
<1>3. QED
    BY <1>1, <1>2 DEF PathInv, Paths, Counts, Others

-----------------------------------------------------------------------------
(* The path a failure counts against *)

LEMMA PathCountedKeeps ==
    ASSUME PathInv, NEW r \in Requests, PathCounted(r)
    PROVE  PathInv'
<1> DEFINE g == req[r].guard
           drops == [Idle EXCEPT !.pc = "dropPath", !.now = g \notin pool, !.guard = g]
<1>1. /\ req[r].pc = "count"
      /\ \/ Goto(r, Idle) /\ UNCHANGED <<pool, pathFailureCount>>
         \/ /\ g # NoSnode /\ ~(req[r].count >= failureThreshold)
            /\ pathFailureCount' = [pathFailureCount EXCEPT ![g] = req[r].count]
            /\ Goto(r, Idle) /\ UNCHANGED pool
         \/ g # NoSnode /\ pool' = pool \ {g} /\ Goto(r, drops) /\ UNCHANGED pathFailureCount
      /\ UNCHANGED <<onionPaths, guardNodes, snodeFailureCount, build, faults>>
    BY DEF PathCounted, At, TooOften, Done, dropSnodeFromSnodePool
<1>2. req[r] \in Handling
    BY DEF PathInv, Handlers
<1>3. g # NoSnode => drops \in Handling /\ drops.pc = "dropPath"
  <2>1. Idle \in Handling
    BY NewStates
  <2>2. QED
    BY <1>2, <2>1 DEF Handling
<1> HIDE DEF drops
<1>4. PICK state \in Handling : Knows(state) /\ Goto(r, state)
  <2>1. g # NoSnode => Knows(drops)
    BY <1>3 DEF Knows
  <2>2. QED
    BY <1>1, <1>3, <2>1, NewStates
<1>5. Handlers' /\ CountedNodeIsDropped'
    BY <1>1, <1>4, GotoKeeps, CountsStay DEF PathInv
<1>6. Counts'
  <2>1. CASE pathFailureCount' = [pathFailureCount EXCEPT ![g] = req[r].count]
             /\ ~(req[r].count >= failureThreshold)
    <3>1. req[r].count \in Nat /\ failureThreshold \in Nat
      BY <1>2, OnionAssumption DEF Handling, OnionAssumption
    <3>2. req[r].count \in 0..(failureThreshold - 1)
      BY <2>1, <3>1
    <3>3. QED
      BY <1>1, <2>1, <3>2 DEF PathInv, Counts
  <2>2. CASE UNCHANGED pathFailureCount
    BY <1>1, <2>2 DEF PathInv, Counts
  <2>3. QED
    BY <1>1, <2>1, <2>2
<1>7. pool' \subseteq Snodes
    BY <1>1 DEF PathInv, Others
<1>8. QED
    BY <1>1, <1>5, <1>6, <1>7 DEF PathInv, Paths, Others

LEMMA dropPathStartingWithGuardNodeKeeps ==
    ASSUME PathInv, NEW r \in Requests, dropPathStartingWithGuardNode(r)
    PROVE  PathInv'
<1> DEFINE g == req[r].guard
           places == {i \in DOMAIN onionPaths : onionPaths[i] # <<>> /\ onionPaths[i][1] # g}
           next == [req[r] EXCEPT !.pc = "rebuild", !.now = FALSE]
<1>1. /\ req[r].pc = "dropPath"
      /\ \/ Goto(r, Idle) /\ UNCHANGED <<onionPaths, guardNodes>>
         \/ Keep(places) /\ guardNodes' = guardNodes \ {g} /\ Goto(r, next)
      /\ UNCHANGED <<pool, pathFailureCount, snodeFailureCount, build, faults>>
    BY DEF dropPathStartingWithGuardNode, At, Done, counts
<1>2. next \in Handling /\ next.pc = "rebuild"
  <2>1. req[r] \in Handling
    BY DEF PathInv, Handlers
  <2>2. QED
    BY <2>1 DEF Handling
<1> HIDE DEF next
<1>3. Knows(next)
    BY <1>2 DEF Knows
<1>4. PICK state \in Handling : Knows(state) /\ Goto(r, state)
    BY <1>1, <1>2, <1>3, NewStates
<1>5. Handlers' /\ CountedNodeIsDropped'
    BY <1>1, <1>4, GotoKeeps, CountsStay DEF PathInv
<1>6. Paths'
  <2>1. places \subseteq DOMAIN onionPaths
    OBVIOUS
  <2> HIDE DEF places
  <2>2. CASE Keep(places)
    BY <2>1, <2>2, KeepKeeps DEF PathInv, Paths
  <2>3. CASE UNCHANGED onionPaths
    BY <2>3 DEF PathInv, Paths
  <2>4. QED
    BY <1>1, <2>2, <2>3
<1>7. guardNodes' \subseteq Snodes
    BY <1>1 DEF PathInv, Others
<1>8. QED
    BY <1>1, <1>5, <1>6, <1>7 DEF PathInv, Counts, Others

LEMMA RebuildKeeps ==
    ASSUME OnionAssumption, PathInv, NEW r \in Requests, Rebuild(r)
    PROVE  PathInv'
<1> DEFINE next == [Idle EXCEPT !.pc = "build"]
<1>1. /\ req[r].pc = "rebuild" /\ Goto(r, next)
      /\ pathFailureCount' = [pathFailureCount EXCEPT ![req[r].guard] = 0]
      /\ build' = IF build.pc = "idle" THEN [NoBuild EXCEPT !.pc = "pool"] ELSE build
      /\ UNCHANGED <<pool, onionPaths, guardNodes, snodeFailureCount, faults>>
    BY DEF Rebuild, At, buildNewOnionPathsOneAtATime
<1>2. next \in Handling /\ next.pc = "build"
  <2>1. Idle \in Handling
    BY NewStates
  <2>2. QED
    BY <2>1 DEF Handling
<1> HIDE DEF next
<1>3. Knows(next)
    BY <1>2 DEF Knows
<1>4. Handlers' /\ CountedNodeIsDropped'
    BY <1>1, <1>2, <1>3, GotoKeeps, CountsStay DEF PathInv
<1>5. Counts'
  <2>1. 0 \in 0..(failureThreshold - 1)
    BY DEF OnionAssumption
  <2>2. QED
    BY <1>1, <2>1 DEF PathInv, Counts
<1>6. Others'
    BY <1>1 DEF PathInv, Others, NoBuild
<1>7. QED
    BY <1>1, <1>4, <1>5, <1>6 DEF PathInv, Paths

-----------------------------------------------------------------------------
(* The build of the paths *)

LEMMA BuildEndsKeeps ==
    ASSUME PathInv, BuildEnds, UNCHANGED snodeFailureCount
    PROVE  Handlers' /\ CountedNodeIsDropped' /\ build' = NoBuild
<1>1. /\ build' = NoBuild
      /\ req' = [r \in Requests |-> IF req[r].pc = "build" THEN Idle ELSE req[r]]
    BY DEF BuildEnds, EndOfBuild
<1>2. Handlers'
    BY <1>1, NewStates DEF PathInv, Handlers, HandlersKnow
<1>3. CountedNodeIsDropped'
    BY <1>1 DEF PathInv, CountedNodeIsDropped
<1>4. QED
    BY <1>1, <1>2, <1>3

LEMMA BuildStepKeeps ==
    ASSUME OnionAssumption, PathInv, BuildStep
    PROVE  PathInv'
<1>1. CASE StartBuild \/ getGuardNodeOrSelectNewOnes
  <2>1. /\ build' \in {[NoBuild EXCEPT !.pc = "load"], [NoBuild EXCEPT !.pc = "make"],
                        [pc |-> "guards", from |-> pool]}
        /\ UNCHANGED <<pool, onionPaths, guardNodes, pathFailureCount, snodeFailureCount, req, faults>>
    BY <1>1 DEF StartBuild, getGuardNodeOrSelectNewOnes, SelectFrom, counts
  <2>2. Others'
    BY <2>1 DEF PathInv, Others, NoBuild
  <2>3. QED
    BY <2>1, <2>2 DEF PathInv, Paths, Counts, Handlers, HandlersKnow, CountedNodeIsDropped
<1>2. CASE BuildSeeded
  <2>1. Seeded /\ UNCHANGED <<onionPaths, guardNodes, req, build, faults>>
    BY <1>2 DEF BuildSeeded
  <2>2. QED
    BY <2>1, SeededCounts DEF PathInv, Paths, Handlers, HandlersKnow, Others
<1>3. CASE selectGuardNodes
  <2>1. /\ build' = [NoBuild EXCEPT !.pc = "make"] /\ guardNodes' \in SUBSET build.from
        /\ UNCHANGED <<pool, onionPaths, pathFailureCount, snodeFailureCount, req, faults>>
    BY <1>3 DEF selectGuardNodes, kSubset, counts
  <2>2. Others'
    BY <2>1 DEF PathInv, Others, NoBuild
  <2>3. QED
    BY <2>1, <2>2 DEF PathInv, Paths, Counts, Handlers, HandlersKnow, CountedNodeIsDropped
<1>4. CASE MakePaths
  <2>1. /\ NewPaths /\ BuildEnds
        /\ UNCHANGED <<pool, guardNodes, pathFailureCount, snodeFailureCount, faults>>
    BY <1>4 DEF MakePaths, counts
  <2>2. Paths'
    BY <2>1, NewPathsAreWhole DEF PathInv, Others, Paths
  <2>3. Handlers' /\ CountedNodeIsDropped' /\ build' = NoBuild
    BY <2>1, BuildEndsKeeps
  <2>4. QED
    BY <2>1, <2>2, <2>3 DEF PathInv, Counts, Others, NoBuild
<1>5. QED
    BY <1>1, <1>2, <1>3, <1>4 DEF BuildStep

LEMMA BuildFailsKeeps == PathInv /\ BuildFails => PathInv'
<1> SUFFICES ASSUME PathInv, BuildFails
             PROVE  PathInv'
    OBVIOUS
<1>1. /\ BuildEnds /\ faults' = faults + 1
      /\ UNCHANGED <<pool, onionPaths, guardNodes, pathFailureCount, snodeFailureCount>>
    BY DEF BuildFails, Fault, counts
<1>2. Handlers' /\ CountedNodeIsDropped' /\ build' = NoBuild
    BY <1>1, BuildEndsKeeps
<1>3. QED
    BY <1>1, <1>2 DEF PathInv, Paths, Counts, Others, NoBuild

-----------------------------------------------------------------------------
(* The theorems *)

LEMMA PathInvStep == OnionAssumption /\ PathInv /\ [Next]_vars => PathInv'
<1> SUFFICES ASSUME OnionAssumption, PathInv, [Next]_vars
             PROVE  PathInv'
    OBVIOUS
<1>1. ASSUME NEW r \in Requests, \E n \in Dead : SendRequest(r, n)
      PROVE  PathInv'
    BY <1>1, SendRequestKeeps
<1>2. ASSUME NEW r \in Requests, getOnionPath(r) \/ ErrorStep(r)
      PROVE  PathInv'
    BY <1>2, getOnionPathKeeps, NodeNotFoundKeeps, DestinationFailsKeeps,
       incrementBadPathCountOrDropKeeps DEF ErrorStep
<1>3. ASSUME NEW r \in Requests, HandleStep(r) \/ NotSeeded(r)
      PROVE  PathInv'
    BY <1>3, IncrementKeeps, dropSnodeFromPathKeeps, SeededForPathKeeps, NotSeededKeeps,
       PathCountedKeeps, dropPathStartingWithGuardNodeKeeps, RebuildKeeps DEF HandleStep
<1>4. CASE BuildStep \/ BuildFails
    BY <1>4, BuildStepKeeps, BuildFailsKeeps
<1>5. CASE UNCHANGED vars
    BY <1>5 DEF vars, counts, PathInv, Paths, Counts, Handlers, HandlersKnow, CountedNodeIsDropped,
                Others
<1>6. QED
    BY <1>1, <1>2, <1>3, <1>4, <1>5 DEF Next

\* The inductive invariant: paths are whole, and so is the path a drop that waits
\* for the pool will write back, with the dropped node in it and all of it excluded.
THEOREM PathInvariant == Spec => []PathInv
<1>1. Init => PathInv
    BY PathInvInit, OnionAssumption
<1>2. PathInv /\ [Next]_vars => PathInv'
    BY PathInvStep, OnionAssumption
<1>3. QED
    BY <1>1, <1>2, PTL DEF Spec

\* The type of the paths, the counts and the handlers.
THEOREM TypeCorrect == Spec => []TypeOK
<1>1. PathInv => TypeOK
    BY InvariantParts
<1>2. QED
    BY <1>1, PathInvariant, PTL

\* However many requests fail at a time, every path keeps its length and has no
\* node twice (dropSnodeFromPath, buildNewOnionPathsWorker).
THEOREM WholePathsStay == Spec => []PathsAreWhole
<1>1. PathInv => PathsAreWhole
    BY InvariantParts
<1>2. QED
    BY <1>1, PathInvariant, PTL

\* A node whose count reached the threshold is being dropped, by a request that
\* will reset its count (incrementBadSnodeCountOrDrop).
THEOREM CountedNodesAreDropped == Spec => []CountedNodeIsDropped
<1>1. PathInv => CountedNodeIsDropped
    BY DEF PathInv
<1>2. QED
    BY <1>1, PathInvariant, PTL
=============================================================================
