----------------------------- MODULE OnionPaths -----------------------------
(***************************************************************************)
(* The onion paths every request goes through, and what failures do to     *)
(* them (session/onions/onionPath.ts, apis/snode_api/onions.ts): a failed  *)
(* request counts against the nodes of its path, and drops a node, or the  *)
(* whole path, once they failed often enough; a node that is dropped is    *)
(* replaced in its path, a path that is dropped has all of them built      *)
(* again.  The nodes come from the pool (apis/snode_api/snodePool.ts),     *)
(* which a seed node fills.                                                *)
(*                                                                         *)
(* Requests fail at the same time, and each handles its failure over       *)
(* several awaits, between which the others change the paths.              *)
(***************************************************************************)
EXTENDS Integers, Sequences, FiniteSets, Functions, FiniteSetsExt, SequencesExt

CONSTANTS
    Snodes,                 \* nodes of the network
    Dead,                   \* those that do not answer
    Requests,               \* requests that run at a time
    ONION_REQUEST_HOPS,
    desiredGuardCount,
    minSnodePoolCount,
    failureThreshold,       \* of a node, and of a path
    MaxFaults               \* bound: failures of seeds and of guard tests

ASSUME OnionAssumption ==
    /\ IsFiniteSet(Snodes) /\ Dead \subseteq Snodes
    /\ ONION_REQUEST_HOPS \in Nat /\ ONION_REQUEST_HOPS >= 2
    /\ desiredGuardCount \in Nat \ {0}
    /\ failureThreshold \in Nat \ {0}
    /\ minSnodePoolCount \in Nat /\ minSnodePoolCount + 1 >= desiredGuardCount * ONION_REQUEST_HOPS
    \* what a seed node lists is enough to replace a node of a path
    /\ Cardinality(Snodes) >= minSnodePoolCount + desiredGuardCount * ONION_REQUEST_HOPS
    /\ MaxFaults \in Nat

VARIABLES
    pool,                   \* randomSnodePool
    onionPaths,             \* sequence of paths, which start with their guard; <<>> is a hole
    guardNodes,
    pathFailureCount,       \* by guard node
    snodeFailureCount,
    req,                    \* where each request, and what it knows, is
    build,                  \* buildNewOnionPathsWorker
    faults

counts == <<pathFailureCount, snodeFailureCount>>
vars == <<pool, onionPaths, guardNodes, counts, req, build, faults>>

NoSnode == "no snode"

NoCounts == [n \in Snodes |-> 0]

Fault == faults < MaxFaults /\ faults' = faults + 1

\* now: it waits for nothing; node is the one that is dead, or is dropped; rest
\* are those the failure still counts against; guard and count are of the path
\* that failed, if it was a path; path, index and exclude are what a drop knew
\* before it waited for the pool
Idle == [pc |-> "idle", now |-> FALSE, node |-> NoSnode, rest |-> <<>>, guard |-> NoSnode, count |-> 0,
         path |-> <<>>, index |-> 0, exclude |-> {}]

NoBuild == [pc |-> "idle", from |-> {}]

\* What goes on without waiting for the database or the network is not
\* interrupted: while one handler runs nothing else does.
At(r, pc) == req[r].pc = pc /\ \A s \in Requests \ {r} : ~req[s].now

NoneRuns == \A r \in Requests : ~req[r].now

BuildAt(pc) == build.pc = pc /\ NoneRuns

Goto(r, state) == req' = [req EXCEPT ![r] = state]

\* the handling of a failure ends, or throws
Done(r) == Goto(r, Idle)

Nodes(path) == {path[h] : h \in DOMAIN path}

InUse(paths) == UNION {Nodes(paths[i]) : i \in DOMAIN paths}

\* as many as there are in all paths, a node in two of them twice
Length(paths) == FoldSeq(LAMBDA p, n : n + Len(p), 0, paths)

\* "one action resolves all": whoever asks for a build waits for the one that
\* is under way
buildNewOnionPathsOneAtATime == build' = IF build.pc = "idle" THEN [NoBuild EXCEPT !.pc = "pool"] ELSE build

Init ==
    /\ pool \in {{}, Snodes}
    /\ onionPaths = <<>> /\ guardNodes = {}
    /\ pathFailureCount = NoCounts /\ snodeFailureCount = NoCounts
    /\ req = [r \in Requests |-> Idle]
    /\ build = NoBuild
    /\ faults = 0

-----------------------------------------------------------------------------
(* Requests *)

\* getOnionPath gives one of the paths there are.  Only requests that will fail
\* are sent here, for a node of the path or for their destination: the others
\* change nothing.
SendRequest(r, n) ==
    /\ At(r, "idle")
    /\ \E i \in DOMAIN onionPaths :
         LET dead == Nodes(onionPaths[i]) \cap Dead
             sent == [Idle EXCEPT !.node = n, !.guard = onionPaths[i][1]]
         IN  /\ onionPaths[i] # <<>>
             /\ \/ n \in dead /\ Goto(r, [sent EXCEPT !.pc = "onPath"])
                \/ dead = {} /\ Goto(r, [sent EXCEPT !.pc = "atDestination"])
    /\ UNCHANGED <<pool, onionPaths, guardNodes, counts, build, faults>>

\* Without a path it has them built.  One that gave up after its ten attempts
\* and was sent again is one that goes on.
getOnionPath(r) ==
    /\ At(r, "idle") /\ onionPaths = <<>>
    /\ Goto(r, [Idle EXCEPT !.pc = "build"])
    /\ buildNewOnionPathsOneAtATime
    /\ UNCHANGED <<pool, onionPaths, guardNodes, counts, faults>>

\* findIndex: the first path that fits, 0 if there is none, -1 if a hole comes
\* first (it throws)
FindIndex(Fits(_)) ==
    LET hits == {i \in DOMAIN onionPaths : onionPaths[i] = <<>> \/ Fits(onionPaths[i])}
    IN  IF hits = {} THEN 0 ELSE IF onionPaths[Min(hits)] = <<>> THEN -1 ELSE Min(hits)

PathWith(n) == FindIndex(LAMBDA p : n \in Nodes(p))

Fails(r) == At(r, "onPath") \/ At(r, "atDestination")

\* the database is only waited for if it was there
dropSnodeFromSnodePool(n) == pool' = pool \ {n}

\* The node before it does not find the dead one (handleNodeNotFound): that one
\* is dropped.
NodeNotFound(r) ==
    /\ Fails(r) /\ req[r].node # req[r].guard
    /\ dropSnodeFromSnodePool(req[r].node)
    /\ Goto(r, [Idle EXCEPT !.pc = "drop", !.now = req[r].node \notin pool, !.node = req[r].node])
    /\ UNCHANGED <<onionPaths, guardNodes, counts, build, faults>>

Against(nodes) == [Idle EXCEPT !.pc = "count", !.now = TRUE, !.rest = nodes]

\* an error of the destination counts against it alone
DestinationFails(r) ==
    /\ At(r, "atDestination")
    /\ Goto(r, Against(<<req[r].node>>))
    /\ UNCHANGED <<pool, onionPaths, guardNodes, counts, build, faults>>

\* seeded fault: the failure is not counted
NewCount_same(old) == old

NewCount(old) == old + 1

\* Any other error on the path, or none at all before the timeout, counts
\* against all of the path that has its guard node now.
incrementBadPathCountOrDrop(r) ==
    /\ At(r, "onPath")
    /\ LET i == PathWith(req[r].guard)
           path == onionPaths[i]
       IN  \/ i = -1 /\ Done(r)
           \/ i = 0 /\ Goto(r, Against(<<req[r].guard>>))
           \/ i > 0 /\ Goto(r, [Against(Tail(path)) EXCEPT !.guard = path[1],
                                  !.count = NewCount(pathFailureCount[path[1]])])
    /\ UNCHANGED <<pool, onionPaths, guardNodes, counts, build, faults>>

ErrorStep(r) == NodeNotFound(r) \/ DestinationFails(r) \/ incrementBadPathCountOrDrop(r)

-----------------------------------------------------------------------------
(* incrementBadSnodeCountOrDrop, for each node a failure counts against *)

Increment(r) ==
    /\ At(r, "count") /\ req[r].rest # <<>>
    /\ LET n == Head(req[r].rest)
           goOn == [req[r] EXCEPT !.rest = Tail(@)]
       IN  /\ snodeFailureCount' = [snodeFailureCount EXCEPT ![n] = @ + 1]
           /\ IF snodeFailureCount[n] + 1 >= failureThreshold
              THEN /\ dropSnodeFromSnodePool(n)
                   /\ Goto(r, [goOn EXCEPT !.pc = "drop", !.now = n \notin pool, !.node = n])
              ELSE UNCHANGED pool /\ Goto(r, goOn)
    /\ UNCHANGED <<onionPaths, guardNodes, pathFailureCount, build, faults>>

\* seeded fault: only the nodes of the other paths are excluded
ToExclude_others(i) == InUse([onionPaths EXCEPT ![i] = <<>>])

\* the nodes a replacement is not taken from
ToExclude(i) == InUse(onionPaths)

\* seeded fault: the count is kept
Recount_not(n) == snodeFailureCount

Recount(n) == [snodeFailureCount EXCEPT ![n] = 0]

\* the path without n, which is in it once, and with s at its end
Patched(path, n, s) ==
    LET k == CHOOSE h \in DOMAIN path : path[h] = n
    IN  [h \in DOMAIN path |-> IF h = Len(path) THEN s ELSE IF h < k THEN path[h] ELSE path[h + 1]]

\* onionPaths[pathWithSnodeIndex] = pathToPatchUp, whatever is there by now
PatchPath(i, path) ==
    onionPaths' = [j \in 1..Max({i, Len(onionPaths)}) |->
                     IF j = i THEN path ELSE IF j \in DOMAIN onionPaths THEN onionPaths[j] ELSE <<>>]

HasHole == \E i \in DOMAIN onionPaths : onionPaths[i] = <<>>

GoOn(r) == Goto(r, [Against(req[r].rest) EXCEPT !.guard = req[r].guard, !.count = req[r].count])

\* The node is out of the pool.  dropSnodeFromPath copies the paths, and has
\* getRandomSnode take another node at once if the pool is large enough.
dropSnodeFromPath(r) ==
    /\ At(r, "drop")
    /\ LET n == req[r].node
           i == PathWith(n)
           enough == Cardinality(pool) >= minSnodePoolCount + Length(onionPaths)
           free == pool \ ToExclude(i)
       IN  /\ snodeFailureCount' = Recount(n)
           /\ \/ HasHole /\ Done(r) /\ UNCHANGED onionPaths
              \/ i = 0 /\ GoOn(r) /\ UNCHANGED onionPaths
              \/ /\ i > 0 /\ ~HasHole /\ enough /\ free # {}
                 /\ \E s \in free : PatchPath(i, Patched(onionPaths[i], n, s))
                 /\ GoOn(r)
              \/ /\ i > 0 /\ ~HasHole /\ enough /\ free = {}
                 /\ Done(r) /\ UNCHANGED onionPaths
              \/ /\ i > 0 /\ ~HasHole /\ ~enough
                 /\ Goto(r, [req[r] EXCEPT !.pc = "seed", !.now = FALSE, !.index = i,
                               !.path = onionPaths[i], !.exclude = ToExclude(i)])
                 /\ UNCHANGED onionPaths
    /\ UNCHANGED <<pool, guardNodes, pathFailureCount, build, faults>>

\* fetchFromSeedWithRetriesAndWriteToDb: the pool is all there are, and what
\* failed before is forgotten
Seeded == pool' = Snodes /\ pathFailureCount' = NoCounts /\ snodeFailureCount' = NoCounts

\* The pool was fetched first; the path is patched as it was before.
SeededForPath(r) ==
    /\ At(r, "seed")
    /\ Seeded
    /\ \E s \in Snodes \ req[r].exclude :
         PatchPath(req[r].index, Patched(req[r].path, req[r].node, s))
    /\ GoOn(r)
    /\ UNCHANGED <<guardNodes, build, faults>>

\* the seeds do not answer: what dropped the node throws
NotSeeded(r) ==
    /\ Fault /\ At(r, "seed")
    /\ Done(r)
    /\ UNCHANGED <<pool, onionPaths, guardNodes, counts, build>>

\* seeded fault: one failure more
TooOften_more(count) == count > failureThreshold

TooOften(count) == count >= failureThreshold

\* the failure was counted against every node, and now is against the path
PathCounted(r) ==
    /\ At(r, "count") /\ req[r].rest = <<>>
    /\ LET g == req[r].guard
       IN  \/ /\ g = NoSnode
              /\ Done(r) /\ UNCHANGED <<pool, pathFailureCount>>
           \/ /\ g # NoSnode /\ ~TooOften(req[r].count)
              /\ pathFailureCount' = [pathFailureCount EXCEPT ![g] = req[r].count]
              /\ Done(r) /\ UNCHANGED pool
           \/ /\ g # NoSnode /\ TooOften(req[r].count)
              /\ dropSnodeFromSnodePool(g)
              /\ Goto(r, [Idle EXCEPT !.pc = "dropPath", !.now = g \notin pool, !.guard = g])
              /\ UNCHANGED pathFailureCount
    /\ UNCHANGED <<onionPaths, guardNodes, snodeFailureCount, build, faults>>

\* the paths at these places stay, in their order
Keep(places) ==
    \E n \in 0..Len(onionPaths) : \E at \in [1..n -> places] :
        /\ Range(at) = places
        /\ \A i, j \in 1..n : i < j => at[i] < at[j]
        /\ onionPaths' = [i \in 1..n |-> onionPaths[at[i]]]

\* the guard node is out of the pool
dropPathStartingWithGuardNode(r) ==
    /\ At(r, "dropPath")
    /\ LET g == req[r].guard
       IN  IF FindIndex(LAMBDA p : p[1] = g) = -1
           THEN Done(r) /\ UNCHANGED <<onionPaths, guardNodes>>
           ELSE /\ Keep({i \in DOMAIN onionPaths : onionPaths[i] # <<>> /\ onionPaths[i][1] # g})
                /\ guardNodes' = guardNodes \ {g}
                /\ Goto(r, [req[r] EXCEPT !.pc = "rebuild", !.now = FALSE])
    /\ UNCHANGED <<pool, counts, build, faults>>

\* the guard nodes are saved
Rebuild(r) ==
    /\ At(r, "rebuild")
    /\ pathFailureCount' = [pathFailureCount EXCEPT ![req[r].guard] = 0]
    /\ Goto(r, [Idle EXCEPT !.pc = "build"])
    /\ buildNewOnionPathsOneAtATime
    /\ UNCHANGED <<pool, onionPaths, guardNodes, snodeFailureCount, faults>>

HandleStep(r) ==
    \/ Increment(r) \/ dropSnodeFromPath(r) \/ SeededForPath(r)
    \/ PathCounted(r) \/ dropPathStartingWithGuardNode(r) \/ Rebuild(r)

-----------------------------------------------------------------------------
(* buildNewOnionPathsWorker; its four tries are one here, since whoever    *)
(* needs a path asks again                                                 *)

\* the lock is free, and all that waited go on
EndOfBuild == build' = NoBuild

NeedsPool == BuildAt("pool") \/ BuildAt("load") \/ BuildAt("make")

BuildEnds ==
    /\ EndOfBuild
    /\ req' = [r \in Requests |-> IF req[r].pc = "build" THEN Idle ELSE req[r]]

\* getSnodePoolFromDBOrFetchFromSeed, before the guards and after: a pool that
\* is too small is fetched first
PoolIsSmall == NeedsPool /\ Cardinality(pool) <= minSnodePoolCount

PoolFor(pc) == BuildAt(pc) /\ Cardinality(pool) > minSnodePoolCount

SelectFrom == build' = [pc |-> "guards", from |-> pool]

\* Without any guard it looks in the database first.
StartBuild ==
    /\ PoolFor("pool")
    /\ IF guardNodes = {} THEN build' = [NoBuild EXCEPT !.pc = "load"]
       ELSE IF Cardinality(guardNodes) < desiredGuardCount THEN SelectFrom
       ELSE build' = [NoBuild EXCEPT !.pc = "make"]
    /\ UNCHANGED <<pool, onionPaths, guardNodes, counts, req, faults>>

\* Those in the database, if there are, could be the ones it selects otherwise.
getGuardNodeOrSelectNewOnes ==
    /\ PoolFor("load")
    /\ SelectFrom
    /\ UNCHANGED <<pool, onionPaths, guardNodes, counts, req, faults>>

BuildSeeded ==
    /\ PoolIsSmall
    /\ Seeded
    /\ UNCHANGED <<onionPaths, guardNodes, req, build, faults>>

\* selectGuardNodes tests nodes of the pool as it was
selectGuardNodes ==
    /\ BuildAt("guards")
    /\ \E g \in kSubset(desiredGuardCount, build.from) : guardNodes' = g
    /\ build' = [NoBuild EXCEPT !.pc = "make"]
    /\ UNCHANGED <<pool, onionPaths, counts, req, faults>>

BuildFails ==
    /\ Fault
    /\ PoolIsSmall \/ BuildAt("guards")
    /\ BuildEnds
    /\ UNCHANGED <<pool, onionPaths, guardNodes, counts>>

\* seeded fault: the guard is counted
nodesNeededPerPaths_guard == ONION_REQUEST_HOPS

nodesNeededPerPaths == ONION_REQUEST_HOPS - 1

\* a path for every guard node, as far as the others last
NewPathCount ==
    Min({Cardinality(guardNodes), Cardinality(pool \ guardNodes) \div nodesNeededPerPaths})

PathFrom(g, o, i) == [h \in 1..ONION_REQUEST_HOPS |-> IF h = 1 THEN g[i] ELSE o[<<i, h>>]]

\* the nodes of a path are in no other
NewPaths ==
    \E g \in Injection(1..NewPathCount, guardNodes),
       o \in Injection((1..NewPathCount) \X (2..ONION_REQUEST_HOPS), pool \ guardNodes) :
        onionPaths' = [i \in 1..NewPathCount |-> PathFrom(g, o, i)]

MakePaths ==
    /\ PoolFor("make")
    /\ NewPaths
    /\ BuildEnds
    /\ UNCHANGED <<pool, guardNodes, counts, faults>>

BuildStep ==
    StartBuild \/ getGuardNodeOrSelectNewOnes \/ BuildSeeded \/ selectGuardNodes \/ MakePaths

Next ==
    \/ \E r \in Requests :
         \/ \E n \in Dead : SendRequest(r, n)
         \/ getOnionPath(r) \/ ErrorStep(r)
         \/ HandleStep(r) \/ NotSeeded(r)
    \/ BuildStep \/ BuildFails

Spec == Init /\ [][Next]_vars

\* A request's own steps, and those of the build, are served by the event loop
\* however often others come between.
Handle(r) == ErrorStep(r) \/ HandleStep(r)

Ask(r) == getOnionPath(r) \/ \E n \in Dead : SendRequest(r, n)

FairSpec ==
    /\ Spec
    /\ SF_vars(BuildStep)
    /\ SF_vars(\E r \in Requests : Handle(r))
    /\ SF_vars(\E r \in Requests : Ask(r))

-----------------------------------------------------------------------------
Handling ==
    [pc : {"idle", "onPath", "atDestination", "count", "drop", "seed", "dropPath", "rebuild", "build"},
     now : BOOLEAN, node : Snodes \cup {NoSnode}, rest : Seq(Snodes),
     guard : Snodes \cup {NoSnode}, count : Nat,
     path : Seq(Snodes), index : Nat, exclude : SUBSET Snodes]

TypeOK ==
    /\ pool \subseteq Snodes
    /\ onionPaths \in Seq(Seq(Snodes))
    /\ guardNodes \subseteq Snodes
    \* a path that failed too often is not counted on: it is dropped
    /\ pathFailureCount \in [Snodes -> 0..(failureThreshold - 1)]
    /\ snodeFailureCount \in [Snodes -> Nat]
    /\ req \in [Requests -> Handling]
    /\ build \in [pc : {"idle", "pool", "load", "guards", "make"}, from : SUBSET Snodes]
    /\ faults \in Nat

\* Every path has as many nodes as a request has hops, and no node twice: a
\* node that is dropped is replaced by one that is not in the path, however long
\* the replacement was waited for and whatever happened to the paths meanwhile
\* (dropSnodeFromPath, buildNewOnionPathsWorker).
PathsAreWhole ==
    \A i \in DOMAIN onionPaths :
        onionPaths[i] # <<>> =>
            /\ Len(onionPaths[i]) = ONION_REQUEST_HOPS
            /\ IsInjective(onionPaths[i])

\* A node that failed often enough is about to be dropped; afterwards its count
\* is gone, and cannot drop it again when it comes back (incrementBadSnodeCountOrDrop).
CountedNodeIsDropped ==
    \A n \in Snodes : snodeFailureCount[n] >= failureThreshold =>
        \E r \in Requests : req[r].pc = "drop" /\ req[r].node = n

\* A node that does not answer does not stay in the paths: the requests that
\* fail because of it have it, or the path, dropped, though failures handled at
\* the same time read and reset the counts, patch the path with what they copied
\* and fetch the pool again.
BadNodeLeaves == \A n \in Dead : n \in InUse(onionPaths) ~> n \notin InUse(onionPaths)

\* Without a path one is built again, whoever asks, joins a build or drops a
\* path meanwhile (getOnionPath, allowOnlyOneAtATime).
PathsComeBack == onionPaths = <<>> ~> onionPaths # <<>>
=============================================================================
