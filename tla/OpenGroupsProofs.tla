-------------------------- MODULE OpenGroupsProofs --------------------------
(***************************************************************************)
(* What holds of the rooms of a server and of their messages, for any      *)
(* number of rooms, messages, polls, joins and leaves, failures and ends   *)
(* of the process, in any order: what a poll is past is held, the lists of *)
(* rooms agree, and no message is stored twice.                            *)
(***************************************************************************)
EXTENDS OpenGroups, FiniteSetTheorems, WellFoundedInduction, NaturalsInduction, TLAPS

-----------------------------------------------------------------------------
(* Numbers *)

LEMMA Least ==
    ASSUME NEW S, S \subseteq Nat, S # {}
    PROVE  \E n \in S : \A m \in S : n <= m
<1> DEFINE R == OpToRel(<, Nat)
<1>1. IsWellFoundedOn(R, Nat)
    BY NatLessThanWellFounded
<1>2. ASSUME NEW x \in Nat, NEW y \in Nat, ~(<<x, y>> \in R)
      PROVE  y <= x
  <2>1. ~(x < y)
    BY <1>2 DEF OpToRel
  <2>2. QED
    BY <2>1
<1> HIDE DEF R
<1>3. PICK x \in S : \A y \in S : ~(<<y, x>> \in R)
    BY <1>1, WFMin
<1>4. \A y \in S : x <= y
    BY <1>2, <1>3
<1>5. QED
    BY <1>4

\* the largest number of a finite set has the fewest above it
LEMMA MaxFacts ==
    ASSUME NEW S, S \subseteq Nat, S # {}, IsFiniteSet(S)
    PROVE  Max(S) \in S /\ \A m \in S : m <= Max(S)
<1> DEFINE Above(x) == {y \in S : y > x}
<1>1. \A x \in S : Cardinality(Above(x)) \in Nat /\ IsFiniteSet(Above(x))
    BY FS_Subset, FS_CardinalityType
<1>2. PICK x \in S : \A y \in S : Cardinality(Above(x)) <= Cardinality(Above(y))
  <2> HIDE DEF Above
  <2> DEFINE C == {Cardinality(Above(y)) : y \in S}
  <2>1. C \subseteq Nat /\ C # {}
    BY <1>1
  <2>2. PICK n \in C : \A m \in C : n <= m
    BY <2>1, Least
  <2>3. PICK x \in S : n = Cardinality(Above(x))
    BY <2>2, Zenon
  <2>4. QED
    BY <2>2, <2>3
<1>3. ASSUME NEW y \in S, ~(y <= x)
      PROVE  FALSE
  <2>1. Above(y) \in SUBSET Above(x) /\ y \in Above(x) /\ y \notin Above(y)
    <3>1. x \in Nat /\ y \in Nat /\ x < y /\ \A z \in S : z \in Nat
      BY <1>3
    <3>2. \A z \in S : z > y => z > x
      BY <3>1
    <3>3. Above(y) \subseteq Above(x)
      BY <3>2
    <3>4. y \in Above(x) /\ y \notin Above(y)
      BY <3>1
    <3>5. QED
      BY <3>3, <3>4
  <2>2. Cardinality(Above(y)) <= Cardinality(Above(x))
        /\ (Cardinality(Above(x)) = Cardinality(Above(y)) => Above(x) = Above(y))
    BY <1>1, <2>1, FS_Subset
  <2>3. Cardinality(Above(x)) <= Cardinality(Above(y))
    BY <1>2, <1>3
  <2>4. Cardinality(Above(x)) \in Nat /\ Cardinality(Above(y)) \in Nat
    BY <1>1, <1>3
  <2> HIDE DEF Above
  <2>5. Cardinality(Above(x)) = Cardinality(Above(y))
    BY <2>2, <2>3, <2>4
  <2>6. QED
    BY <2>1, <2>2, <2>5
<1>4. \E n \in S : \A m \in S : n >= m
  <2>1. \A m \in S : x >= m
    BY <1>3
  <2>2. QED
    BY <2>1
<1>5. Max(S) \in S /\ \A m \in S : Max(S) >= m
    BY <1>4 DEF Max
<1>6. QED
    BY <1>5

LEMMA RoomFactsOf ==
    /\ \A m \in Messages : RoomOf[m] \in Rooms /\ m \in In(RoomOf[m])
    /\ \A r : In(r) \subseteq Messages /\ IsFiniteSet(In(r)) /\ \A m \in In(r) : RoomOf[m] = r
<1>1. \A m \in Messages : RoomOf[m] \in Rooms
    BY OpenGroupsAssumption
<1>2. \A r : In(r) \in SUBSET Messages
    BY DEF In
<1>3. \A r : IsFiniteSet(In(r))
    BY <1>2, OpenGroupsAssumption, FS_Subset
<1>4. QED
    BY <1>1, <1>2, <1>3 DEF In

\* numbers of finitely many messages are finitely many
LEMMA FiniteImage ==
    ASSUME NEW S, IsFiniteSet(S), NEW f
    PROVE  IsFiniteSet({f[x] : x \in S})
<1> DEFINE T == {f[x] : x \in S}
           g == [x \in S |-> f[x]]
<1>1. g \in Surjection(S, T)
    BY DEF Surjection
<1> HIDE DEF g
<1>2. QED
    BY <1>1, FS_Surjection

\* the next number of a room is above all it had
LEMMA NextSeqnoFacts ==
    ASSUME seqno \in [Messages -> Nat], NEW r
    PROVE  /\ NextSeqno(r) \in Nat \ {0}
           /\ \A m \in In(r) : seqno[m] < NextSeqno(r)
<1> DEFINE T == {seqno[m] : m \in In(r)}
           S == {0} \cup T
<1>1. IsFiniteSet(T)
    BY RoomFactsOf, FiniteImage
<1>2. T \subseteq Nat
    BY RoomFactsOf
<1>3. \A m \in In(r) : seqno[m] \in S /\ seqno[m] \in Nat
    BY <1>2
<1>4. NextSeqno(r) = 1 + Max(S)
    BY DEF NextSeqno
<1>5. IsFiniteSet(S)
  <2>1. IsFiniteSet({0})
    BY FS_Singleton
  <2> HIDE DEF T
  <2>2. QED
    BY <1>1, <2>1, FS_Union
<1>6. S \subseteq Nat /\ S # {}
    BY <1>2
<1> HIDE DEF S
<1>7. Max(S) \in Nat /\ \A n \in S : n <= Max(S)
    BY <1>5, <1>6, MaxFacts
<1>8. QED
    BY <1>3, <1>4, <1>7

\* the number that is saved is of an update that was got, and none is above it
LEMMA MaxSeqnoFacts ==
    ASSUME NEW got, got \in SUBSET Update, got # {}, IsFiniteSet(got), NEW r
    PROVE  /\ \E u \in got : MaxSeqno(got, r) = u.seqno
           /\ \A u \in got : u.seqno <= MaxSeqno(got, r)
           /\ MaxSeqno(got, r) \in Nat
<1> DEFINE f == [u \in got |-> u.seqno]
           T == {f[u] : u \in got}
<1>1. IsFiniteSet(T)
  <2> HIDE DEF f
  <2>1. QED
    BY FiniteImage
<1>2. T = {u.seqno : u \in got}
    OBVIOUS
<1>3. T \subseteq Nat /\ T # {}
  <2>1. \A u \in got : u.seqno \in Nat
    BY DEF Update
  <2>2. QED
    BY <1>2, <2>1
<1>4. MaxSeqno(got, r) = Max(T)
    BY <1>2 DEF MaxSeqno
<1>5. \A u \in got : u.seqno \in T
    BY <1>2
<1>6. \A n \in T : \E u \in got : n = u.seqno
    BY <1>2
<1> HIDE DEF T
<1>7. Max(T) \in T /\ \A n \in T : n <= Max(T)
    BY <1>1, <1>3, MaxFacts
<1>8. QED
    BY <1>3, <1>4, <1>5, <1>6, <1>7

-----------------------------------------------------------------------------
(* The records of polls *)

Phases == {"idle", "request", "delete", "store", "save"}

\* q with other values of some of its fields
Remade(q, phase, stopped, since, got, left, room, stale) ==
    [phase |-> phase, stopped |-> stopped, since |-> since, got |-> got,
     left |-> left, room |-> room, stale |-> stale]

LEMMA PollIs ==
    ASSUME NEW q \in Poll
    PROVE  /\ q = Remade(q, q.phase, q.stopped, q.since, q.got, q.left, q.room, q.stale)
           /\ q.phase \in Phases /\ q.stopped \in BOOLEAN /\ q.since \in [Rooms -> Numbers]
           /\ q.got \in SUBSET Update /\ q.left \in SUBSET Rooms /\ q.room \in Rooms
           /\ q.stale \in SUBSET Rooms
           /\ Asked(q) \subseteq Rooms
           /\ \A u \in q.got : u \in Update /\ u.msg \in Messages /\ u.seqno \in Nat
                               /\ u.deleted \in BOOLEAN
<1>1. q.got \in SUBSET Update
    BY DEF Poll
<1>2. \A u \in q.got : u \in Update /\ u.msg \in Messages /\ u.seqno \in Nat
                       /\ u.deleted \in BOOLEAN
    BY <1>1 DEF Update
<1>3. Asked(q) \subseteq Rooms
    BY DEF Asked
<1>4. QED
    BY <1>1, <1>2, <1>3 DEF Poll, Remade, Phases

LEMMA RemadeFacts ==
    ASSUME NEW q, NEW phase \in Phases, NEW stopped \in BOOLEAN, NEW since \in [Rooms -> Numbers],
           NEW got \in SUBSET Update, NEW left \in SUBSET Rooms, NEW room \in Rooms,
           NEW stale \in SUBSET Rooms,
           NEW x, x = Remade(q, phase, stopped, since, got, left, room, stale)
    PROVE  /\ x \in Poll /\ x.phase = phase /\ x.stopped = stopped /\ x.since = since
           /\ x.got = got /\ x.left = left /\ x.room = room /\ x.stale = stale
    BY DEF Remade, Poll, Phases

LEMMA AskedFacts ==
    /\ \A x, y : x.since = y.since => Asked(x) = Asked(y)
    /\ \A x, r : r \in Asked(x) <=> r \in Rooms /\ x.since[r] # NoRow
    BY DEF Asked

LEMMA IdleFacts ==
    /\ Idle \in Poll /\ Idle.phase = "idle" /\ ~Idle.stopped /\ Idle.since = Nothing
    /\ Idle.got = {} /\ Idle.left = {} /\ Idle.stale = {}
    /\ Asked(Idle) = {} /\ PollFacts(Idle) /\ ~Active(Idle)
<1>1. PICK e, a, n, z : e = (CHOOSE r \in Rooms : TRUE) /\ a = "idle" /\ n = FALSE /\ z = {}
    OBVIOUS
<1>2. e \in Rooms /\ a \in Phases /\ n \in BOOLEAN /\ z \in SUBSET Update /\ z \in SUBSET Rooms
    BY <1>1, OpenGroupsAssumption DEF Phases
<1>4. Nothing \in [Rooms -> Numbers] /\ \A r \in Rooms : Nothing[r] = NoRow
    BY DEF Nothing, Numbers
<1>5. PICK x : x = Idle
    OBVIOUS
<1>6. x = Remade(x, a, n, Nothing, z, z, e, z)
    BY <1>1, <1>5 DEF Idle, Remade
<1>3. /\ x \in Poll /\ x.phase = a /\ x.stopped = n /\ x.since = Nothing
      /\ x.got = z /\ x.left = z /\ x.stale = z
    BY <1>2, <1>4, <1>6, RemadeFacts
<1>7. /\ Idle \in Poll /\ Idle.phase = a /\ Idle.stopped = FALSE /\ Idle.since = Nothing
      /\ Idle.got = {} /\ Idle.left = {} /\ Idle.stale = {}
    BY <1>1, <1>3, <1>5
<1>8. Asked(Idle) = {}
    BY <1>4, <1>7, AskedFacts
<1>9. PollFacts(Idle)
  <2>1. IsFiniteSet(Idle.got)
    BY <1>7, FS_EmptySet
  <2>2. QED
    BY <1>1, <1>7, <1>8, <2>1 DEF PollFacts
<1>10. QED
    BY <1>1, <1>7, <1>8, <1>9 DEF Active

LEMMA IdleIs == \A p \in Polls : PollInv /\ polls[p].phase = "idle" => polls[p] = Idle
    BY DEF PollInv, PollFacts

\* a poll that starts
AskingFor(since) == [Idle EXCEPT !.phase = "request", !.since = since]

LEMMA AskingForFacts ==
    ASSUME NEW since \in [Rooms -> Numbers], NEW x, x = AskingFor(since)
    PROVE  /\ x \in Poll /\ x.phase = "request" /\ ~x.stopped /\ x.since = since
           /\ x.got = {} /\ x.left = {} /\ x.stale = {}
           /\ Asked(x) = {r \in Rooms : since[r] # NoRow}
<1>1. PICK q, b : q = Idle /\ b = "request"
    OBVIOUS
<1>2. q \in Poll /\ q = Remade(q, q.phase, q.stopped, q.since, q.got, q.left, q.room, q.stale)
    BY <1>1, IdleFacts, PollIs
<1> DEFINE f == [q EXCEPT !.phase = "request"]
<1>3. x = [f EXCEPT !.since = since]
    BY <1>1 DEF AskingFor
<1>4. f = Remade(q, b, q.stopped, q.since, q.got, q.left, q.room, q.stale)
    BY <1>1, <1>2 DEF Remade
<1> HIDE DEF f
<1>5. x = Remade(q, b, q.stopped, since, q.got, q.left, q.room, q.stale)
    BY <1>3, <1>4 DEF Remade
<1>6. b \in Phases
    BY <1>1 DEF Phases
<1>7. /\ x \in Poll /\ x.phase = b /\ x.stopped = q.stopped /\ x.since = since
      /\ x.got = q.got /\ x.left = q.left /\ x.stale = q.stale
    BY <1>2, <1>5, <1>6, PollIs, RemadeFacts
<1>8. QED
    BY <1>1, <1>7, IdleFacts DEF Asked

\* a poll that has its answer
Answered(q, left, got) == [q EXCEPT !.phase = "delete", !.left = left, !.got = got]

LEMMA AnsweredFacts ==
    ASSUME NEW q \in Poll, NEW left, left \in SUBSET Rooms, NEW got, got \in SUBSET Update,
           NEW x, x = Answered(q, left, got)
    PROVE  /\ x \in Poll /\ x.phase = "delete" /\ x.stopped = q.stopped /\ x.since = q.since
           /\ x.got = got /\ x.left = left /\ x.stale = q.stale /\ Asked(x) = Asked(q)
<1>1. PICK b : b = "delete"
    OBVIOUS
<1>2. q = Remade(q, q.phase, q.stopped, q.since, q.got, q.left, q.room, q.stale)
    BY PollIs
<1> DEFINE f == [q EXCEPT !.phase = "delete"]
           g == [f EXCEPT !.left = left]
<1>3. x = [g EXCEPT !.got = got]
    BY DEF Answered
<1>4. f = Remade(q, b, q.stopped, q.since, q.got, q.left, q.room, q.stale)
    BY <1>1, <1>2 DEF Remade
<1> HIDE DEF f
<1>5. g = Remade(q, b, q.stopped, q.since, q.got, left, q.room, q.stale)
    BY <1>4 DEF Remade
<1> HIDE DEF g
<1>6. x = Remade(q, b, q.stopped, q.since, got, left, q.room, q.stale)
    BY <1>3, <1>5 DEF Remade
<1>7. b \in Phases
    BY <1>1 DEF Phases
<1>8. /\ x \in Poll /\ x.phase = b /\ x.stopped = q.stopped /\ x.since = q.since
      /\ x.got = got /\ x.left = left /\ x.stale = q.stale
    BY <1>6, <1>7, PollIs, RemadeFacts
<1>9. QED
    BY <1>1, <1>8, AskedFacts

\* a poll that takes up the answer for a room
TakenUp(q, r) == [q EXCEPT !.phase = "store", !.room = r]

LEMMA TakenUpFacts ==
    ASSUME NEW q \in Poll, NEW r, r \in Rooms, NEW x, x = TakenUp(q, r)
    PROVE  /\ x \in Poll /\ x.phase = "store" /\ x.stopped = q.stopped /\ x.since = q.since
           /\ x.got = q.got /\ x.left = q.left /\ x.room = r /\ x.stale = q.stale
           /\ Asked(x) = Asked(q)
<1>1. PICK b : b = "store"
    OBVIOUS
<1>2. q = Remade(q, q.phase, q.stopped, q.since, q.got, q.left, q.room, q.stale)
    BY PollIs
<1> DEFINE f == [q EXCEPT !.phase = "store"]
<1>3. x = [f EXCEPT !.room = r]
    BY DEF TakenUp
<1>4. f = Remade(q, b, q.stopped, q.since, q.got, q.left, q.room, q.stale)
    BY <1>1, <1>2 DEF Remade
<1> HIDE DEF f
<1>5. x = Remade(q, b, q.stopped, q.since, q.got, q.left, r, q.stale)
    BY <1>3, <1>4 DEF Remade
<1>6. b \in Phases
    BY <1>1 DEF Phases
<1>7. /\ x \in Poll /\ x.phase = b /\ x.stopped = q.stopped /\ x.since = q.since
      /\ x.got = q.got /\ x.left = q.left /\ x.room = r /\ x.stale = q.stale
    BY <1>5, <1>6, PollIs, RemadeFacts
<1>8. QED
    BY <1>1, <1>7, AskedFacts

\* a poll whose messages have their jobs
Saving(q) == [q EXCEPT !.phase = "save"]

LEMMA SavingFacts ==
    ASSUME NEW q \in Poll, NEW x, x = Saving(q)
    PROVE  /\ x \in Poll /\ x.phase = "save" /\ x.stopped = q.stopped /\ x.since = q.since
           /\ x.got = q.got /\ x.left = q.left /\ x.room = q.room /\ x.stale = q.stale
           /\ Asked(x) = Asked(q)
<1>1. PICK b : b = "save"
    OBVIOUS
<1>2. q = Remade(q, q.phase, q.stopped, q.since, q.got, q.left, q.room, q.stale)
    BY PollIs
<1>5. x = Remade(q, b, q.stopped, q.since, q.got, q.left, q.room, q.stale)
    BY <1>1, <1>2 DEF Saving, Remade
<1>6. b \in Phases
    BY <1>1 DEF Phases
<1>7. /\ x \in Poll /\ x.phase = b /\ x.stopped = q.stopped /\ x.since = q.since
      /\ x.got = q.got /\ x.left = q.left /\ x.room = q.room /\ x.stale = q.stale
    BY <1>5, <1>6, PollIs, RemadeFacts
<1>8. QED
    BY <1>1, <1>7, AskedFacts

\* a poll that is done with a room, with others left
DoneWith(q, r) == [q EXCEPT !.phase = "delete", !.left = @ \ {r}]

LEMMA DoneWithFacts ==
    ASSUME NEW q \in Poll, NEW r, NEW x, x = DoneWith(q, r)
    PROVE  /\ x \in Poll /\ x.phase = "delete" /\ x.stopped = q.stopped /\ x.since = q.since
           /\ x.got = q.got /\ x.left = q.left \ {r} /\ x.room = q.room /\ x.stale = q.stale
           /\ Asked(x) = Asked(q)
<1>1. PICK b, left : b = "delete" /\ left = q.left \ {r}
    OBVIOUS
<1>2. q = Remade(q, q.phase, q.stopped, q.since, q.got, q.left, q.room, q.stale)
    BY PollIs
<1> DEFINE f == [q EXCEPT !.phase = "delete"]
<1>4. f = Remade(q, b, q.stopped, q.since, q.got, q.left, q.room, q.stale)
    BY <1>1, <1>2 DEF Remade
<1>3. x = [f EXCEPT !.left = left]
    BY <1>1, <1>4 DEF DoneWith, Remade
<1> HIDE DEF f
<1>5. x = Remade(q, b, q.stopped, q.since, q.got, left, q.room, q.stale)
    BY <1>3, <1>4 DEF Remade
<1>6. b \in Phases /\ left \in SUBSET Rooms
    BY <1>1, PollIs DEF Phases
<1>7. /\ x \in Poll /\ x.phase = b /\ x.stopped = q.stopped /\ x.since = q.since
      /\ x.got = q.got /\ x.left = left /\ x.room = q.room /\ x.stale = q.stale
    BY <1>5, <1>6, PollIs, RemadeFacts
<1>8. QED
    BY <1>1, <1>7, AskedFacts

\* a poll that outlives its poller
Stopped(q) == [q EXCEPT !.stopped = TRUE]

LEMMA StoppedFacts ==
    ASSUME NEW q \in Poll, NEW x, x = Stopped(q)
    PROVE  /\ x \in Poll /\ x.phase = q.phase /\ x.stopped /\ x.since = q.since
           /\ x.got = q.got /\ x.left = q.left /\ x.room = q.room /\ x.stale = q.stale
           /\ Asked(x) = Asked(q)
<1>1. PICK b : b = TRUE
    OBVIOUS
<1>2. q = Remade(q, q.phase, q.stopped, q.since, q.got, q.left, q.room, q.stale)
    BY PollIs
<1>5. x = Remade(q, q.phase, b, q.since, q.got, q.left, q.room, q.stale)
    BY <1>1, <1>2 DEF Stopped, Remade
<1>6. b \in BOOLEAN
    BY <1>1
<1>7. /\ x \in Poll /\ x.phase = q.phase /\ x.stopped = b /\ x.since = q.since
      /\ x.got = q.got /\ x.left = q.left /\ x.room = q.room /\ x.stale = q.stale
    BY <1>5, <1>6, PollIs, RemadeFacts
<1>8. QED
    BY <1>1, <1>7, AskedFacts

\* a poll with rooms that are joined again
Outdated(q, rs) == [q EXCEPT !.stale = @ \cup (rs \cap Asked(q))]

LEMMA OutdatedFacts ==
    ASSUME NEW q \in Poll, NEW rs, NEW x, x = Outdated(q, rs)
    PROVE  /\ x \in Poll /\ x.phase = q.phase /\ x.stopped = q.stopped /\ x.since = q.since
           /\ x.got = q.got /\ x.left = q.left /\ x.room = q.room
           /\ x.stale = q.stale \cup (rs \cap Asked(q))
           /\ Asked(x) = Asked(q)
<1>1. PICK stale : stale = q.stale \cup (rs \cap Asked(q))
    OBVIOUS
<1>2. q = Remade(q, q.phase, q.stopped, q.since, q.got, q.left, q.room, q.stale)
    BY PollIs
<1>5. x = Remade(q, q.phase, q.stopped, q.since, q.got, q.left, q.room, stale)
    BY <1>1, <1>2 DEF Outdated, Remade
<1>6. stale \in SUBSET Rooms
    BY <1>1, PollIs
<1>7. /\ x \in Poll /\ x.phase = q.phase /\ x.stopped = q.stopped /\ x.since = q.since
      /\ x.got = q.got /\ x.left = q.left /\ x.room = q.room /\ x.stale = stale
    BY <1>5, <1>6, PollIs, RemadeFacts
<1>8. QED
    BY <1>1, <1>7, AskedFacts

-----------------------------------------------------------------------------
(* What the steps do to the polls *)

\* poll p is x now, and the others are what they were
Moves(p, x) ==
    /\ polls' \in [Polls -> Poll] /\ polls'[p] = x
    /\ \A o \in Polls \ {p} : polls'[o] = polls[o]

LEMMA MovesTo ==
    ASSUME polls \in [Polls -> Poll], NEW p \in Polls, NEW x, x \in Poll,
           polls' = [polls EXCEPT ![p] = x]
    PROVE  Moves(p, x)
    BY DEF Moves

LEMMA ReplyMoves ==
    ASSUME polls \in [Polls -> Poll], NEW p \in Polls, NEW asked, NEW got,
           asked \in SUBSET Rooms, got \in SUBSET Update,
           polls' = [polls EXCEPT ![p].phase = "delete", ![p].left = asked, ![p].got = got]
    PROVE  Moves(p, Answered(polls[p], asked, got))
<1>1. PICK x : x = Answered(polls[p], asked, got)
    OBVIOUS
<1>2. x \in Poll
    BY <1>1, AnsweredFacts
<1>3. polls' = [polls EXCEPT ![p] = x]
    BY <1>1 DEF Answered
<1>4. QED
    BY <1>1, <1>2, <1>3, MovesTo

LEMMA AskingMoves ==
    ASSUME polls \in [Polls -> Poll], NEW p \in Polls, NEW since,
           since \in [Rooms -> Numbers], polls[p] = Idle,
           polls' = [polls EXCEPT ![p].phase = "request", ![p].since = since]
    PROVE  Moves(p, AskingFor(since))
<1>1. PICK x : x = AskingFor(since)
    OBVIOUS
<1>2. x \in Poll
    BY <1>1, AskingForFacts
<1>3. polls' = [polls EXCEPT ![p] = x]
    BY <1>1 DEF AskingFor
<1>4. QED
    BY <1>1, <1>2, <1>3, MovesTo

LEMMA TakenUpMoves ==
    ASSUME polls \in [Polls -> Poll], NEW p \in Polls, NEW r, r \in Rooms,
           polls' = [polls EXCEPT ![p].phase = "store", ![p].room = r]
    PROVE  Moves(p, TakenUp(polls[p], r))
<1>1. PICK x : x = TakenUp(polls[p], r)
    OBVIOUS
<1>2. x \in Poll
    BY <1>1, TakenUpFacts
<1>3. polls' = [polls EXCEPT ![p] = x]
    BY <1>1 DEF TakenUp
<1>4. QED
    BY <1>1, <1>2, <1>3, MovesTo

LEMMA SavingMoves ==
    ASSUME polls \in [Polls -> Poll], NEW p \in Polls,
           polls' = [polls EXCEPT ![p].phase = "save"]
    PROVE  Moves(p, Saving(polls[p]))
<1>1. PICK x : x = Saving(polls[p])
    OBVIOUS
<1>2. x \in Poll
    BY <1>1, SavingFacts
<1>3. polls' = [polls EXCEPT ![p] = x]
    BY <1>1 DEF Saving
<1>4. QED
    BY <1>1, <1>2, <1>3, MovesTo

LEMMA RoomDoneMoves ==
    ASSUME polls \in [Polls -> Poll], NEW p \in Polls, NEW r, RoomDone(p, r)
    PROVE  \/ polls[p].left = {r} /\ Moves(p, Idle)
           \/ polls[p].left # {r} /\ Moves(p, DoneWith(polls[p], r))
<1>1. CASE polls[p].left = {r}
  <2>1. polls' = [polls EXCEPT ![p] = Idle]
    BY <1>1 DEF RoomDone
  <2>2. QED
    BY <1>1, <2>1, IdleFacts, MovesTo
<1>2. CASE polls[p].left # {r}
  <2>1. PICK x : x = DoneWith(polls[p], r)
    OBVIOUS
  <2>2. x \in Poll
    BY <2>1, DoneWithFacts
  <2>3. polls' = [polls EXCEPT ![p] = x]
    BY <1>2, <2>1 DEF DoneWith, RoomDone
  <2>4. QED
    BY <1>2, <2>1, <2>2, <2>3, MovesTo
<1>3. QED
    BY <1>1, <1>2

-----------------------------------------------------------------------------
(* The polls and the server *)

USE DEF vars, server, rooms, inbox, poller, membership, history, loops

\* Numbers only grow, and a message gets one that no message of its room had.
ServerStep ==
    /\ seqno' \in [Messages -> Nat]
    /\ deleted' \subseteq Messages /\ deleted \subseteq deleted'
    /\ \A m \in Messages : seqno'[m] # seqno[m] =>
         /\ seqno[m] = 0 \/ m \in deleted'
         /\ \A k \in In(RoomOf[m]) : seqno[k] < seqno'[m]

LEMMA ServerStays ==
    ASSUME TypeOK, UNCHANGED server
    PROVE  ServerStep
    BY DEF ServerStep, TypeOK

LEMMA PostServer ==
    ASSUME TypeOK, NEW r \in Rooms, Post(r)
    PROVE  ServerStep
<1> DEFINE next == CHOOSE m \in In(r) : seqno[m] = 0
<1>1. next \in In(r) /\ seqno[next] = 0
    BY DEF Post
<1>2. seqno' = [seqno EXCEPT ![next] = NextSeqno(r)] /\ UNCHANGED deleted
    BY DEF Post
<1>3. seqno \in [Messages -> Nat] /\ deleted \subseteq Messages
    BY DEF TypeOK
<1>4. NextSeqno(r) \in Nat \ {0} /\ \A m \in In(r) : seqno[m] < NextSeqno(r)
    BY <1>3, NextSeqnoFacts
<1>5. next \in Messages /\ RoomOf[next] = r
    BY <1>1, RoomFactsOf
<1> HIDE DEF next
<1>6. QED
    BY <1>1, <1>2, <1>3, <1>4, <1>5 DEF ServerStep

LEMMA DeletePostServer ==
    ASSUME TypeOK, NEW m \in Messages, DeletePost(m)
    PROVE  ServerStep
<1>1. PICK r : r = RoomOf[m]
    OBVIOUS
<1>2. seqno' = [seqno EXCEPT ![m] = NextSeqno(r)] /\ deleted' = deleted \cup {m}
    BY <1>1 DEF DeletePost
<1>3. seqno \in [Messages -> Nat] /\ deleted \subseteq Messages
    BY DEF TypeOK
<1>4. NextSeqno(r) \in Nat \ {0} /\ \A k \in In(r) : seqno[k] < NextSeqno(r)
    BY <1>3, NextSeqnoFacts
<1>5. QED
    BY <1>1, <1>2, <1>3, <1>4 DEF ServerStep

\* what is known of a poll stays true
LEMMA FactsStay ==
    ASSUME TypeOK, ServerStep, NEW x \in Poll, PollFacts(x)
    PROVE  PollFacts(x)'
<1>1. ASSUME NEW u \in x.got
      PROVE  /\ u.seqno \in 1..seqno'[u.msg]
             /\ u.deleted => u.msg \in deleted'
             /\ u.msg \in deleted' \/ u.seqno = seqno'[u.msg]
  <2>1. u.msg \in Messages /\ u.seqno \in Nat
    BY <1>1, PollIs
  <2>2. /\ u.seqno \in 1..seqno[u.msg]
        /\ u.deleted => u.msg \in deleted
        /\ u.msg \in deleted \/ u.seqno = seqno[u.msg]
    BY <1>1 DEF PollFacts
  <2>3. u.msg \in In(RoomOf[u.msg])
    BY <2>1, RoomFactsOf
  <2>4. seqno[u.msg] \in Nat /\ seqno'[u.msg] \in Nat
    BY <2>1 DEF TypeOK, ServerStep
  <2>5. CASE seqno'[u.msg] = seqno[u.msg]
    BY <2>2, <2>5 DEF ServerStep
  <2>6. CASE seqno'[u.msg] # seqno[u.msg]
    <3>1. /\ seqno[u.msg] = 0 \/ u.msg \in deleted'
          /\ seqno[u.msg] < seqno'[u.msg]
      BY <2>1, <2>3, <2>6 DEF ServerStep
    <3>2. u.msg \in deleted'
      BY <2>1, <2>2, <3>1
    <3>3. QED
      BY <2>1, <2>2, <2>4, <3>1, <3>2
  <2>7. QED
    BY <2>5, <2>6
<1>2. QED
    BY <1>1 DEF PollFacts

PollsKept == polls' \in [Polls -> Poll] /\ PollInv' /\ OnePoll'

\* Nothing is asked anew.
LEMMA PollsGoOn ==
    ASSUME OnePoll, polls' \in [Polls -> Poll],
           \A p \in Polls : PollFacts(polls[p])' /\ (Active(polls[p])' => Active(polls[p]))
    PROVE  PollsKept
    BY DEF PollsKept, PollInv, OnePoll

LEMMA PollsStay ==
    ASSUME TypeOK, PollInv, ServerStep, UNCHANGED polls
    PROVE  PollsKept
<1>1. \A p \in Polls : PollFacts(polls[p])'
  <2>1. SUFFICES ASSUME NEW p \in Polls
                 PROVE  PollFacts(polls[p])'
    OBVIOUS
  <2>2. PICK x : x = polls[p]
    OBVIOUS
  <2>3. x \in Poll /\ PollFacts(x)
    BY <2>2 DEF TypeOK, PollInv
  <2>4. PollFacts(x)'
    BY <2>3, FactsStay
  <2>5. QED
    BY <2>2, <2>4
<1>2. OnePoll /\ polls' \in [Polls -> Poll]
    BY DEF TypeOK
<1>3. \A p \in Polls : Active(polls[p])' => Active(polls[p])
    OBVIOUS
<1>4. QED
    BY <1>1, <1>2, <1>3, PollsGoOn

LEMMA OneMoves ==
    ASSUME TypeOK, PollInv, ServerStep, NEW p \in Polls, NEW x, x \in Poll, Moves(p, x),
           PollFacts(x)', Active(x) => Active(polls[p])
    PROVE  PollsKept
<1>1. ASSUME NEW o \in Polls
      PROVE  PollFacts(polls[o])' /\ (Active(polls[o])' => Active(polls[o]))
  <2>1. CASE o = p
    BY <2>1 DEF Moves
  <2>2. CASE o # p
    <3>1. PICK y : y = polls[o]
      OBVIOUS
    <3>2. y \in Poll /\ PollFacts(y)
      BY <3>1 DEF TypeOK, PollInv
    <3>3. PollFacts(y)'
      BY <3>2, FactsStay
    <3>4. polls'[o] = y
      BY <2>2, <3>1 DEF Moves
    <3>5. QED
      BY <3>1, <3>3, <3>4
  <2>3. QED
    BY <2>1, <2>2
<1>2. OnePoll /\ polls' \in [Polls -> Poll]
    BY DEF TypeOK, Moves
<1>3. QED
    BY <1>1, <1>2, PollsGoOn

LEMMA compactPollPolls ==
    ASSUME TypeOK, PollInv, compactPoll
    PROVE  PollsKept
<1> DEFINE free == CHOOSE p \in Polls : polls[p].phase = "idle"
           since == [r \in Rooms |->
               IF r \notin roomIdsToPoll THEN NoRow
               ELSE IF HasRow(r) THEN cachedRooms[r] ELSE 0]
<1>1. /\ ~InProgress
      /\ \E p \in Polls : polls[p].phase = "idle"
      /\ polls' = [polls EXCEPT ![free].phase = "request", ![free].since = since]
      /\ UNCHANGED server
    BY DEF compactPoll
<1>2. free \in Polls /\ polls[free].phase = "idle"
    BY <1>1
<1>3. polls[free] = Idle /\ polls \in [Polls -> Poll]
    BY <1>2, IdleIs DEF TypeOK
<1>4. since \in [Rooms -> Numbers]
    BY DEF TypeOK, Numbers
<1> HIDE DEF free
<1>5. PICK s, x : s = since /\ x = AskingFor(s)
    OBVIOUS
<1> HIDE DEF since
<1>6. Moves(free, x)
    BY <1>1, <1>2, <1>3, <1>4, <1>5, AskingMoves
<1>7. /\ x \in Poll /\ x.phase = "request" /\ ~x.stopped
      /\ x.got = {} /\ x.left = {}
    BY <1>4, <1>5, AskingForFacts
<1>8. ServerStep
    BY <1>1, ServerStays
<1>9. PollFacts(x)'
    BY <1>7, FS_EmptySet DEF PollFacts
<1>10. ASSUME NEW p \in Polls
       PROVE  PollFacts(polls[p])' /\ (Active(polls[p])' => p = free)
  <2>1. CASE p = free
    BY <1>6, <1>9, <2>1 DEF Moves
  <2>2. CASE p # free
    <3>1. PICK y : y = polls[p]
      OBVIOUS
    <3>2. y \in Poll /\ PollFacts(y) /\ ~Active(y)
      BY <1>1, <3>1 DEF TypeOK, PollInv, InProgress
    <3>3. PollFacts(y)'
      BY <1>8, <3>2, FactsStay
    <3>4. polls'[p] = y
      BY <1>6, <2>2, <3>1 DEF Moves
    <3>5. QED
      BY <3>1, <3>2, <3>3, <3>4
  <2>3. QED
    BY <2>1, <2>2
<1>11. QED
    BY <1>6, <1>10 DEF PollsKept, PollInv, OnePoll, Moves

\* an answer has the updates there are, and finitely many
LEMMA AnswerFacts ==
    ASSUME TypeOK, NEW r \in Rooms, NEW n \in Numbers, NEW u \in Answer(r, n)
    PROVE  /\ u \in Update /\ u.msg \in In(r) /\ u.seqno = seqno[u.msg] /\ u.seqno > n
           /\ u.deleted <=> u.msg \in deleted
<1>1. PICK m \in In(r) : /\ seqno[m] > n
                         /\ u = [msg |-> m, seqno |-> seqno[m], deleted |-> m \in deleted]
    BY DEF Answer
<1>2. PICK d : d = (m \in deleted)
    OBVIOUS
<1>3. d \in BOOLEAN /\ u = [msg |-> m, seqno |-> seqno[m], deleted |-> d]
    BY <1>1, <1>2
<1>4. m \in Messages /\ seqno[m] \in Nat
    BY <1>1, RoomFactsOf DEF TypeOK
<1>5. u \in Update /\ u.msg = m /\ u.seqno = seqno[m] /\ u.deleted = d
    BY <1>3, <1>4 DEF Update
<1>6. QED
    BY <1>1, <1>2, <1>5

LEMMA AnswersFinite ==
    ASSUME TypeOK, NEW asked, asked \in SUBSET Rooms, NEW since, since \in [Rooms -> Numbers],
           NEW got, \A u \in got : \E r \in asked : u \in Answer(r, since[r])
    PROVE  got \in SUBSET Update /\ IsFiniteSet(got)
<1>2. ASSUME NEW u \in got
      PROVE  u \in Update
  <2>1. PICK r \in asked : u \in Answer(r, since[r])
    OBVIOUS
  <2>2. r \in Rooms /\ since[r] \in Numbers
    OBVIOUS
  <2>3. QED
    BY <2>1, <2>2, AnswerFacts
<1> DEFINE f == [m \in Messages |->
                    [msg |-> m, seqno |-> seqno[m], deleted |-> m \in deleted]]
           All == {f[m] : m \in Messages}
<1>3. IsFiniteSet(All)
  <2> HIDE DEF f
  <2>1. QED
    BY OpenGroupsAssumption, FiniteImage
<1>4. ASSUME NEW u \in got
      PROVE  u \in All
  <2>1. PICK r \in asked : u \in Answer(r, since[r])
    OBVIOUS
  <2>2. PICK m \in In(r) : u = [msg |-> m, seqno |-> seqno[m], deleted |-> m \in deleted]
    BY <2>1 DEF Answer
  <2>3. m \in Messages
    BY <2>2, RoomFactsOf
  <2>4. u = f[m]
    BY <2>2, <2>3, Zenon
  <2>5. QED
    BY <2>3, <2>4
<1> HIDE DEF All
<1>5. got \subseteq All
    BY <1>4
<1>6. QED
    BY <1>2, <1>3, <1>5, FS_Subset

LEMMA ReplyPolls ==
    ASSUME TypeOK, PollInv, NEW p \in Polls, Reply(p)
    PROVE  PollsKept
<1>1. PICK q : q = polls[p]
    OBVIOUS
<1>2. q \in Poll /\ PollFacts(q) /\ polls \in [Polls -> Poll]
    BY <1>1 DEF TypeOK, PollInv
<1>3. PICK asked, got : asked = Asked(q) /\ got = UNION {Answer(r, q.since[r]) : r \in asked}
    OBVIOUS
<1>4. /\ polls' = [polls EXCEPT ![p].phase = "delete", ![p].left = asked, ![p].got = got]
      /\ q.phase = "request" /\ UNCHANGED server
    BY <1>1, <1>3 DEF Reply
<1>5. asked \in SUBSET Rooms /\ q.since \in [Rooms -> Numbers]
    BY <1>2, <1>3, PollIs
<1>a. \A u \in got : \E r \in asked : u \in Answer(r, q.since[r])
    BY <1>3
<1>6. got \in SUBSET Update /\ IsFiniteSet(got)
    BY <1>5, <1>a, AnswersFinite
<1>7. PICK x : x = Answered(q, asked, got)
    OBVIOUS
<1>8. Moves(p, x)
    BY <1>1, <1>2, <1>4, <1>5, <1>6, <1>7, ReplyMoves
<1>9. /\ x \in Poll /\ x.phase = "delete" /\ x.stopped = q.stopped
      /\ x.got = got /\ x.left = asked /\ Asked(x) = asked /\ x.since = q.since
    BY <1>2, <1>3, <1>5, <1>6, <1>7, AnsweredFacts
<1>10. ServerStep
    BY <1>4, ServerStays
<1>11. ASSUME NEW u \in x.got
       PROVE  /\ u.seqno \in 1..seqno[u.msg] /\ u.seqno > x.since[RoomOf[u.msg]]
              /\ u.deleted => u.msg \in deleted
              /\ u.msg \in deleted \/ u.seqno = seqno[u.msg]
  <2>1. PICK r \in asked : u \in Answer(r, q.since[r])
    BY <1>a, <1>9
  <2>2. r \in Rooms /\ q.since[r] \in Numbers /\ q.since[r] # NoRow
    BY <1>3, <1>5, AskedFacts
  <2>3. /\ u \in Update /\ u.seqno = seqno[u.msg] /\ u.seqno > q.since[r]
        /\ u.deleted <=> u.msg \in deleted
    BY <2>1, <2>2, AnswerFacts
  <2>4. u.seqno \in Nat /\ RoomOf[u.msg] = r
    BY <2>1, <2>2, <2>3, AnswerFacts, RoomFactsOf DEF Update
  <2>5. QED
    BY <1>9, <2>2, <2>3, <2>4 DEF Numbers, NoRow
<1>12. PollFacts(x)
    BY <1>6, <1>9, <1>11 DEF PollFacts
<1>13. PollFacts(x)'
    BY <1>4, <1>12 DEF PollFacts
<1>14. Active(x) => Active(polls[p])
    BY <1>1, <1>4, <1>9 DEF Active
<1>15. QED
    BY <1>8, <1>9, <1>10, <1>13, <1>14, OneMoves

LEMMA RoomDonePolls ==
    ASSUME TypeOK, PollInv, ServerStep, NEW p \in Polls, NEW r, RoomDone(p, r),
           polls[p].phase # "idle", polls[p].phase # "request"
    PROVE  PollsKept
<1>1. PICK q : q = polls[p]
    OBVIOUS
<1>2. q \in Poll /\ PollFacts(q) /\ polls \in [Polls -> Poll]
    BY <1>1 DEF TypeOK, PollInv
<1>3. CASE Moves(p, Idle)
  <2>1. PICK x : x = Idle
    OBVIOUS
  <2>2. x \in Poll /\ PollFacts(x) /\ ~Active(x)
    BY <2>1, IdleFacts
  <2>3. PollFacts(x)'
    BY <2>2, FactsStay
  <2>4. QED
    BY <1>3, <2>1, <2>2, <2>3, OneMoves
<1>4. CASE Moves(p, DoneWith(q, r))
  <2>1. PICK x : x = DoneWith(q, r)
    OBVIOUS
  <2>2. /\ x \in Poll /\ x.phase = "delete" /\ x.stopped = q.stopped
        /\ x.got = q.got /\ x.left = q.left \ {r} /\ Asked(x) = Asked(q) /\ x.since = q.since
    BY <1>2, <2>1, DoneWithFacts
  <2>3. PollFacts(x)
    BY <1>2, <2>2 DEF PollFacts
  <2>4. PollFacts(x)'
    BY <2>2, <2>3, FactsStay
  <2>5. Active(x) => Active(polls[p])
    BY <1>1, <2>2 DEF Active
  <2>6. QED
    BY <1>4, <2>1, <2>2, <2>4, <2>5, OneMoves
<1>5. QED
    BY <1>1, <1>2, <1>3, <1>4, RoomDoneMoves

LEMMA RequestFailsPolls ==
    ASSUME TypeOK, PollInv, NEW p \in Polls, RequestFails(p)
    PROVE  PollsKept
<1>1. polls' = [polls EXCEPT ![p] = Idle] /\ UNCHANGED server
    BY DEF RequestFails
<1>2. PICK x : x = Idle
    OBVIOUS
<1>3. x \in Poll /\ PollFacts(x) /\ ~Active(x)
    BY <1>2, IdleFacts
<1>4. Moves(p, x)
    BY <1>1, <1>2, <1>3, MovesTo DEF TypeOK
<1>5. ServerStep
    BY <1>1, ServerStays
<1>6. PollFacts(x)'
    BY <1>3, <1>5, FactsStay
<1>7. QED
    BY <1>3, <1>4, <1>5, <1>6, OneMoves

LEMMA DeletedPolls ==
    ASSUME TypeOK, PollInv, NEW p \in Polls, handleSogsV3DeletedMessages(p)
    PROVE  PollsKept
<1>1. polls[p].phase = "delete" /\ UNCHANGED server
    BY DEF handleSogsV3DeletedMessages
<1>2. ServerStep
    BY <1>1, ServerStays
<1>3. PICK q : q = polls[p]
    OBVIOUS
<1>4. q \in Poll /\ PollFacts(q) /\ polls \in [Polls -> Poll]
    BY <1>3 DEF TypeOK, PollInv
<1>5. PICK r \in q.left :
        \/ /\ GotFor(q, r) # {}
           /\ polls' = [polls EXCEPT ![p].phase = "store", ![p].room = r]
        \/ RoomDone(p, r)
    BY <1>3 DEF handleSogsV3DeletedMessages
<1>6. CASE /\ GotFor(q, r) # {}
           /\ polls' = [polls EXCEPT ![p].phase = "store", ![p].room = r]
  <2>1. PICK x : x = TakenUp(q, r)
    OBVIOUS
  <2>2. r \in Rooms
    BY <1>4, <1>5, PollIs
  <2>3. Moves(p, x)
    BY <1>3, <1>4, <1>6, <2>1, <2>2, TakenUpMoves
  <2>4. /\ x \in Poll /\ x.phase = "store" /\ x.stopped = q.stopped
        /\ x.got = q.got /\ x.left = q.left /\ x.room = r /\ Asked(x) = Asked(q) /\ x.since = q.since
    BY <1>4, <2>1, <2>2, TakenUpFacts
  <2>5. GotFor(x, r) = GotFor(q, r)
    BY <2>4 DEF GotFor
  <2>6. PollFacts(x)
    BY <1>4, <1>5, <1>6, <2>4, <2>5 DEF PollFacts
  <2>7. PollFacts(x)'
    BY <1>2, <2>4, <2>6, FactsStay
  <2>8. Active(x) => Active(polls[p])
    BY <1>1, <1>3, <2>4 DEF Active
  <2>9. QED
    BY <1>2, <2>3, <2>4, <2>7, <2>8, OneMoves
<1>7. CASE RoomDone(p, r)
    BY <1>1, <1>2, <1>7, RoomDonePolls
<1>8. QED
    BY <1>5, <1>6, <1>7

LEMMA ResponsePolls ==
    ASSUME TypeOK, PollInv, NEW p \in Polls, handleMessagesResponseV4(p)
    PROVE  PollsKept
<1>1. /\ polls[p].phase = "store" /\ UNCHANGED server
      /\ polls' = [polls EXCEPT ![p].phase = "save"]
    BY DEF handleMessagesResponseV4
<1>2. ServerStep
    BY <1>1, ServerStays
<1>3. PICK q, x : q = polls[p] /\ x = Saving(q)
    OBVIOUS
<1>4. q \in Poll /\ PollFacts(q) /\ polls \in [Polls -> Poll]
    BY <1>3 DEF TypeOK, PollInv
<1>5. Moves(p, x)
    BY <1>1, <1>3, <1>4, SavingMoves
<1>6. /\ x \in Poll /\ x.phase = "save" /\ x.stopped = q.stopped
      /\ x.got = q.got /\ x.left = q.left /\ x.room = q.room /\ Asked(x) = Asked(q) /\ x.since = q.since
    BY <1>3, <1>4, SavingFacts
<1>7. GotFor(x, x.room) = GotFor(q, q.room)
    BY <1>6 DEF GotFor
<1>8. PollFacts(x)
    BY <1>1, <1>3, <1>4, <1>6, <1>7 DEF PollFacts
<1>9. PollFacts(x)'
    BY <1>2, <1>6, <1>8, FactsStay
<1>10. Active(x) => Active(polls[p])
    BY <1>1, <1>3, <1>6 DEF Active
<1>11. QED
    BY <1>2, <1>5, <1>6, <1>9, <1>10, OneMoves

LEMMA SavedPolls ==
    ASSUME TypeOK, PollInv, NEW p \in Polls, updateRoom(p) \/ MessagesFail(p)
    PROVE  PollsKept
<1>1. /\ RoomDone(p, polls[p].room) /\ UNCHANGED server
      /\ polls[p].phase # "idle" /\ polls[p].phase # "request"
    BY DEF updateRoom, MessagesFail
<1>2. QED
    BY <1>1, ServerStays, RoomDonePolls

LEMMA StopPollsIs ==
    ASSUME TypeOK, polls' = StopPolls
    PROVE  /\ polls' \in [Polls -> Poll]
           /\ \A p \in Polls : \/ polls[p].phase \in {"idle", "request"} /\ ~polls[p].stopped
                                  /\ polls'[p] = Idle
                               \/ polls'[p] = Stopped(polls[p])
<1>1. ASSUME NEW p \in Polls
      PROVE  /\ polls'[p] \in Poll
             /\ \/ polls[p].phase \in {"idle", "request"} /\ ~polls[p].stopped
                   /\ polls'[p] = Idle
                \/ polls'[p] = Stopped(polls[p])
  <2>1. PICK q, x : q = polls[p] /\ x = Stopped(q)
    OBVIOUS
  <2>2. q \in Poll
    BY <2>1 DEF TypeOK
  <2>3. x \in Poll
    BY <2>1, <2>2, StoppedFacts
  <2>4. \/ q.phase \in {"idle", "request"} /\ ~q.stopped /\ polls'[p] = Idle
        \/ polls'[p] = x
    BY <2>1 DEF StopPolls, Stopped
  <2>5. QED
    BY <2>1, <2>3, <2>4, IdleFacts
<1>2. polls' = [p \in Polls |-> polls'[p]]
    BY DEF StopPolls
<1>3. QED
    BY <1>1, <1>2

\* the polls of a poller that is stopped
LEMMA StopPollsPolls ==
    ASSUME TypeOK, PollInv, ServerStep, polls' = StopPolls
    PROVE  PollsKept
<1>1. ASSUME NEW p \in Polls
      PROVE  PollFacts(polls[p])' /\ ~Active(polls[p])'
  <2>1. PICK q, x : q = polls[p] /\ x = polls'[p]
    OBVIOUS
  <2>2. q \in Poll /\ PollFacts(q)
    BY <2>1 DEF TypeOK, PollInv
  <2>3. x = Idle \/ (x = Stopped(q) /\ ~(q.phase \in {"idle", "request"} /\ ~q.stopped))
    BY <2>1 DEF StopPolls, Stopped
  <2>4. x \in Poll /\ PollFacts(x) /\ ~Active(x)
    <3>1. CASE x = Idle
      BY <3>1, IdleFacts
    <3>2. CASE x = Stopped(q) /\ ~(q.phase \in {"idle", "request"} /\ ~q.stopped)
      <4>1. /\ x \in Poll /\ x.phase = q.phase /\ x.stopped
            /\ x.got = q.got /\ x.left = q.left /\ x.room = q.room /\ Asked(x) = Asked(q) /\ x.since = q.since
        BY <2>2, <3>2, StoppedFacts
      <4>2. GotFor(x, x.room) = GotFor(q, q.room)
        BY <4>1 DEF GotFor
      <4>3. q.phase \notin {"idle", "request"}
        <5>1. q.phase = "idle" => ~q.stopped
          BY <2>2, IdleFacts DEF PollFacts
        <5>2. q.phase = "request" => ~q.stopped
          BY <2>2 DEF PollFacts
        <5>3. QED
          BY <3>2, <5>1, <5>2
      <4>4. PollFacts(x)
        BY <2>2, <4>1, <4>2, <4>3 DEF PollFacts
      <4>5. QED
        BY <4>1, <4>4 DEF Active
    <3>3. QED
      BY <2>3, <3>1, <3>2
  <2>5. PollFacts(x)'
    BY <2>4, FactsStay
  <2>6. QED
    BY <2>1, <2>4, <2>5
<1>2. OnePoll /\ polls' \in [Polls -> Poll]
    BY StopPollsIs DEF TypeOK
<1>3. QED
    BY <1>1, <1>2, PollsGoOn

LEMMA OutdatedIs ==
    ASSUME TypeOK, NEW rs, attemptConnectionV2(rs)
    PROVE  polls' \in [Polls -> Poll] /\ \A p \in Polls : polls'[p] = Outdated(polls[p], rs)
<1>1. \A p \in Polls : polls'[p] = Outdated(polls[p], rs)
    BY DEF attemptConnectionV2, Outdated
<1>2. ASSUME NEW p \in Polls
      PROVE  polls'[p] \in Poll
  <2>1. PICK q, x : q = polls[p] /\ x = Outdated(q, rs)
    OBVIOUS
  <2>2. q \in Poll
    BY <2>1 DEF TypeOK
  <2>3. QED
    BY <1>1, <2>1, <2>2, OutdatedFacts
<1>3. polls' = [p \in Polls |-> polls'[p]]
    BY DEF attemptConnectionV2
<1>4. QED
    BY <1>1, <1>2, <1>3

\* the polls when rooms are joined again
LEMMA OutdatedPolls ==
    ASSUME TypeOK, PollInv, ServerStep, NEW rs, attemptConnectionV2(rs)
    PROVE  PollsKept
<1>1. ASSUME NEW p \in Polls
      PROVE  PollFacts(polls[p])' /\ (Active(polls[p])' => Active(polls[p]))
  <2>1. PICK q, x : q = polls[p] /\ x = Outdated(q, rs)
    OBVIOUS
  <2>2. q \in Poll /\ PollFacts(q) /\ polls'[p] = x
    BY <2>1, OutdatedIs DEF TypeOK, PollInv
  <2>3. /\ x \in Poll /\ x.phase = q.phase /\ x.stopped = q.stopped
        /\ x.got = q.got /\ x.left = q.left /\ x.room = q.room /\ Asked(x) = Asked(q) /\ x.since = q.since
    BY <2>1, <2>2, OutdatedFacts
  <2>4. GotFor(x, x.room) = GotFor(q, q.room)
    BY <2>3 DEF GotFor
  <2>5. x = Idle \/ q.phase # "idle"
    <3>1. SUFFICES ASSUME q = Idle
                   PROVE  x = Idle
      BY <2>2 DEF PollFacts
    <3>2. rs \cap Asked(q) = {}
      BY <3>1, IdleFacts
    <3>3. PICK e : e = rs \cap Asked(q)
      OBVIOUS
    <3>4. x = [q EXCEPT !.stale = @ \cup e]
      BY <2>1, <3>3 DEF Outdated
    <3>5. q.stale \cup e = q.stale
      BY <3>2, <3>3
    <3>6. q \in Poll
      BY <2>2
    <3>7. x = q
      BY <3>4, <3>5, <3>6 DEF Poll
    <3>8. QED
      BY <3>1, <3>7
  <2>6. PollFacts(x)
    <3>1. CASE x = Idle
      BY <3>1, IdleFacts
    <3>2. CASE q.phase # "idle"
      BY <2>2, <2>3, <2>4, <3>2 DEF PollFacts
    <3>3. QED
      BY <2>5, <3>1, <3>2
  <2>7. PollFacts(x)'
    BY <2>3, <2>6, FactsStay
  <2>8. QED
    BY <2>1, <2>2, <2>3, <2>7 DEF Active
<1>2. OnePoll /\ polls' \in [Polls -> Poll]
    BY OutdatedIs DEF TypeOK
<1>3. QED
    BY <1>1, <1>2, PollsGoOn

LEMMA CrashPolls ==
    ASSUME TypeOK, PollInv, Crash
    PROVE  PollsKept
<1>1. polls' = [p \in Polls |-> Idle] /\ UNCHANGED server
    BY DEF Crash
<1>2. PICK x : x = Idle
    OBVIOUS
<1>3. x \in Poll /\ PollFacts(x) /\ ~Active(x)
    BY <1>2, IdleFacts
<1>4. PollFacts(x)'
    BY <1>1, <1>3, ServerStays, FactsStay
<1>5. \A p \in Polls : polls'[p] = x
    BY <1>1, <1>2
<1>6. polls' \in [Polls -> Poll]
    BY <1>1, <1>2, <1>3
<1>7. ASSUME NEW p \in Polls
      PROVE  PollFacts(polls[p])' /\ (Active(polls[p])' => Active(polls[p]))
  <2>1. polls'[p] = x
    BY <1>5
  <2>2. QED
    BY <1>3, <1>4, <2>1
<1>8. QED
    BY <1>6, <1>7, PollsGoOn DEF TypeOK

-----------------------------------------------------------------------------
(* The types, and what is known of a poll *)

\* A step keeps the types once the polls and the server have kept theirs.
Typed == PollsKept /\ ServerStep /\ TypeOK'

LEMMA StayTyped ==
    ASSUME TypeOK, PollInv, UNCHANGED server, UNCHANGED polls
    PROVE  PollsKept /\ ServerStep
    BY ServerStays, PollsStay

\* where the row of the room gets its number
LEMMA updateRoomSaves ==
    ASSUME TypeOK, PollInv, NEW p \in Polls, updateRoom(p)
    PROVE  \E q \in Poll : \E n \in Nat : \E u \in GotFor(q, q.room) :
             /\ q = polls[p] /\ PollFacts(q) /\ q.phase = "save"
             /\ q.room \in Rooms /\ q.room \in q.left /\ u \in Update /\ n = u.seqno
             /\ \A v \in GotFor(q, q.room) : v.seqno <= n
             /\ IF HasRow(q.room) THEN saveV2OpenGroupRoom(q.room, n)
                ELSE UNCHANGED <<table, cachedRooms>>
             /\ lost' = IF q.room \in q.stale
                        THEN lost \cup {m \in In(q.room) : seqno[m] \in 1..n} ELSE lost
             /\ RoomDone(p, q.room)
             /\ UNCHANGED <<seqno, deleted, wrapper, convoTable, convoHub, inactive, stored,
                            pending, roomIdsToPoll, joining, leaving, isPolling, loops,
                            member, doubled, orphans, raced>>
<1>1. PICK q : q = polls[p]
    OBVIOUS
<1>2. q \in Poll /\ PollFacts(q) /\ q.phase = "save"
    BY <1>1 DEF TypeOK, PollInv, updateRoom
<1>3. PICK got, n : got = GotFor(q, q.room) /\ n = MaxSeqno(got, q.room)
    OBVIOUS
<1>4. got \in SUBSET Update /\ got # {} /\ IsFiniteSet(got) /\ q.room \in q.left
  <2>1. got \subseteq q.got /\ IsFiniteSet(q.got) /\ got # {} /\ q.room \in q.left
    BY <1>2, <1>3 DEF PollFacts, GotFor
  <2>2. QED
    BY <1>2, <2>1, PollIs, FS_Subset
<1>5. PICK u \in got : n = u.seqno /\ n \in Nat /\ \A v \in got : v.seqno <= n
    BY <1>3, <1>4, MaxSeqnoFacts
<1>6. q.room \in Rooms
    BY <1>2, PollIs
<1>7. /\ IF HasRow(q.room) THEN saveV2OpenGroupRoom(q.room, n)
         ELSE UNCHANGED <<table, cachedRooms>>
      /\ lost' = IF q.room \in q.stale
                 THEN lost \cup {m \in In(q.room) : seqno[m] \in 1..n} ELSE lost
      /\ RoomDone(p, q.room)
      /\ UNCHANGED <<seqno, deleted, wrapper, convoTable, convoHub, inactive, stored,
                     pending, roomIdsToPoll, joining, leaving, isPolling, loops,
                     member, doubled, orphans, raced>>
    BY <1>1, <1>3 DEF updateRoom
<1>8. u \in Update
    BY <1>4
<1>9. QED
    BY <1>1, <1>2, <1>3, <1>4, <1>5, <1>6, <1>7, <1>8

LEMMA PostTyped ==
    ASSUME TypeOK, PollInv, NEW r \in Rooms, Post(r)
    PROVE  Typed
<1>1. PollsKept /\ ServerStep
    BY PostServer, PollsStay DEF Post
<1>2. TypeOK'
    BY <1>1 DEF TypeOK, PollsKept, ServerStep, Post
<1>3. QED
    BY <1>1, <1>2 DEF Typed

LEMMA DeletePostTyped ==
    ASSUME TypeOK, PollInv, NEW m \in Messages, DeletePost(m)
    PROVE  Typed
<1>1. PollsKept /\ ServerStep
    BY DeletePostServer, PollsStay DEF DeletePost
<1>2. TypeOK'
    BY <1>1 DEF TypeOK, PollsKept, ServerStep, DeletePost
<1>3. QED
    BY <1>1, <1>2 DEF Typed

LEMMA compactPollTyped ==
    ASSUME TypeOK, PollInv, compactPoll
    PROVE  Typed
<1>1. PollsKept /\ ServerStep
    BY compactPollPolls, ServerStays DEF compactPoll
<1>2. TypeOK'
    BY <1>1 DEF TypeOK, PollsKept, ServerStep, compactPoll
<1>3. QED
    BY <1>1, <1>2 DEF Typed

LEMMA ReplyTyped ==
    ASSUME TypeOK, PollInv, NEW p \in Polls, Reply(p)
    PROVE  Typed
<1>1. PollsKept /\ ServerStep
    BY ReplyPolls, ServerStays DEF Reply
<1>2. TypeOK'
    BY <1>1 DEF TypeOK, PollsKept, ServerStep, Reply
<1>3. QED
    BY <1>1, <1>2 DEF Typed

LEMMA RequestFailsTyped ==
    ASSUME TypeOK, PollInv, NEW p \in Polls, RequestFails(p)
    PROVE  Typed
<1>1. PollsKept /\ ServerStep
    BY RequestFailsPolls, ServerStays DEF RequestFails
<1>2. TypeOK'
    BY <1>1 DEF TypeOK, PollsKept, ServerStep, RequestFails
<1>3. QED
    BY <1>1, <1>2 DEF Typed

LEMMA handleSogsV3DeletedMessagesTyped ==
    ASSUME TypeOK, PollInv, NEW p \in Polls, handleSogsV3DeletedMessages(p)
    PROVE  Typed
<1>1. PollsKept /\ ServerStep
    BY DeletedPolls, ServerStays DEF handleSogsV3DeletedMessages
<1>2. TypeOK'
    BY <1>1 DEF TypeOK, PollsKept, ServerStep, handleSogsV3DeletedMessages
<1>3. QED
    BY <1>1, <1>2 DEF Typed

LEMMA NewFacts ==
    ASSUME NEW q \in Poll, NEW r, NEW new, new = filterDuplicatesFromDb(GotFor(q, r))
    PROVE  /\ new \in SUBSET Messages
           /\ \A m : m \in new <=> stored[m] = 0 /\ \E u \in GotFor(q, r) : ~u.deleted /\ m = u.msg
<1>1. \A m : m \in new <=> stored[m] = 0 /\ \E u \in GotFor(q, r) : ~u.deleted /\ m = u.msg
    BY DEF filterDuplicatesFromDb
<1>2. \A u \in GotFor(q, r) : u.msg \in Messages
    BY PollIs DEF GotFor
<1>3. QED
    BY <1>1, <1>2

LEMMA handleMessagesResponseV4Typed ==
    ASSUME TypeOK, PollInv, NEW p \in Polls, handleMessagesResponseV4(p)
    PROVE  Typed
<1>1. PollsKept /\ ServerStep
    BY ResponsePolls, ServerStays DEF handleMessagesResponseV4
<1>2. PICK q, new : q = polls[p] /\ new = filterDuplicatesFromDb(GotFor(q, q.room))
    OBVIOUS
<1>3. new \in SUBSET Messages
    BY <1>2, NewFacts DEF TypeOK
<1>4. /\ IF q.room \in convoHub
         THEN /\ pending' = [m \in Messages |->
                   IF m \in new THEN pending[m] + 1 ELSE pending[m]]
              /\ UNCHANGED lost
         ELSE lost' = lost \cup new /\ UNCHANGED pending
      /\ UNCHANGED <<server, rooms, stored, roomIdsToPoll, membership, member, doubled,
                     orphans, raced>>
    BY <1>2 DEF handleMessagesResponseV4
<1>5. TypeOK'
    BY <1>1, <1>3, <1>4 DEF TypeOK, PollsKept, ServerStep
<1>6. QED
    BY <1>1, <1>5 DEF Typed

LEMMA MessagesFailTyped ==
    ASSUME TypeOK, PollInv, NEW p \in Polls, MessagesFail(p)
    PROVE  Typed
<1>1. PollsKept /\ ServerStep
    BY SavedPolls, ServerStays DEF MessagesFail
<1>2. TypeOK'
    BY <1>1 DEF TypeOK, PollsKept, ServerStep, MessagesFail, In
<1>3. QED
    BY <1>1, <1>2 DEF Typed

LEMMA updateRoomTyped ==
    ASSUME TypeOK, PollInv, NEW p \in Polls, updateRoom(p)
    PROVE  Typed
<1>1. PollsKept /\ ServerStep
    BY SavedPolls, ServerStays DEF updateRoom
<1>2. PICK q \in Poll, n \in Nat :
        /\ q.room \in Rooms
        /\ IF HasRow(q.room) THEN saveV2OpenGroupRoom(q.room, n)
           ELSE UNCHANGED <<table, cachedRooms>>
        /\ lost' = IF q.room \in q.stale
                   THEN lost \cup {m \in In(q.room) : seqno[m] \in 1..n} ELSE lost
        /\ UNCHANGED <<wrapper, convoTable, convoHub, inactive, stored,
                       pending, roomIdsToPoll, joining, leaving, isPolling, loops,
                       member, doubled, orphans, raced>>
    BY updateRoomSaves
<1>3. table' \in [Rooms -> Numbers] /\ cachedRooms' \in [Rooms -> Numbers]
    BY <1>2 DEF TypeOK, saveV2OpenGroupRoom, Numbers
<1>4. lost' \subseteq Messages
    BY <1>2 DEF TypeOK, In
<1>5. TypeOK'
    BY <1>1, <1>2, <1>3, <1>4 DEF TypeOK, PollsKept, ServerStep
<1>6. QED
    BY <1>1, <1>5 DEF Typed

LEMMA handleMessageJobTyped ==
    ASSUME TypeOK, PollInv, NEW m \in Messages, handleMessageJob(m)
    PROVE  Typed
<1>1. PollsKept /\ ServerStep
    BY StayTyped DEF handleMessageJob
<1>2. TypeOK'
    BY <1>1 DEF TypeOK, PollsKept, ServerStep, handleMessageJob
<1>3. QED
    BY <1>1, <1>2 DEF Typed

LEMMA joinOpenGroupV2Typed ==
    ASSUME TypeOK, PollInv, NEW r \in Rooms, joinOpenGroupV2(r)
    PROVE  Typed
<1>1. PollsKept /\ ServerStep
    BY ServerStays, OutdatedPolls DEF joinOpenGroupV2
<1>2. TypeOK'
    BY <1>1 DEF TypeOK, PollsKept, ServerStep, joinOpenGroupV2, attemptConnectionV2, UnderWay, Numbers
<1>3. QED
    BY <1>1, <1>2 DEF Typed

\* what a join that fails leaves of the conversation and of the wrapper
LEMMA JoinFailsIs ==
    ASSUME NEW r \in Rooms, JoinFails(r)
    PROVE  /\ joining[r] # "no" /\ joining' = [joining EXCEPT ![r] = "no"]
           /\ saveV2OpenGroupRoom(r, NoRow)
           /\ wrapper' \in {wrapper, CommittedTo(r)}
           /\ joining[r] = "info" => wrapper' = wrapper
           /\ \/ UNCHANGED <<convoTable, convoHub, inactive>>
              \/ /\ joining[r] = "info" /\ convoHub' = convoHub \cup {r}
                 /\ convoTable' \in {convoTable, convoTable \cup {r}}
                 /\ inactive' = inactive \cup {r}
           /\ orphans' \in {orphans, orphans \cup {r}}
           /\ UNCHANGED <<server, inbox, poller, leaving, isPolling, loops, member, lost,
                          doubled, raced>>
    BY DEF JoinFails

LEMMA JoinFailsTyped ==
    ASSUME TypeOK, PollInv, NEW r \in Rooms, JoinFails(r)
    PROVE  Typed
<1>1. PollsKept /\ ServerStep
    BY StayTyped DEF JoinFails
<1>2. table' \in [Rooms -> Numbers] /\ cachedRooms' \in [Rooms -> Numbers]
    BY JoinFailsIs DEF saveV2OpenGroupRoom, TypeOK, Numbers
<1>3. joining' \in [Rooms -> {"no", "info", "create", "commit"}]
    BY JoinFailsIs DEF TypeOK
<1>4. wrapper' \subseteq Rooms
    BY JoinFailsIs DEF TypeOK, CommittedTo
<1>5. /\ convoTable' \subseteq Rooms /\ convoHub' \subseteq Rooms
      /\ inactive' \subseteq convoHub'
    BY JoinFailsIs DEF TypeOK
<1>6. orphans' \subseteq Rooms
    BY JoinFailsIs DEF TypeOK
<1>7. QED
    BY <1>1, <1>2, <1>3, <1>4, <1>5, <1>6, JoinFailsIs DEF TypeOK, PollsKept, ServerStep, Typed

LEMMA getOrCreateAndWaitTyped ==
    ASSUME TypeOK, PollInv, NEW r \in Rooms, getOrCreateAndWait(r)
    PROVE  Typed
<1>1. PollsKept /\ ServerStep
    BY StayTyped DEF getOrCreateAndWait
<1>2. TypeOK'
    BY <1>1 DEF TypeOK, PollsKept, ServerStep, getOrCreateAndWait
<1>3. QED
    BY <1>1, <1>2 DEF Typed

LEMMA SaveJoinedRoomTyped ==
    ASSUME TypeOK, PollInv, NEW r \in Rooms, SaveJoinedRoom(r)
    PROVE  Typed
<1>1. PollsKept /\ ServerStep
    BY StayTyped DEF SaveJoinedRoom
<1>2. TypeOK'
    BY <1>1 DEF TypeOK, PollsKept, ServerStep, SaveJoinedRoom, saveV2OpenGroupRoom,
                 UnderWay, Numbers
<1>3. QED
    BY <1>1, <1>2 DEF Typed

LEMMA JoinEndsTyped ==
    ASSUME TypeOK, PollInv, NEW r \in Rooms, JoinEnds(r)
    PROVE  Typed
<1>1. PollsKept /\ ServerStep
    BY StayTyped DEF JoinEnds
<1>2. TypeOK'
    BY <1>1 DEF TypeOK, PollsKept, ServerStep, JoinEnds, CommittedTo
<1>3. QED
    BY <1>1, <1>2 DEF Typed

LEMMA UserLeavesTyped ==
    ASSUME TypeOK, PollInv, NEW r \in Rooms, UserLeaves(r)
    PROVE  Typed
<1>1. PollsKept /\ ServerStep
    BY StayTyped DEF UserLeaves
<1>2. TypeOK'
    BY <1>1 DEF TypeOK, PollsKept, ServerStep, UserLeaves, deleteCommunity
<1>3. QED
    BY <1>1, <1>2 DEF Typed

LEMMA LeaveMessagesTyped ==
    ASSUME TypeOK, PollInv, NEW r \in Rooms, LeaveMessages(r)
    PROVE  Typed
<1>1. ServerStep /\ (polls' = StopPolls \/ UNCHANGED polls)
    BY ServerStays DEF LeaveMessages, removeRoomFromPolledRooms
<1>2. PollsKept
    BY <1>1, StopPollsPolls, PollsStay
<1>3. TypeOK'
    BY <1>1, <1>2 DEF TypeOK, PollsKept, ServerStep, LeaveMessages, CommittedTo, In,
                      removeRoomFromPolledRooms
<1>4. QED
    BY <1>1, <1>2, <1>3 DEF Typed

LEMMA removeCommunityFromWrappersTyped ==
    ASSUME TypeOK, PollInv, NEW r \in Rooms, removeCommunityFromWrappers(r)
    PROVE  Typed
<1>1. PollsKept /\ ServerStep
    BY StayTyped DEF removeCommunityFromWrappers
<1>2. TypeOK'
    BY <1>1 DEF TypeOK, PollsKept, ServerStep, removeCommunityFromWrappers
<1>3. QED
    BY <1>1, <1>2 DEF Typed

LEMMA removeConversationTyped ==
    ASSUME TypeOK, PollInv, NEW r \in Rooms, removeConversation(r)
    PROVE  Typed
<1>1. PollsKept /\ ServerStep
    BY StayTyped DEF removeConversation
<1>2. TypeOK'
    BY <1>1 DEF TypeOK, PollsKept, ServerStep, removeConversation
<1>3. QED
    BY <1>1, <1>2 DEF Typed

LEMMA removeV2OpenGroupRoomTyped ==
    ASSUME TypeOK, PollInv, NEW r \in Rooms, removeV2OpenGroupRoom(r)
    PROVE  Typed
<1>1. PollsKept /\ ServerStep
    BY StayTyped DEF removeV2OpenGroupRoom
<1>2. TypeOK'
    BY <1>1 DEF TypeOK, PollsKept, ServerStep, removeV2OpenGroupRoom, Numbers
<1>3. QED
    BY <1>1, <1>2 DEF Typed

LEMMA LeaveEndsTyped ==
    ASSUME TypeOK, PollInv, NEW r \in Rooms, LeaveEnds(r)
    PROVE  Typed
<1>1. PollsKept /\ ServerStep
    BY StayTyped DEF LeaveEnds
<1>2. TypeOK'
    BY <1>1 DEF TypeOK, PollsKept, ServerStep, LeaveEnds, Numbers, Loops
<1>3. QED
    BY <1>1, <1>2 DEF Typed

LEMMA handleCommunitiesUpdateTyped ==
    ASSUME TypeOK, PollInv, handleCommunitiesUpdate
    PROVE  Typed
<1>1. PollsKept /\ ServerStep
    BY StayTyped DEF handleCommunitiesUpdate
<1>2. PICK r \in Rooms : \E w \in {wrapper \cup {r}, wrapper \ {r}} :
        /\ wrapper' = w
        /\ toLeave' = convoHub \ (inactive \cup w)
        /\ toJoin' = w \ (convoHub \ inactive)
        /\ member' = IF r \in w THEN member \cup {r} ELSE member \ {r}
    BY DEF handleCommunitiesUpdate
<1>3. TypeOK'
    BY <1>1, <1>2 DEF TypeOK, PollsKept, ServerStep, handleCommunitiesUpdate
<1>4. QED
    BY <1>1, <1>3 DEF Typed

LEMMA LeaveListedTyped ==
    ASSUME TypeOK, PollInv, NEW r \in Rooms, LeaveListed(r)
    PROVE  Typed
<1>1. PollsKept /\ ServerStep
    BY StayTyped DEF LeaveListed
<1>2. TypeOK'
    BY <1>1 DEF TypeOK, PollsKept, ServerStep, LeaveListed, LeaveAndWait, deleteCommunity,
                Loops
<1>3. QED
    BY <1>1, <1>2 DEF Typed

\* what begins when handleCommunitiesUpdate joins the rooms rs
JoiningListed(rs) ==
    /\ \A r : r \in rs <=> r \in toJoin /\ MayJoin(r)
    /\ attemptConnectionV2(rs)

LEMMA JoinListedIs ==
    ASSUME JoinListed
    PROVE  \E rs : JoiningListed(rs)
<1>1. PICK rs : rs = {r \in toJoin : MayJoin(r)}
    OBVIOUS
<1>2. attemptConnectionV2(rs)
    BY <1>1 DEF JoinListed
<1>3. \A r : r \in rs <=> r \in toJoin /\ MayJoin(r)
    BY <1>1
<1>4. QED
    BY <1>2, <1>3 DEF JoiningListed

LEMMA JoinListedTyped ==
    ASSUME TypeOK, PollInv, JoinListed
    PROVE  Typed
<1>1. PICK rs : JoiningListed(rs)
    BY JoinListedIs
<1>2. PollsKept /\ ServerStep
    BY <1>1, ServerStays, OutdatedPolls DEF JoinListed, JoiningListed
<1>3. UNCHANGED <<server, convoTable, convoHub, inactive, inbox, roomIdsToPoll, leaving,
                  isPolling, toClean, toLeave, awaited, member, orphans, raced>>
      /\ toJoin' = {}
    BY DEF JoinListed
<1>4. TypeOK'
    BY <1>1, <1>2, <1>3
       DEF TypeOK, PollsKept, ServerStep, JoiningListed, attemptConnectionV2, UnderWay, Numbers
<1>5. QED
    BY <1>2, <1>4 DEF Typed

LEMMA startPollingTyped ==
    ASSUME TypeOK, PollInv, startPolling
    PROVE  Typed
<1>1. PollsKept /\ ServerStep
    BY StayTyped DEF startPolling
<1>2. TypeOK'
    BY <1>1 DEF TypeOK, PollsKept, ServerStep, startPolling, StaleRooms
<1>3. QED
    BY <1>1, <1>2 DEF Typed

LEMMA CleanRoomTyped ==
    ASSUME TypeOK, PollInv, NEW r \in Rooms, CleanRoom(r)
    PROVE  Typed
<1>1. ServerStep /\ (polls' = StopPolls \/ UNCHANGED polls)
    BY ServerStays DEF CleanRoom, removeRoomFromPolledRooms
<1>2. PollsKept
    BY <1>1, StopPollsPolls, PollsStay
<1>3. TypeOK'
    BY <1>1, <1>2 DEF TypeOK, PollsKept, ServerStep, CleanRoom, LeaveAndWait,
                      deleteCommunity, saveV2OpenGroupRoom, removeRoomFromPolledRooms,
                      Numbers, Loops
<1>4. QED
    BY <1>1, <1>2, <1>3 DEF Typed

LEMMA addRoomToPolledRoomsTyped ==
    ASSUME TypeOK, PollInv, addRoomToPolledRooms
    PROVE  Typed
<1>1. PollsKept /\ ServerStep
    BY StayTyped DEF addRoomToPolledRooms
<1>2. TypeOK'
    BY <1>1 DEF TypeOK, PollsKept, ServerStep, addRoomToPolledRooms, UnderWay
<1>3. QED
    BY <1>1, <1>2 DEF Typed

LEMMA CrashTyped ==
    ASSUME TypeOK, PollInv, Crash
    PROVE  Typed
<1>1. PollsKept /\ ServerStep
    BY CrashPolls, ServerStays DEF Crash
<1>2. TypeOK'
    BY <1>1 DEF TypeOK, PollsKept, ServerStep, Crash, Loops
<1>3. QED
    BY <1>1, <1>2 DEF Typed

LEMMA StutterTyped ==
    ASSUME TypeOK, PollInv, UNCHANGED vars
    PROVE  Typed
<1>1. PollsKept /\ ServerStep
    BY StayTyped
<1>2. TypeOK'
    BY <1>1 DEF TypeOK, PollsKept, ServerStep
<1>3. QED
    BY <1>1, <1>2 DEF Typed

LEMMA StepTyped ==
    ASSUME TypeOK, PollInv, [Next]_vars
    PROVE  Typed
<1>1. ASSUME NEW r \in Rooms, Post(r)
      PROVE  Typed
    BY <1>1, PostTyped
<1>2. ASSUME NEW m \in Messages, DeletePost(m)
      PROVE  Typed
    BY <1>2, DeletePostTyped
<1>3. ASSUME compactPoll
      PROVE  Typed
    BY <1>3, compactPollTyped
<1>4. ASSUME NEW p \in Polls, Reply(p)
      PROVE  Typed
    BY <1>4, ReplyTyped
<1>5. ASSUME NEW p \in Polls, RequestFails(p)
      PROVE  Typed
    BY <1>5, RequestFailsTyped
<1>6. ASSUME NEW p \in Polls, handleSogsV3DeletedMessages(p)
      PROVE  Typed
    BY <1>6, handleSogsV3DeletedMessagesTyped
<1>7. ASSUME NEW p \in Polls, handleMessagesResponseV4(p)
      PROVE  Typed
    BY <1>7, handleMessagesResponseV4Typed
<1>8. ASSUME NEW p \in Polls, MessagesFail(p)
      PROVE  Typed
    BY <1>8, MessagesFailTyped
<1>9. ASSUME NEW p \in Polls, updateRoom(p)
      PROVE  Typed
    BY <1>9, updateRoomTyped
<1>10. ASSUME NEW m \in Messages, handleMessageJob(m)
      PROVE  Typed
    BY <1>10, handleMessageJobTyped
<1>11. ASSUME NEW r \in Rooms, joinOpenGroupV2(r)
      PROVE  Typed
    BY <1>11, joinOpenGroupV2Typed
<1>12. ASSUME NEW r \in Rooms, JoinFails(r)
      PROVE  Typed
    BY <1>12, JoinFailsTyped
<1>13. ASSUME NEW r \in Rooms, getOrCreateAndWait(r)
      PROVE  Typed
    BY <1>13, getOrCreateAndWaitTyped
<1>14. ASSUME NEW r \in Rooms, SaveJoinedRoom(r)
      PROVE  Typed
    BY <1>14, SaveJoinedRoomTyped
<1>15. ASSUME NEW r \in Rooms, JoinEnds(r)
      PROVE  Typed
    BY <1>15, JoinEndsTyped
<1>16. ASSUME NEW r \in Rooms, UserLeaves(r)
      PROVE  Typed
    BY <1>16, UserLeavesTyped
<1>17. ASSUME NEW r \in Rooms, LeaveMessages(r)
      PROVE  Typed
    BY <1>17, LeaveMessagesTyped
<1>18. ASSUME NEW r \in Rooms, removeCommunityFromWrappers(r)
      PROVE  Typed
    BY <1>18, removeCommunityFromWrappersTyped
<1>19. ASSUME NEW r \in Rooms, removeConversation(r)
      PROVE  Typed
    BY <1>19, removeConversationTyped
<1>20. ASSUME NEW r \in Rooms, removeV2OpenGroupRoom(r)
      PROVE  Typed
    BY <1>20, removeV2OpenGroupRoomTyped
<1>21. ASSUME NEW r \in Rooms, LeaveEnds(r)
      PROVE  Typed
    BY <1>21, LeaveEndsTyped
<1>22. ASSUME handleCommunitiesUpdate
      PROVE  Typed
    BY <1>22, handleCommunitiesUpdateTyped
<1>23. ASSUME startPolling
      PROVE  Typed
    BY <1>23, startPollingTyped
<1>24. ASSUME NEW r \in Rooms, CleanRoom(r)
      PROVE  Typed
    BY <1>24, CleanRoomTyped
<1>25. ASSUME addRoomToPolledRooms
      PROVE  Typed
    BY <1>25, addRoomToPolledRoomsTyped
<1>26. ASSUME Crash
      PROVE  Typed
    BY <1>26, CrashTyped
<1>27. ASSUME NEW r \in Rooms, LeaveListed(r)
      PROVE  Typed
    BY <1>27, LeaveListedTyped
<1>28. ASSUME JoinListed
      PROVE  Typed
    BY <1>28, JoinListedTyped
<1>29. CASE UNCHANGED vars
    BY <1>29, StutterTyped
<1>30. QED
    BY <1>1, <1>2, <1>3, <1>4, <1>5, <1>6, <1>7, <1>8, <1>9, <1>10, <1>11, <1>12, <1>13,
       <1>14, <1>15, <1>16, <1>17, <1>18, <1>19, <1>20, <1>21, <1>22, <1>23, <1>24, <1>25,
       <1>26, <1>27, <1>28, <1>29
       DEF Next, PollStep, JoinStep, LeaveStep, StartStep, UpdateStep

LEMMA InitTyped ==
    ASSUME Init
    PROVE  TypeOK /\ PollInv
<1>1. PICK x : x = Idle
    OBVIOUS
<1>2. x \in Poll /\ PollFacts(x) /\ ~Active(x)
    BY <1>1, IdleFacts
<1>3. polls = [p \in Polls |-> x]
    BY <1>1 DEF Init
<1>4. polls \in [Polls -> Poll] /\ \A p \in Polls : polls[p] = x
    BY <1>2, <1>3
<1>5. PollInv /\ OnePoll
    BY <1>2, <1>4 DEF PollInv, OnePoll
<1>6. TypeOK
    BY <1>4, <1>5 DEF Init, TypeOK, Numbers, Loops
<1>7. QED
    BY <1>5, <1>6

\* In every state the variables have the values they should: rows and polls keep
\* numbers of updates, a conversation without a row is one that is in memory,
\* and one poll at most is under way for the poller there is, whatever polls of
\* stopped pollers still handle their answers (OpenGroupServerPoller.isPolling).
THEOREM TypeCorrect == Spec => []TypeOK
<1>1. Init => TypeOK /\ PollInv
    BY InitTyped
<1>2. TypeOK /\ PollInv /\ [Next]_vars => TypeOK' /\ PollInv'
    BY StepTyped DEF Typed, PollsKept
<1>3. QED
    BY <1>1, <1>2, PTL DEF Spec

-----------------------------------------------------------------------------
(* What polls are past is held *)

\* What is posted and held stays held in the rooms rs.
HeldStays(rs) ==
    \A m \in Messages : RoomOf[m] \in rs /\ seqno[m] > 0 /\ Held(m) => Held(m)'

LEMMA HeldUpToStays ==
    ASSUME TypeOK, ServerStep, NEW rs, HeldStays(rs), NEW r \in rs, NEW n \in Numbers,
           HeldUpTo(r, n)
    PROVE  HeldUpTo(r, n)'
<1>1. ASSUME NEW m \in In(r)
      PROVE  m \in Messages /\ RoomOf[m] = r /\ seqno[m] \in Nat /\ seqno'[m] \in Nat
    BY <1>1, RoomFactsOf DEF TypeOK, ServerStep
<1>2. n \in Int
    BY DEF Numbers, NoRow
<1>3. ASSUME NEW m \in In(r), NEW k \in In(r), seqno'[m] # seqno[m]
      PROVE  seqno[k] < seqno'[m]
    BY <1>1, <1>3 DEF ServerStep
<1>4. ASSUME n > 0
      PROVE  \E m \in In(r) : n <= seqno'[m]
  <2>1. PICK m \in In(r) : n <= seqno[m]
    BY <1>4 DEF HeldUpTo
  <2>2. seqno[m] <= seqno'[m]
    BY <1>1, <1>3
  <2>3. QED
    BY <1>1, <1>2, <2>1, <2>2
<1>5. ASSUME NEW m \in In(r), seqno'[m] \in 1..n
      PROVE  Held(m)'
  <2>1. n > 0
    BY <1>1, <1>2, <1>5
  <2>2. PICK k \in In(r) : n <= seqno[k]
    BY <2>1 DEF HeldUpTo
  <2>3. seqno'[m] = seqno[m]
    BY <1>1, <1>2, <1>3, <1>5, <2>2
  <2>4. Held(m) /\ seqno[m] > 0
    BY <1>1, <1>5, <2>3 DEF HeldUpTo
  <2>5. QED
    BY <1>1, <2>4 DEF HeldStays
<1>6. QED
    BY <1>4, <1>5 DEF HeldUpTo

\* a number that passes nothing
LEMMA HeldUpToNothing ==
    ASSUME NEW r, NEW n, n = 0 \/ n = NoRow, seqno \in [Messages -> Nat]
    PROVE  HeldUpTo(r, n)
    BY RoomFactsOf DEF HeldUpTo, NoRow

LEMMA HeldByIdle == HeldBy(Idle)
    BY IdleFacts DEF HeldBy

\* x has what q has of the rooms rs, which nobody joined again, and hands on no room
LEMMA HeldByStays ==
    ASSUME TypeOK, PollInv, ServerStep, NEW rs, HeldStays(rs),
           NEW q \in Poll, PollFacts(q), HeldBy(q), NEW x \in Poll,
           x.since = q.since, x.got = q.got, x.left \subseteq q.left,
           q.stale \subseteq x.stale, \A r \in Asked(q) : r \in x.stale \/ r \in rs,
           x.phase = "save" => q.phase = "save" /\ x.room = q.room
    PROVE  HeldBy(x)'
<1>1. Asked(x) = Asked(q) /\ Asked(q) \subseteq Rooms /\ q.left \subseteq Asked(q)
    BY PollIs, AskedFacts DEF PollFacts
<1>2. \A r \in Rooms : x.since[r] \in Numbers /\ GotFor(x, r) = GotFor(q, r)
    BY PollIs DEF GotFor
<1>3. ASSUME NEW r \in Rooms, NEW u \in GotFor(q, r)
      PROVE  /\ u \in q.got /\ u.msg \in In(r) /\ u.msg \in Messages /\ u.seqno \in Nat
             /\ seqno[u.msg] \in Nat /\ u.seqno \in 1..seqno[u.msg]
             /\ u.deleted => u.msg \in deleted
  <2>1. u \in q.got /\ RoomOf[u.msg] = r
    BY <1>3 DEF GotFor
  <2>2. u.msg \in Messages /\ u.seqno \in Nat
    BY <2>1, PollIs
  <2>3. u.msg \in In(r) /\ seqno[u.msg] \in Nat
    BY <2>1, <2>2, RoomFactsOf DEF TypeOK
  <2>4. QED
    BY <2>1, <2>2, <2>3 DEF PollFacts
<1>4. ASSUME NEW r \in Asked(x) \ x.stale
      PROVE  HeldUpTo(r, x.since[r])'
  <2>1. PICK n : n = x.since[r]
    OBVIOUS
  <2>2. HeldUpTo(r, n) /\ n \in Numbers /\ r \in rs
    BY <1>1, <1>2, <1>4, <2>1 DEF HeldBy
  <2>3. HeldUpTo(r, n)'
    BY <2>2, HeldUpToStays
  <2>4. QED
    BY <2>1, <2>3
<1>5. ASSUME NEW r \in x.left \ x.stale, NEW m \in In(r), NEW u \in GotFor(x, r),
             seqno'[m] \in (x.since[r] + 1)..u.seqno
      PROVE  m \in deleted' \/ \E v \in x.got : v.msg = m
  <2>1. r \in q.left \ q.stale /\ r \in Rooms /\ u \in GotFor(q, r)
    BY <1>1, <1>2, <1>5
  <2>2. /\ u.msg \in In(r) /\ seqno[u.msg] \in Nat /\ u.seqno \in 1..seqno[u.msg]
        /\ x.since[r] \in Int
    BY <1>2, <1>3, <2>1 DEF Numbers, NoRow
  <2>3. m \in Messages /\ RoomOf[m] = r /\ seqno'[m] \in Nat /\ seqno[m] \in Nat
    BY <1>5, RoomFactsOf DEF TypeOK, ServerStep
  <2>4. seqno'[m] # seqno[m] => seqno[u.msg] < seqno'[m]
    BY <2>2, <2>3 DEF ServerStep
  <2>5. seqno'[m] = seqno[m]
    BY <1>5, <2>2, <2>3, <2>4
  <2>6. seqno[m] \in (q.since[r] + 1)..u.seqno
    BY <1>5, <2>5
  <2>7. m \in deleted \/ \E v \in q.got : v.msg = m
    BY <1>5, <2>1, <2>6 DEF HeldBy
  <2>8. QED
    BY <2>7 DEF ServerStep
<1>6. ASSUME x.phase = "save", x.room \notin x.stale, NEW u \in GotFor(x, x.room)
      PROVE  u.deleted \/ Held(u.msg)'
  <2>1. q.phase = "save" /\ x.room = q.room /\ q.room \in q.left
    BY <1>6 DEF PollFacts
  <2>2. q.room \in Rooms /\ q.room \in Asked(q) /\ q.room \in rs /\ q.room \notin q.stale
    BY <1>1, <1>6, <2>1
  <2>3. u \in GotFor(q, q.room)
    BY <1>2, <1>6, <2>1, <2>2
  <2>4. u.deleted \/ Held(u.msg)
    BY <2>1, <2>2, <2>3 DEF HeldBy
  <2>5. u.msg \in Messages /\ RoomOf[u.msg] \in rs /\ seqno[u.msg] > 0
    BY <1>3, <2>2, <2>3, RoomFactsOf
  <2>6. QED
    BY <2>4, <2>5 DEF HeldStays
<1>7. QED
    BY <1>4, <1>5, <1>6 DEF HeldBy

LEMMA RowsHeld ==
    ASSUME TypeOK, ServerStep, HeldInv, NEW rs, HeldStays(rs),
           \A r \in Rooms :
             /\ table'[r] \in {0, NoRow} \/ (r \in rs /\ table'[r] \in {table[r], cachedRooms[r]})
             /\ cachedRooms'[r] \in {0, NoRow}
                \/ (r \in rs /\ cachedRooms'[r] \in {table[r], cachedRooms[r]})
    PROVE  \A r \in Rooms : HeldUpTo(r, table[r])' /\ HeldUpTo(r, cachedRooms[r])'
<1>1. SUFFICES ASSUME NEW r \in Rooms
               PROVE  HeldUpTo(r, table[r])' /\ HeldUpTo(r, cachedRooms[r])'
    OBVIOUS
<1>2. ASSUME NEW n, n \in {0, NoRow} \/ (r \in rs /\ n \in {table[r], cachedRooms[r]})
      PROVE  HeldUpTo(r, n)'
  <2>1. CASE n \in {0, NoRow}
    <3>1. seqno' \in [Messages -> Nat]
      BY DEF ServerStep
    <3>2. QED
      BY <2>1, <3>1, RoomFactsOf DEF HeldUpTo, NoRow
  <2>2. CASE r \in rs /\ n \in {table[r], cachedRooms[r]}
    <3>1. n \in Numbers /\ HeldUpTo(r, n)
      BY <1>1, <2>2 DEF TypeOK, HeldInv
    <3>2. QED
      BY <2>2, <3>1, HeldUpToStays
  <2>3. QED
    BY <1>2, <2>1, <2>2
<1>3. PICK n, k : n = table'[r] /\ k = cachedRooms'[r]
    OBVIOUS
<1>4. HeldUpTo(r, n)' /\ HeldUpTo(r, k)'
    BY <1>1, <1>2, <1>3
<1>5. QED
    BY <1>3, <1>4

\* a poll that has what it had, of the rooms rs
Follows(x, q, rs) ==
    /\ x.since = q.since /\ x.got = q.got /\ x.left \subseteq q.left
    /\ q.stale \subseteq x.stale /\ \A r \in Asked(q) : r \in x.stale \/ r \in rs
    /\ x.phase = "save" => q.phase = "save" /\ x.room = q.room

LEMMA FollowsItself ==
    ASSUME NEW q \in Poll
    PROVE  Follows(q, q, Rooms)
    BY AskedFacts DEF Follows

LEMMA PollsHeld ==
    ASSUME TypeOK, PollInv, ServerStep, HeldInv, NEW rs, HeldStays(rs),
           polls' \in [Polls -> Poll], NEW p \in Polls,
           polls'[p] = Idle \/ Follows(polls'[p], polls[p], rs)
    PROVE  HeldBy(polls[p])'
<1>1. PICK q, x : q = polls[p] /\ x = polls'[p]
    OBVIOUS
<1>2. q \in Poll /\ PollFacts(q) /\ HeldBy(q) /\ x \in Poll
    BY <1>1 DEF TypeOK, PollInv, HeldInv
<1>3. CASE x = Idle
    BY <1>1, <1>3, IdleFacts DEF HeldBy
<1>4. CASE Follows(x, q, rs)
  <2>1. HeldBy(x)'
    BY <1>2, <1>4, HeldByStays DEF Follows
  <2>2. QED
    BY <1>1, <2>1
<1>5. QED
    BY <1>1, <1>3, <1>4

LEMMA OneMovesHeld ==
    ASSUME TypeOK, PollInv, ServerStep, HeldInv, HeldStays(Rooms), NEW p \in Polls, NEW x,
           Moves(p, x), HeldBy(x)'
    PROVE  \A o \in Polls : HeldBy(polls[o])'
<1>1. SUFFICES ASSUME NEW o \in Polls
               PROVE  HeldBy(polls[o])'
    OBVIOUS
<1>2. CASE o = p
    BY <1>2 DEF Moves
<1>3. CASE o # p
  <2>1. PICK q : q = polls[o]
    OBVIOUS
  <2>2. polls'[o] = q /\ q \in Poll
    BY <1>3, <2>1 DEF Moves, TypeOK
  <2>3. Follows(q, q, Rooms)
    BY <2>2, FollowsItself
  <2>4. QED
    BY <2>1, <2>2, <2>3, PollsHeld DEF Moves
<1>4. QED
    BY <1>2, <1>3

LEMMA PollsStayHeld ==
    ASSUME TypeOK, PollInv, ServerStep, HeldInv, HeldStays(Rooms), UNCHANGED polls
    PROVE  \A o \in Polls : HeldBy(polls[o])'
<1>1. SUFFICES ASSUME NEW o \in Polls
               PROVE  HeldBy(polls[o])'
    OBVIOUS
<1>2. PICK q : q = polls[o]
    OBVIOUS
<1>3. polls'[o] = q /\ q \in Poll /\ polls' \in [Polls -> Poll]
    BY <1>2 DEF TypeOK
<1>4. Follows(q, q, Rooms)
    BY <1>3, FollowsItself
<1>5. QED
    BY <1>2, <1>3, <1>4, PollsHeld

\* Rows that stay, are emptied or go, while no poll moves and nothing is dropped.
LEMMA StayHeld ==
    ASSUME TypeOK, PollInv, ServerStep, HeldInv, HeldStays(Rooms), UNCHANGED polls,
           \A r \in Rooms :
             /\ table'[r] \in {0, NoRow, table[r], cachedRooms[r]}
             /\ cachedRooms'[r] \in {0, NoRow, table[r], cachedRooms[r]}
    PROVE  HeldInv'
<1>1. \A r \in Rooms : HeldUpTo(r, table[r])' /\ HeldUpTo(r, cachedRooms[r])'
    BY RowsHeld
<1>2. \A o \in Polls : HeldBy(polls[o])'
    BY PollsStayHeld
<1>3. QED
    BY <1>1, <1>2 DEF HeldInv

LEMMA InboxStays ==
    ASSUME TypeOK, ServerStep, UNCHANGED <<stored, pending, lost>>
    PROVE  HeldStays(Rooms)
    BY DEF HeldStays, Held, ServerStep

LEMMA RoomDoneFollows ==
    ASSUME TypeOK, PollInv, NEW p \in Polls, NEW r, RoomDone(p, r)
    PROVE  /\ polls' \in [Polls -> Poll]
           /\ \A o \in Polls : polls'[o] = Idle \/ Follows(polls'[o], polls[o], Rooms)
<1>1. PICK q : q = polls[p]
    OBVIOUS
<1>2. q \in Poll /\ polls \in [Polls -> Poll]
    BY <1>1 DEF TypeOK
<1>3. PICK x : Moves(p, x) /\ (x = Idle \/ x = DoneWith(q, r))
    BY <1>1, <1>2, RoomDoneMoves
<1>4. x = Idle \/ Follows(x, q, Rooms)
  <2>1. CASE x = DoneWith(q, r)
    <3>1. /\ x.phase = "delete" /\ x.since = q.since /\ x.got = q.got
          /\ x.left = q.left \ {r} /\ x.stale = q.stale
      BY <1>2, <2>1, DoneWithFacts
    <3>2. QED
      BY <3>1, AskedFacts DEF Follows
  <2>2. QED
    BY <1>3, <2>1
<1>5. ASSUME NEW o \in Polls
      PROVE  polls'[o] = Idle \/ Follows(polls'[o], polls[o], Rooms)
  <2>1. CASE o = p
    BY <1>1, <1>3, <1>4, <2>1 DEF Moves
  <2>2. CASE o # p
    <3>1. PICK y : y = polls[o]
      OBVIOUS
    <3>2. y \in Poll /\ polls'[o] = y
      BY <1>2, <1>3, <2>2, <3>1 DEF Moves
    <3>3. QED
      BY <3>1, <3>2, FollowsItself
  <2>3. QED
    BY <2>1, <2>2
<1>6. QED
    BY <1>3, <1>5 DEF Moves

LEMMA StopPollsFollows ==
    ASSUME TypeOK, polls' = StopPolls
    PROVE  \A o \in Polls : polls'[o] = Idle \/ Follows(polls'[o], polls[o], Rooms)
<1>1. SUFFICES ASSUME NEW o \in Polls
               PROVE  polls'[o] = Idle \/ Follows(polls'[o], polls[o], Rooms)
    OBVIOUS
<1>2. PICK q, x : q = polls[o] /\ x = Stopped(q)
    OBVIOUS
<1>3. q \in Poll /\ (polls'[o] = Idle \/ polls'[o] = x)
    BY <1>2, StopPollsIs DEF TypeOK
<1>4. /\ x.phase = q.phase /\ x.since = q.since /\ x.got = q.got
      /\ x.left = q.left /\ x.room = q.room /\ x.stale = q.stale
    BY <1>2, <1>3, StoppedFacts
<1>5. Follows(x, q, Rooms)
    BY <1>4, AskedFacts DEF Follows
<1>6. QED
    BY <1>2, <1>3, <1>5

LEMMA OutdatedFollows ==
    ASSUME TypeOK, NEW rs, attemptConnectionV2(rs)
    PROVE  \A o \in Polls : Follows(polls'[o], polls[o], Rooms \ rs)
<1>1. SUFFICES ASSUME NEW o \in Polls
               PROVE  Follows(polls'[o], polls[o], Rooms \ rs)
    OBVIOUS
<1>2. PICK q, x : q = polls[o] /\ x = Outdated(q, rs)
    OBVIOUS
<1>3. q \in Poll /\ polls'[o] = x
    BY <1>2, OutdatedIs DEF TypeOK
<1>4. /\ x.phase = q.phase /\ x.since = q.since /\ x.got = q.got
      /\ x.left = q.left /\ x.room = q.room /\ x.stale = q.stale \cup (rs \cap Asked(q))
    BY <1>2, <1>3, OutdatedFacts
<1>5. Follows(x, q, Rooms \ rs)
    BY <1>4, AskedFacts DEF Follows
<1>6. QED
    BY <1>2, <1>3, <1>5

\* a step that drops nothing and moves no poll
LEMMA QuietHeld ==
    ASSUME TypeOK, PollInv, ServerStep, HeldInv, UNCHANGED <<stored, pending, lost, polls>>,
           \A r \in Rooms :
             /\ table'[r] \in {0, NoRow, table[r], cachedRooms[r]}
             /\ cachedRooms'[r] \in {0, NoRow, table[r], cachedRooms[r]}
    PROVE  HeldInv'
    BY InboxStays, StayHeld

LEMMA compactPollHeld ==
    ASSUME TypeOK, PollInv, HeldInv, compactPoll
    PROVE  HeldInv'
<1> DEFINE free == CHOOSE p \in Polls : polls[p].phase = "idle"
           since == [r \in Rooms |->
               IF r \notin roomIdsToPoll THEN NoRow
               ELSE IF HasRow(r) THEN cachedRooms[r] ELSE 0]
<1>1. /\ \E p \in Polls : polls[p].phase = "idle"
      /\ polls' = [polls EXCEPT ![free].phase = "request", ![free].since = since]
      /\ UNCHANGED <<seqno, deleted, table, cachedRooms, stored, pending, lost>>
    BY DEF compactPoll
<1>2. free \in Polls /\ polls[free].phase = "idle"
    BY <1>1
<1>3. polls[free] = Idle /\ polls \in [Polls -> Poll]
    BY <1>2, IdleIs DEF TypeOK
<1>4. /\ since \in [Rooms -> Numbers]
      /\ \A r \in Rooms : since[r] \in {0, NoRow, cachedRooms[r]}
    BY DEF TypeOK, Numbers
<1> HIDE DEF free
<1>5. PICK s, x : s = since /\ x = AskingFor(s)
    OBVIOUS
<1> HIDE DEF since
<1>6. Moves(free, x)
    BY <1>1, <1>2, <1>3, <1>4, <1>5, AskingMoves
<1>7. /\ x \in Poll /\ x.phase = "request" /\ x.since = s /\ x.left = {}
    BY <1>4, <1>5, AskingForFacts
<1>8. ServerStep /\ HeldStays(Rooms)
    BY <1>1, ServerStays, InboxStays
<1>9. ASSUME NEW r \in Rooms
      PROVE  HeldUpTo(r, x.since[r])'
  <2>1. PICK n : n = s[r]
    OBVIOUS
  <2>2. n = 0 \/ n = NoRow \/ n = cachedRooms[r]
    BY <1>4, <1>5, <2>1
  <2>3. HeldUpTo(r, n)
    BY <2>2, HeldUpToNothing DEF TypeOK, HeldInv
  <2>4. n \in Numbers
    BY <1>4, <1>5, <2>1
  <2>5. HeldUpTo(r, n)'
    BY <1>8, <2>3, <2>4, HeldUpToStays
  <2>6. QED
    BY <1>7, <2>1, <2>5
<1>10. HeldBy(x)'
    BY <1>7, <1>9, AskedFacts DEF HeldBy
<1>11. \A p \in Polls : HeldBy(polls[p])'
    BY <1>2, <1>6, <1>8, <1>10, OneMovesHeld
<1>12. \A r \in Rooms : HeldUpTo(r, table[r])' /\ HeldUpTo(r, cachedRooms[r])'
    BY <1>1, <1>8, RowsHeld
<1>13. QED
    BY <1>11, <1>12 DEF HeldInv

\* An answer has all there is after the number that was asked for.
LEMMA ReplyHeld ==
    ASSUME TypeOK, PollInv, HeldInv, NEW p \in Polls, Reply(p)
    PROVE  HeldInv'
<1>1. PICK q : q = polls[p]
    OBVIOUS
<1>2. q \in Poll /\ PollFacts(q) /\ HeldBy(q) /\ polls \in [Polls -> Poll]
    BY <1>1 DEF TypeOK, PollInv, HeldInv
<1>3. PICK asked, got : asked = Asked(q) /\ got = UNION {Answer(r, q.since[r]) : r \in asked}
    OBVIOUS
<1>4. /\ polls' = [polls EXCEPT ![p].phase = "delete", ![p].left = asked, ![p].got = got]
      /\ UNCHANGED <<seqno, deleted, table, cachedRooms, stored, pending, lost>>
    BY <1>1, <1>3 DEF Reply
<1>5. asked \in SUBSET Rooms /\ q.since \in [Rooms -> Numbers]
    BY <1>2, <1>3, PollIs
<1>6. \A u : u \in got <=> \E r \in asked : u \in Answer(r, q.since[r])
    BY <1>3
<1>7. got \in SUBSET Update
    BY <1>5, <1>6, AnswersFinite
<1>8. PICK x : x = Answered(q, asked, got)
    OBVIOUS
<1>9. Moves(p, x)
    BY <1>1, <1>2, <1>4, <1>5, <1>7, <1>8, ReplyMoves
<1>10. /\ x.phase = "delete" /\ x.since = q.since /\ x.stale = q.stale
       /\ x.got = got /\ x.left = asked /\ Asked(x) = asked
    BY <1>2, <1>3, <1>5, <1>7, <1>8, AnsweredFacts
<1>11. ServerStep /\ HeldStays(Rooms)
    BY <1>4, ServerStays, InboxStays
<1>12. ASSUME NEW r \in asked \ x.stale
       PROVE  HeldUpTo(r, x.since[r])'
  <2>1. PICK n : n = q.since[r]
    OBVIOUS
  <2>2. HeldUpTo(r, n) /\ n \in Numbers /\ r \in Rooms
    BY <1>2, <1>3, <1>5, <1>10, <1>12, <2>1 DEF HeldBy
  <2>3. HeldUpTo(r, n)'
    BY <1>11, <2>2, HeldUpToStays
  <2>4. QED
    BY <1>10, <2>1, <2>3
<1>13. ASSUME NEW r \in asked, NEW m \in In(r), seqno[m] > x.since[r]
       PROVE  m \in deleted \/ \E v \in x.got : v.msg = m
  <2>1. SUFFICES ASSUME m \notin deleted
                 PROVE  \E v \in x.got : v.msg = m
    OBVIOUS
  <2>2. PICK v : v = [msg |-> m, seqno |-> seqno[m], deleted |-> m \in deleted]
    OBVIOUS
  <2>3. v \in Answer(r, q.since[r])
    BY <1>10, <1>13, <2>1, <2>2 DEF Answer
  <2>4. v.msg = m
    BY <2>2
  <2>5. QED
    BY <1>6, <1>10, <2>3, <2>4
<1>14. HeldBy(x)'
  <2>1. ASSUME NEW r \in asked, NEW m \in In(r), NEW u \in GotFor(x, r),
               seqno[m] \in (x.since[r] + 1)..u.seqno
        PROVE  m \in deleted \/ \E v \in x.got : v.msg = m
    <3>1. u \in got /\ r \in Rooms /\ m \in Messages
      BY <1>5, <1>10, <2>1, RoomFactsOf DEF GotFor
    <3>2. u.seqno \in Int /\ seqno[m] \in Nat
      BY <1>7, <3>1 DEF Update, TypeOK
    <3>3. x.since[r] \in Int
      BY <1>5, <1>10, <3>1 DEF Numbers, NoRow
    <3>4. seqno[m] > x.since[r]
      BY <2>1, <3>2, <3>3
    <3>5. QED
      BY <1>13, <3>4
  <2>2. QED
    BY <1>4, <1>10, <1>12, <2>1 DEF HeldBy
<1>15. \A o \in Polls : HeldBy(polls[o])'
    BY <1>9, <1>11, <1>14, OneMovesHeld
<1>16. \A r \in Rooms : HeldUpTo(r, table[r])' /\ HeldUpTo(r, cachedRooms[r])'
    BY <1>4, <1>11, RowsHeld
<1>17. QED
    BY <1>15, <1>16 DEF HeldInv

LEMMA RequestFailsHeld ==
    ASSUME TypeOK, PollInv, HeldInv, NEW p \in Polls, RequestFails(p)
    PROVE  HeldInv'
<1>1. /\ polls' = [polls EXCEPT ![p] = Idle]
      /\ UNCHANGED <<seqno, deleted, table, cachedRooms, stored, pending, lost>>
    BY DEF RequestFails
<1>2. ServerStep /\ HeldStays(Rooms)
    BY <1>1, ServerStays, InboxStays
<1>3. Moves(p, Idle)
    BY <1>1, IdleFacts, MovesTo DEF TypeOK
<1>4. PICK x : x = Idle
    OBVIOUS
<1>5. HeldBy(x)'
    BY <1>4, IdleFacts DEF HeldBy
<1>6. \A o \in Polls : HeldBy(polls[o])'
    BY <1>2, <1>3, <1>4, <1>5, OneMovesHeld
<1>7. \A r \in Rooms : HeldUpTo(r, table[r])' /\ HeldUpTo(r, cachedRooms[r])'
    BY <1>1, <1>2, RowsHeld
<1>8. QED
    BY <1>6, <1>7 DEF HeldInv

\* Only messages that were deleted on the server are destroyed.
LEMMA DeletedHeld ==
    ASSUME TypeOK, PollInv, HeldInv, NEW p \in Polls, handleSogsV3DeletedMessages(p)
    PROVE  HeldInv'
<1>1. UNCHANGED <<seqno, deleted, cachedRooms, pending, lost>>
    BY DEF handleSogsV3DeletedMessages
<1>2. ServerStep
    BY <1>1, ServerStays
<1>3. PICK q : q = polls[p]
    OBVIOUS
<1>4. q \in Poll /\ PollFacts(q) /\ HeldBy(q) /\ polls \in [Polls -> Poll]
    BY <1>3 DEF TypeOK, PollInv, HeldInv
<1>5. PICK r \in q.left :
        \/ /\ GotFor(q, r) # {}
           /\ polls' = [polls EXCEPT ![p].phase = "store", ![p].room = r]
           /\ UNCHANGED table
           /\ \A m \in Messages :
                stored'[m] # stored[m] =>
                  \E u \in GotFor(q, r) : u.deleted /\ m = u.msg
        \/ /\ RoomDone(p, r) /\ UNCHANGED stored
           /\ table' = IF HasRow(r) THEN [table EXCEPT ![r] = cachedRooms[r]] ELSE table
    BY <1>3 DEF handleSogsV3DeletedMessages, TypeOK
<1>6. CASE /\ GotFor(q, r) # {}
           /\ polls' = [polls EXCEPT ![p].phase = "store", ![p].room = r]
           /\ UNCHANGED table
           /\ \A m \in Messages :
                stored'[m] # stored[m] =>
                  \E u \in GotFor(q, r) : u.deleted /\ m = u.msg
  <2>1. PICK x : x = TakenUp(q, r)
    OBVIOUS
  <2>2. r \in Rooms
    BY <1>4, <1>5, PollIs
  <2>3. Moves(p, x)
    BY <1>3, <1>4, <1>6, <2>1, <2>2, TakenUpMoves
  <2>4. /\ x \in Poll /\ x.phase = "store" /\ x.since = q.since
        /\ x.got = q.got /\ x.left = q.left /\ x.stale = q.stale
    BY <1>4, <2>1, <2>2, TakenUpFacts
  <2>5. \A m \in Messages : stored'[m] # stored[m] => m \in deleted
    BY <1>4, <1>6 DEF PollFacts, GotFor
  <2>6. HeldStays(Rooms)
    BY <1>1, <2>5 DEF HeldStays, Held
  <2>7. Follows(x, q, Rooms)
    BY <2>4, AskedFacts DEF Follows
  <2>8. polls'[p] = x /\ polls' \in [Polls -> Poll]
    BY <2>3 DEF Moves
  <2>9. HeldBy(polls[p])'
    BY <1>2, <1>3, <2>6, <2>7, <2>8, PollsHeld
  <2>10. HeldBy(x)'
    BY <2>8, <2>9
  <2>11. \A o \in Polls : HeldBy(polls[o])'
    BY <1>2, <2>3, <2>6, <2>10, OneMovesHeld
  <2>12. \A s \in Rooms : HeldUpTo(s, table[s])' /\ HeldUpTo(s, cachedRooms[s])'
    BY <1>1, <1>2, <1>6, <2>6, RowsHeld
  <2>13. QED
    BY <2>11, <2>12 DEF HeldInv
<1>7. CASE /\ RoomDone(p, r) /\ UNCHANGED stored
           /\ table' = IF HasRow(r) THEN [table EXCEPT ![r] = cachedRooms[r]] ELSE table
  <2>1. HeldStays(Rooms)
    BY <1>1, <1>2, <1>7, InboxStays
  <2>2. \A o \in Polls : HeldBy(polls[o])'
    BY <1>2, <1>7, <2>1, RoomDoneFollows, PollsHeld
  <2>3. \A s \in Rooms : table'[s] \in {table[s], cachedRooms[s]}
    BY <1>7 DEF TypeOK
  <2>4. \A s \in Rooms : HeldUpTo(s, table[s])' /\ HeldUpTo(s, cachedRooms[s])'
    BY <1>1, <1>2, <2>1, <2>3, RowsHeld
  <2>5. QED
    BY <2>2, <2>4 DEF HeldInv
<1>8. QED
    BY <1>5, <1>6, <1>7

\* Before the number is saved, every message of the answer is stored, a job or dropped.
LEMMA ResponseHeld ==
    ASSUME TypeOK, PollInv, HeldInv, NEW p \in Polls, handleMessagesResponseV4(p)
    PROVE  HeldInv'
<1>1. PICK q, new, x : /\ q = polls[p] /\ new = filterDuplicatesFromDb(GotFor(q, q.room))
                       /\ x = Saving(q)
    OBVIOUS
<1>2. /\ q.phase = "store" /\ polls' = [polls EXCEPT ![p].phase = "save"]
      /\ IF q.room \in convoHub
         THEN /\ pending' = [m \in Messages |->
                   IF m \in new THEN pending[m] + 1 ELSE pending[m]]
              /\ UNCHANGED lost
         ELSE lost' = lost \cup new /\ UNCHANGED pending
      /\ UNCHANGED <<seqno, deleted, table, cachedRooms, stored>>
    BY <1>1 DEF handleMessagesResponseV4
<1>3. q \in Poll /\ PollFacts(q) /\ HeldBy(q) /\ polls \in [Polls -> Poll]
    BY <1>1 DEF TypeOK, PollInv, HeldInv
<1>4. ServerStep
    BY <1>2, ServerStays
<1>5. /\ new \in SUBSET Messages
      /\ \A m : m \in new <=> stored[m] = 0 /\ \E u \in GotFor(q, q.room) : ~u.deleted /\ m = u.msg
    BY <1>1, <1>3, NewFacts
<1>6. \A m \in Messages : pending[m] \in Nat /\ stored[m] \in Nat
    BY DEF TypeOK
<1>7. \A m \in Messages : (pending[m] > 0 => pending'[m] > 0) /\ (m \in lost => m \in lost')
    BY <1>2, <1>6
<1>8. \A m \in new : pending'[m] > 0 \/ m \in lost'
    BY <1>2, <1>5, <1>6
<1>9. HeldStays(Rooms)
    BY <1>2, <1>7 DEF HeldStays, Held
<1>10. Moves(p, x)
    BY <1>1, <1>2, <1>3, SavingMoves
<1>11. /\ x \in Poll /\ x.phase = "save" /\ x.since = q.since
       /\ x.got = q.got /\ x.left = q.left /\ x.room = q.room /\ x.stale = q.stale
       /\ Asked(x) = Asked(q)
    BY <1>1, <1>3, SavingFacts
<1>13. /\ \A r \in Asked(q) \ q.stale : HeldUpTo(r, q.since[r])'
       /\ \A r \in q.left \ q.stale : \A m \in In(r) : \A u \in GotFor(q, r) :
            seqno[m] \in (q.since[r] + 1)..u.seqno => m \in deleted \/ \E v \in q.got : v.msg = m
  <2>1. ASSUME NEW r \in Asked(q) \ q.stale
        PROVE  HeldUpTo(r, q.since[r])'
    <3>1. PICK n : n = q.since[r]
      OBVIOUS
    <3>2. HeldUpTo(r, n) /\ r \in Rooms /\ n \in Numbers
      BY <1>3, <2>1, <3>1, PollIs DEF HeldBy
    <3>3. HeldUpTo(r, n)'
      BY <1>4, <1>9, <3>2, HeldUpToStays
    <3>4. QED
      BY <3>1, <3>3
  <2>2. QED
    BY <1>3, <2>1 DEF HeldBy
<1>14. ASSUME NEW u \in GotFor(q, q.room)
       PROVE  u.deleted \/ Held(u.msg)'
  <2>1. u.msg \in Messages
    BY <1>3, PollIs DEF GotFor
  <2>2. u.deleted \/ stored[u.msg] # 0 \/ u.msg \in new
    BY <1>5
  <2>3. QED
    BY <1>2, <1>6, <1>8, <2>1, <2>2 DEF Held
<1>15. \A r : GotFor(x, r) = GotFor(q, r)
    BY <1>11 DEF GotFor
<1>16. HeldBy(x)'
    BY <1>2, <1>11, <1>13, <1>14, <1>15 DEF HeldBy
<1>17. \A o \in Polls : HeldBy(polls[o])'
    BY <1>4, <1>9, <1>10, <1>16, OneMovesHeld
<1>18. \A r \in Rooms : HeldUpTo(r, table[r])' /\ HeldUpTo(r, cachedRooms[r])'
    BY <1>2, <1>4, <1>9, RowsHeld
<1>19. QED
    BY <1>17, <1>18 DEF HeldInv

\* What the saved number passes was held already, or is between the number that
\* was asked for and the last one of the answer.
LEMMA updateRoomHeld ==
    ASSUME TypeOK, PollInv, HeldInv, NEW p \in Polls, updateRoom(p)
    PROVE  HeldInv'
<1>1. PICK q \in Poll, n \in Nat : \E u \in GotFor(q, q.room) :
        /\ q = polls[p] /\ PollFacts(q) /\ q.phase = "save"
        /\ q.room \in Rooms /\ q.room \in q.left /\ u \in Update /\ n = u.seqno
        /\ IF HasRow(q.room) THEN saveV2OpenGroupRoom(q.room, n)
           ELSE UNCHANGED <<table, cachedRooms>>
        /\ lost' = IF q.room \in q.stale
                   THEN lost \cup {m \in In(q.room) : seqno[m] \in 1..n} ELSE lost
        /\ RoomDone(p, q.room)
        /\ UNCHANGED <<seqno, deleted, stored, pending>>
    BY updateRoomSaves
<1>2. PICK u \in GotFor(q, q.room) : n = u.seqno /\ u \in Update
    BY <1>1
<1>3. PICK r : r = q.room
    OBVIOUS
<1>4. HeldBy(q) /\ r \in Rooms /\ r \in q.left /\ r \in Asked(q)
    BY <1>1, <1>3 DEF HeldInv, PollFacts
<1>5. ServerStep
    BY <1>1, ServerStays
<1>6. HeldStays(Rooms)
    BY <1>1 DEF HeldStays, Held
<1>7. \A o \in Polls : HeldBy(polls[o])'
    BY <1>1, <1>5, <1>6, RoomDoneFollows, PollsHeld
<1>8. /\ u \in q.got /\ u.msg \in In(r) /\ seqno[u.msg] \in Nat
      /\ u.seqno \in 1..seqno[u.msg]
  <2>1. u \in q.got /\ RoomOf[u.msg] = r /\ u.msg \in Messages
    BY <1>2, <1>3, PollIs DEF GotFor
  <2>2. QED
    BY <1>1, <2>1, RoomFactsOf DEF PollFacts, TypeOK
<1>9. ASSUME NEW m \in In(r), seqno[m] \in 1..n
      PROVE  Held(m)'
  <2>1. m \in Messages /\ RoomOf[m] = r /\ seqno[m] \in Nat
    BY <1>9, RoomFactsOf DEF TypeOK
  <2>2. CASE r \in q.stale
    BY <1>1, <1>3, <1>9, <2>1, <2>2 DEF Held
  <2>3. CASE r \notin q.stale
    <3>1. PICK k : k = q.since[r]
      OBVIOUS
    <3>2. k \in Numbers /\ HeldUpTo(r, k)
      BY <1>4, <2>3, <3>1, PollIs DEF HeldBy
    <3>3. CASE seqno[m] <= k
      <4>1. seqno[m] \in 1..k
        BY <1>9, <2>1, <3>2, <3>3 DEF Numbers, NoRow
      <4>2. Held(m)
        BY <1>9, <3>2, <4>1 DEF HeldUpTo
      <4>3. QED
        BY <1>4, <1>6, <1>9, <2>1, <4>2 DEF HeldStays
    <3>4. CASE ~(seqno[m] <= k)
      <4>1. seqno[m] \in (k + 1)..u.seqno
        BY <1>2, <1>9, <2>1, <3>2, <3>4 DEF Numbers, NoRow
      <4>2. m \in deleted \/ \E v \in q.got : v.msg = m
        BY <1>2, <1>3, <1>4, <1>9, <2>3, <3>1, <4>1 DEF HeldBy
      <4>3. CASE m \in deleted
        BY <1>1, <4>3 DEF Held
      <4>4. CASE \E v \in q.got : v.msg = m
        <5>1. PICK v \in q.got : v.msg = m
          BY <4>4
        <5>2. v \in GotFor(q, q.room)
          BY <1>3, <2>1, <5>1 DEF GotFor
        <5>a. \A w \in GotFor(q, q.room) : w.deleted \/ Held(w.msg)
          BY <1>1, <1>3, <1>4, <2>3 DEF HeldBy
        <5>3. v.deleted \/ Held(m)
          BY <5>1, <5>2, <5>a
        <5>4. v.deleted => m \in deleted
          BY <1>1, <5>1 DEF PollFacts
        <5>5. m \in deleted \/ Held(m)
          BY <5>3, <5>4
        <5>6. QED
          BY <1>1, <1>4, <1>6, <1>9, <2>1, <5>5 DEF HeldStays, Held
      <4>5. QED
        BY <4>2, <4>3, <4>4
    <3>5. QED
      BY <3>3, <3>4
  <2>4. QED
    BY <2>2, <2>3
<1>10. HeldUpTo(r, n)'
  <2>1. n <= seqno[u.msg]
    BY <1>2, <1>8
  <2>2. QED
    BY <1>1, <1>8, <1>9, <2>1 DEF HeldUpTo
<1>11. ASSUME NEW s \in Rooms
       PROVE  HeldUpTo(s, table[s])' /\ HeldUpTo(s, cachedRooms[s])'
  <2>1. CASE HasRow(r) /\ s = r
    <3>1. table'[s] = n /\ cachedRooms'[s] = n
      BY <1>1, <1>3, <2>1 DEF saveV2OpenGroupRoom, TypeOK
    <3>2. QED
      BY <1>10, <2>1, <3>1
  <2>2. CASE ~(HasRow(r) /\ s = r)
    <3>1. table'[s] = table[s] /\ cachedRooms'[s] = cachedRooms[s]
      BY <1>1, <1>3, <2>2 DEF saveV2OpenGroupRoom, TypeOK
    <3>2. PICK a, b : a = table[s] /\ b = cachedRooms[s]
      OBVIOUS
    <3>3. a \in Numbers /\ b \in Numbers /\ HeldUpTo(s, a) /\ HeldUpTo(s, b)
      BY <3>2 DEF TypeOK, HeldInv
    <3>4. HeldUpTo(s, a)' /\ HeldUpTo(s, b)'
      BY <1>5, <1>6, <3>3, HeldUpToStays
    <3>5. QED
      BY <3>1, <3>2, <3>4
  <2>3. QED
    BY <2>1, <2>2
<1>12. QED
    BY <1>7, <1>11 DEF HeldInv

LEMMA MessagesFailHeld ==
    ASSUME TypeOK, PollInv, HeldInv, NEW p \in Polls, MessagesFail(p)
    PROVE  HeldInv'
<1>1. /\ RoomDone(p, polls[p].room)
      /\ UNCHANGED <<seqno, deleted, table, cachedRooms, stored, pending, lost>>
    BY DEF MessagesFail
<1>2. ServerStep /\ HeldStays(Rooms)
    BY <1>1, ServerStays, InboxStays
<1>3. \A o \in Polls : HeldBy(polls[o])'
    BY <1>1, <1>2, RoomDoneFollows, PollsHeld
<1>4. \A s \in Rooms : HeldUpTo(s, table[s])' /\ HeldUpTo(s, cachedRooms[s])'
    BY <1>1, <1>2, RowsHeld
<1>5. QED
    BY <1>3, <1>4 DEF HeldInv

LEMMA handleMessageJobHeld ==
    ASSUME TypeOK, PollInv, HeldInv, NEW m \in Messages, handleMessageJob(m)
    PROVE  HeldInv'
<1>1. /\ pending[m] > 0 /\ pending' = [pending EXCEPT ![m] = @ - 1]
      /\ \/ stored' = [stored EXCEPT ![m] = @ + 1] /\ UNCHANGED lost
         \/ lost' = lost \cup {m} /\ UNCHANGED stored
      /\ UNCHANGED <<seqno, deleted, table, cachedRooms, polls>>
    BY DEF handleMessageJob
<1>2. ServerStep
    BY <1>1, ServerStays
<1>3. pending \in [Messages -> Nat] /\ stored \in [Messages -> Nat]
    BY DEF TypeOK
<1>4. Held(m)'
    BY <1>1, <1>3 DEF Held
<1>5. \A k \in Messages : Held(k) => Held(k)'
    BY <1>1, <1>3, <1>4 DEF Held
<1>6. HeldStays(Rooms)
    BY <1>5 DEF HeldStays
<1>7. QED
    BY <1>1, <1>2, <1>6, StayHeld

\* Of a room that is joined again nothing is left, and the polls that asked for
\* it are out of date.
LEMMA JoinHeld ==
    ASSUME TypeOK, PollInv, HeldInv, NEW rs, attemptConnectionV2(rs),
           UNCHANGED <<seqno, deleted, stored, pending>>
    PROVE  HeldInv'
<1>1. ServerStep
    BY ServerStays
<1>2. \A m \in Messages : m \in lost /\ RoomOf[m] \notin rs => m \in lost'
    BY DEF attemptConnectionV2
<1>3. HeldStays(Rooms \ rs)
    BY <1>2 DEF HeldStays, Held
<1>4. polls' \in [Polls -> Poll] /\ \A p \in Polls : Follows(polls'[p], polls[p], Rooms \ rs)
    BY OutdatedIs, OutdatedFollows
<1>5. \A p \in Polls : HeldBy(polls[p])'
    BY <1>1, <1>3, <1>4, PollsHeld
<1>6. \A r \in Rooms :
        /\ table'[r] = IF r \in rs THEN 0 ELSE table[r]
        /\ cachedRooms'[r] = IF r \in rs THEN 0 ELSE cachedRooms[r]
    BY DEF attemptConnectionV2
<1>7. \A r \in Rooms :
        /\ table'[r] \in {0, NoRow} \/ (r \in Rooms \ rs /\ table'[r] \in {table[r], cachedRooms[r]})
        /\ cachedRooms'[r] \in {0, NoRow}
           \/ (r \in Rooms \ rs /\ cachedRooms'[r] \in {table[r], cachedRooms[r]})
    BY <1>6
<1>8. \A r \in Rooms : HeldUpTo(r, table[r])' /\ HeldUpTo(r, cachedRooms[r])'
    BY <1>1, <1>3, <1>7, RowsHeld
<1>9. QED
    BY <1>5, <1>8 DEF HeldInv

\* what the poller does when a room is left or cleaned up
LEMMA RemovalFollows ==
    ASSUME TypeOK, polls' = StopPolls \/ UNCHANGED polls
    PROVE  /\ polls' \in [Polls -> Poll]
           /\ \A o \in Polls : polls'[o] = Idle \/ Follows(polls'[o], polls[o], Rooms)
<1>1. CASE polls' = StopPolls
    BY <1>1, StopPollsIs, StopPollsFollows
<1>2. CASE UNCHANGED polls
    BY <1>2, FollowsItself DEF TypeOK
<1>3. QED
    BY <1>1, <1>2

LEMMA LeaveMessagesHeld ==
    ASSUME TypeOK, PollInv, HeldInv, NEW r \in Rooms, LeaveMessages(r)
    PROVE  HeldInv'
<1>1. /\ stored' = [m \in Messages |-> IF m \in In(r) THEN 0 ELSE stored[m]]
      /\ lost' = lost \cup {m \in In(r) : seqno[m] > 0}
      /\ polls' = StopPolls \/ UNCHANGED polls
      /\ UNCHANGED <<seqno, deleted, table, cachedRooms, pending>>
    BY DEF LeaveMessages, removeRoomFromPolledRooms
<1>2. ServerStep
    BY <1>1, ServerStays
<1>3. HeldStays(Rooms)
    BY <1>1 DEF HeldStays, Held
<1>4. \A o \in Polls : HeldBy(polls[o])'
    BY <1>1, <1>2, <1>3, RemovalFollows, PollsHeld
<1>5. \A s \in Rooms : HeldUpTo(s, table[s])' /\ HeldUpTo(s, cachedRooms[s])'
    BY <1>1, <1>2, <1>3, RowsHeld
<1>6. QED
    BY <1>4, <1>5 DEF HeldInv

LEMMA CleanRoomHeld ==
    ASSUME TypeOK, PollInv, HeldInv, NEW r \in Rooms, CleanRoom(r)
    PROVE  HeldInv'
<1>1. /\ saveV2OpenGroupRoom(r, NoRow) /\ (polls' = StopPolls \/ UNCHANGED polls)
      /\ UNCHANGED <<seqno, deleted, stored, pending, lost>>
    BY DEF CleanRoom, removeRoomFromPolledRooms
<1>2. ServerStep /\ HeldStays(Rooms)
    BY <1>1, ServerStays, InboxStays
<1>3. \A o \in Polls : HeldBy(polls[o])'
    BY <1>1, <1>2, RemovalFollows, PollsHeld
<1>4. \A s \in Rooms : table'[s] \in {NoRow, table[s]} /\ cachedRooms'[s] \in {NoRow, cachedRooms[s]}
    BY <1>1 DEF saveV2OpenGroupRoom, TypeOK
<1>5. \A s \in Rooms : HeldUpTo(s, table[s])' /\ HeldUpTo(s, cachedRooms[s])'
    BY <1>2, <1>4, RowsHeld
<1>6. QED
    BY <1>3, <1>5 DEF HeldInv

LEMMA CrashHeld ==
    ASSUME TypeOK, PollInv, HeldInv, Crash
    PROVE  HeldInv'
<1>1. /\ cachedRooms' = table /\ pending' = [m \in Messages |-> 0]
      /\ polls' = [p \in Polls |-> Idle]
      /\ lost' = lost \cup {m \in Messages : pending[m] > 0}
      /\ UNCHANGED <<seqno, deleted, table, stored>>
    BY DEF Crash
<1>2. ServerStep
    BY <1>1, ServerStays
<1>3. HeldStays(Rooms)
    BY <1>1 DEF HeldStays, Held
<1>4. polls' \in [Polls -> Poll] /\ \A p \in Polls : polls'[p] = Idle
    BY <1>1, IdleFacts
<1>5. \A p \in Polls : HeldBy(polls[p])'
    BY <1>2, <1>3, <1>4, PollsHeld
<1>6. \A s \in Rooms : HeldUpTo(s, table[s])' /\ HeldUpTo(s, cachedRooms[s])'
    BY <1>1, <1>2, <1>3, RowsHeld
<1>7. QED
    BY <1>5, <1>6 DEF HeldInv

LEMMA StepHeld ==
    ASSUME TypeOK, PollInv, HeldInv, [Next]_vars
    PROVE  HeldInv'
<1>1. ASSUME NEW r \in Rooms, Post(r)
      PROVE  HeldInv'
    BY <1>1, PostServer, QuietHeld DEF Post
<1>2. ASSUME NEW m \in Messages, DeletePost(m)
      PROVE  HeldInv'
    BY <1>2, DeletePostServer, QuietHeld DEF DeletePost
<1>3. ASSUME compactPoll
      PROVE  HeldInv'
    BY <1>3, compactPollHeld
<1>4. ASSUME NEW p \in Polls, Reply(p)
      PROVE  HeldInv'
    BY <1>4, ReplyHeld
<1>5. ASSUME NEW p \in Polls, RequestFails(p)
      PROVE  HeldInv'
    BY <1>5, RequestFailsHeld
<1>6. ASSUME NEW p \in Polls, handleSogsV3DeletedMessages(p)
      PROVE  HeldInv'
    BY <1>6, DeletedHeld
<1>7. ASSUME NEW p \in Polls, handleMessagesResponseV4(p)
      PROVE  HeldInv'
    BY <1>7, ResponseHeld
<1>8. ASSUME NEW p \in Polls, MessagesFail(p)
      PROVE  HeldInv'
    BY <1>8, MessagesFailHeld
<1>9. ASSUME NEW p \in Polls, updateRoom(p)
      PROVE  HeldInv'
    BY <1>9, updateRoomHeld
<1>10. ASSUME NEW m \in Messages, handleMessageJob(m)
      PROVE  HeldInv'
    BY <1>10, handleMessageJobHeld
<1>11. ASSUME NEW r \in Rooms, joinOpenGroupV2(r)
      PROVE  HeldInv'
    BY <1>11, JoinHeld DEF joinOpenGroupV2
<1>12. ASSUME NEW r \in Rooms, JoinFails(r)
      PROVE  HeldInv'
    BY <1>12, JoinFailsIs, ServerStays, QuietHeld DEF saveV2OpenGroupRoom, TypeOK
<1>13. ASSUME NEW r \in Rooms, getOrCreateAndWait(r)
      PROVE  HeldInv'
    BY <1>13, ServerStays, QuietHeld DEF getOrCreateAndWait
<1>14. ASSUME NEW r \in Rooms, SaveJoinedRoom(r)
      PROVE  HeldInv'
    BY <1>14, ServerStays, QuietHeld DEF SaveJoinedRoom, saveV2OpenGroupRoom, TypeOK
<1>15. ASSUME NEW r \in Rooms, JoinEnds(r)
      PROVE  HeldInv'
    BY <1>15, ServerStays, QuietHeld DEF JoinEnds
<1>16. ASSUME NEW r \in Rooms, UserLeaves(r)
      PROVE  HeldInv'
    BY <1>16, ServerStays, QuietHeld DEF UserLeaves
<1>17. ASSUME NEW r \in Rooms, LeaveMessages(r)
      PROVE  HeldInv'
    BY <1>17, LeaveMessagesHeld
<1>18. ASSUME NEW r \in Rooms, removeCommunityFromWrappers(r)
      PROVE  HeldInv'
    BY <1>18, ServerStays, QuietHeld DEF removeCommunityFromWrappers
<1>19. ASSUME NEW r \in Rooms, removeConversation(r)
      PROVE  HeldInv'
    BY <1>19, ServerStays, QuietHeld DEF removeConversation
<1>20. ASSUME NEW r \in Rooms, removeV2OpenGroupRoom(r)
      PROVE  HeldInv'
    BY <1>20, ServerStays, QuietHeld DEF removeV2OpenGroupRoom, TypeOK
<1>21. ASSUME NEW r \in Rooms, LeaveEnds(r)
      PROVE  HeldInv'
    BY <1>21, ServerStays, QuietHeld DEF LeaveEnds, TypeOK
<1>22. ASSUME handleCommunitiesUpdate
      PROVE  HeldInv'
    BY <1>22, ServerStays, QuietHeld DEF handleCommunitiesUpdate
<1>23. ASSUME startPolling
      PROVE  HeldInv'
    BY <1>23, ServerStays, QuietHeld DEF startPolling
<1>24. ASSUME NEW r \in Rooms, CleanRoom(r)
      PROVE  HeldInv'
    BY <1>24, CleanRoomHeld
<1>25. ASSUME addRoomToPolledRooms
      PROVE  HeldInv'
    BY <1>25, ServerStays, QuietHeld DEF addRoomToPolledRooms
<1>26. ASSUME Crash
      PROVE  HeldInv'
    BY <1>26, CrashHeld
<1>27. ASSUME NEW r \in Rooms, LeaveListed(r)
      PROVE  HeldInv'
    BY <1>27, ServerStays, QuietHeld DEF LeaveListed
<1>28. ASSUME JoinListed
      PROVE  HeldInv'
    BY <1>28, JoinListedIs, JoinHeld DEF JoinListed, JoiningListed
<1>29. CASE UNCHANGED vars
    BY <1>29, ServerStays, QuietHeld
<1>30. QED
    BY <1>1, <1>2, <1>3, <1>4, <1>5, <1>6, <1>7, <1>8, <1>9, <1>10, <1>11, <1>12, <1>13,
       <1>14, <1>15, <1>16, <1>17, <1>18, <1>19, <1>20, <1>21, <1>22, <1>23, <1>24, <1>25,
       <1>26, <1>27, <1>28, <1>29
       DEF Next, PollStep, JoinStep, LeaveStep, StartStep, UpdateStep

\* The number a row keeps only passes messages that are stored, are a job of
\* their conversation, were deleted or are known to be dropped, whatever polls
\* overlap, of whatever pollers, and however rooms are left and joined again
\* under them (handleMessagesResponseV4, OpenGroupManagerV2): what will not be
\* asked for again was not silently missed.
THEOREM PolledHeld == Spec => []PolledIsHeld
<1>1. Init => TypeOK /\ PollInv /\ HeldInv
  <2>1. SUFFICES ASSUME Init
                 PROVE  HeldInv
    BY InitTyped
  <2>2. \A p \in Polls : HeldBy(polls[p])
    BY <2>1, HeldByIdle DEF Init
  <2>3. \A r \in Rooms : /\ table[r] \in {0, NoRow} /\ cachedRooms[r] \in {0, NoRow}
    BY <2>1 DEF Init
  <2>4. seqno \in [Messages -> Nat]
    BY <2>1 DEF Init
  <2>5. \A r \in Rooms : HeldUpTo(r, table[r]) /\ HeldUpTo(r, cachedRooms[r])
    BY <2>3, <2>4, HeldUpToNothing
  <2>6. QED
    BY <2>2, <2>5 DEF HeldInv
<1>2. TypeOK /\ PollInv /\ HeldInv /\ [Next]_vars => TypeOK' /\ PollInv' /\ HeldInv'
    BY StepTyped, StepHeld DEF Typed, PollsKept
<1>3. HeldInv => PolledIsHeld
    BY RoomFactsOf DEF HeldInv, HeldUpTo, PolledIsHeld, Held
<1>4. QED
    BY <1>1, <1>2, <1>3, PTL DEF Spec

-----------------------------------------------------------------------------
(* Where a room stands *)

\* the room is where it was
SameRoom(r) ==
    /\ r \in convoTable' <=> r \in convoTable
    /\ r \in convoHub' <=> r \in convoHub
    /\ r \in inactive' <=> r \in inactive
    /\ r \in wrapper' <=> r \in wrapper
    /\ r \in roomIdsToPoll' <=> r \in roomIdsToPoll
    /\ r \in orphans' <=> r \in orphans
    /\ r \in raced' <=> r \in raced
    /\ r \in toClean' <=> r \in toClean
    /\ r \in toLeave => r \in toLeave'
    /\ HasRow(r)' <=> HasRow(r)
    /\ leaving'[r] = leaving[r] /\ joining'[r] = joining[r]

LEMMA RoomStays ==
    ASSUME NEW r, RoomFacts(r), SameRoom(r), UNCHANGED isPolling
    PROVE  RoomFacts(r)'
    BY DEF RoomFacts, SameRoom, Untouched

LEMMA SteadyRooms ==
    ASSUME RoomInv, UNCHANGED <<isPolling, toClean>>, \A r \in Rooms : SameRoom(r)
    PROVE  RoomInv'
    BY RoomStays DEF RoomInv

\* one room moves
LEMMA MovedRoom ==
    ASSUME RoomInv, NEW r \in Rooms, RoomFacts(r)', UNCHANGED isPolling,
           toClean' \subseteq toClean, \A s \in Rooms \ {r} : SameRoom(s)
    PROVE  RoomInv'
<1>1. ASSUME NEW s \in Rooms
      PROVE  RoomFacts(s)'
    BY RoomStays DEF RoomInv
<1>2. QED
    BY <1>1 DEF RoomInv

LEMMA updateRoomRooms ==
    ASSUME TypeOK, PollInv, RoomInv, NEW p \in Polls, updateRoom(p)
    PROVE  RoomInv'
<1>1. PICK q \in Poll, n \in Nat :
        /\ q.room \in Rooms
        /\ IF HasRow(q.room) THEN saveV2OpenGroupRoom(q.room, n)
           ELSE UNCHANGED <<table, cachedRooms>>
        /\ UNCHANGED <<wrapper, convoTable, convoHub, inactive, roomIdsToPoll, joining, leaving,
                       isPolling, loops, orphans, raced>>
    BY updateRoomSaves
<1>2. \A r \in Rooms : HasRow(r)' <=> HasRow(r)
    BY <1>1 DEF saveV2OpenGroupRoom, HasRow, TypeOK, NoRow
<1>3. \A r \in Rooms : SameRoom(r)
    BY <1>1, <1>2 DEF SameRoom
<1>4. QED
    BY <1>1, <1>3, SteadyRooms

\* where the beginning of a join leaves a room
LEMMA BegunFacts ==
    ASSUME TypeOK, NEW rs, attemptConnectionV2(rs), NEW s \in Rooms
    PROVE  /\ s \in rs => HasRow(s)' /\ joining'[s] = "info" /\ s \notin wrapper'
           /\ s \notin rs => (HasRow(s)' <=> HasRow(s)) /\ joining'[s] = joining[s]
                             /\ (s \in wrapper' <=> s \in wrapper)
    BY DEF attemptConnectionV2, HasRow, NoRow, TypeOK

LEMMA joinOpenGroupV2Rooms ==
    ASSUME TypeOK, RoomInv, NEW r \in Rooms, joinOpenGroupV2(r)
    PROVE  RoomInv'
<1>1. PICK rs : rs = {r}
    OBVIOUS
<1>2. MayJoin(r) /\ attemptConnectionV2(rs)
      /\ UNCHANGED <<convoTable, convoHub, inactive, roomIdsToPoll, leaving, isPolling, loops,
                     orphans, raced>>
    BY <1>1 DEF joinOpenGroupV2
<1>3. RoomFacts(r)
    BY DEF RoomInv
<1>4. HasRow(r)' /\ joining'[r] = "info" /\ r \notin wrapper'
    BY <1>1, <1>2, BegunFacts
<1>5. RoomFacts(r)'
    BY <1>2, <1>3, <1>4 DEF MayJoin, RoomFacts, Untouched
<1>6. ASSUME NEW s \in Rooms \ {r}
      PROVE  SameRoom(s)
  <2>1. (HasRow(s)' <=> HasRow(s)) /\ joining'[s] = joining[s] /\ (s \in wrapper' <=> s \in wrapper)
    BY <1>1, <1>2, BegunFacts
  <2>2. QED
    BY <1>2, <2>1 DEF SameRoom
<1>7. QED
    BY <1>2, <1>5, <1>6, MovedRoom

LEMMA JoinFailsRooms ==
    ASSUME TypeOK, RoomInv, NEW r \in Rooms, JoinFails(r)
    PROVE  RoomInv'
<1>1. RoomFacts(r)
    BY DEF RoomInv
<1>2. /\ joining[r] # "no" /\ joining'[r] = "no" /\ ~HasRow(r)'
      /\ UNCHANGED <<roomIdsToPoll, leaving, isPolling, loops, raced>>
      /\ r \in wrapper => r \in wrapper'
    BY JoinFailsIs DEF saveV2OpenGroupRoom, HasRow, TypeOK, CommittedTo
<1>3. RoomFacts(r)'
  <2>1. CASE joining[r] = "info" /\ UNCHANGED <<convoTable, convoHub, inactive, orphans>>
    BY <1>1, <1>2, <2>1 DEF RoomFacts, Untouched
  <2>2. CASE /\ joining[r] = "info" /\ convoHub' = convoHub \cup {r}
             /\ inactive' = inactive \cup {r} /\ orphans' = orphans \cup {r}
    BY <1>1, <1>2, <2>2 DEF RoomFacts, Untouched
  <2>3. CASE /\ joining[r] \in {"create", "commit"} /\ orphans' = orphans \cup {r}
             /\ UNCHANGED <<convoTable, convoHub, inactive>>
    BY <1>1, <1>2, <2>3 DEF RoomFacts, Untouched
  <2>4. QED
    BY <2>1, <2>2, <2>3 DEF JoinFails
<1>4. ASSUME NEW s \in Rooms \ {r}
      PROVE  SameRoom(s)
  <2>1. (HasRow(s)' <=> HasRow(s)) /\ joining'[s] = joining[s]
    BY JoinFailsIs DEF saveV2OpenGroupRoom, HasRow, TypeOK
  <2>2. s \in wrapper' <=> s \in wrapper
    BY JoinFailsIs DEF CommittedTo
  <2>3. /\ s \in convoTable' <=> s \in convoTable
        /\ s \in convoHub' <=> s \in convoHub
        /\ s \in inactive' <=> s \in inactive
        /\ s \in orphans' <=> s \in orphans
    BY JoinFailsIs
  <2>4. QED
    BY <1>2, <2>1, <2>2, <2>3 DEF SameRoom
<1>5. QED
    BY <1>2, <1>3, <1>4, MovedRoom

LEMMA getOrCreateAndWaitRooms ==
    ASSUME TypeOK, RoomInv, NEW r \in Rooms, getOrCreateAndWait(r)
    PROVE  RoomInv'
<1>1. RoomFacts(r)
    BY DEF RoomInv
<1>2. RoomFacts(r)'
    BY <1>1 DEF RoomFacts, Untouched, HasRow, TypeOK, NoRow, getOrCreateAndWait
<1>3. ASSUME NEW s \in Rooms \ {r}
      PROVE  SameRoom(s)
    BY DEF SameRoom, HasRow, TypeOK, getOrCreateAndWait
<1>4. QED
    BY <1>2, <1>3, MovedRoom DEF getOrCreateAndWait

LEMMA SaveJoinedRoomRooms ==
    ASSUME TypeOK, RoomInv, NEW r \in Rooms, SaveJoinedRoom(r)
    PROVE  RoomInv'
<1>1. RoomFacts(r)
    BY DEF RoomInv
<1>2. RoomFacts(r)'
    BY <1>1 DEF RoomFacts, Untouched, HasRow, TypeOK, NoRow, SaveJoinedRoom, saveV2OpenGroupRoom
<1>3. ASSUME NEW s \in Rooms \ {r}
      PROVE  SameRoom(s)
    BY DEF SameRoom, HasRow, TypeOK, SaveJoinedRoom, saveV2OpenGroupRoom
<1>4. QED
    BY <1>2, <1>3, MovedRoom DEF SaveJoinedRoom

LEMMA JoinEndsRooms ==
    ASSUME TypeOK, RoomInv, NEW r \in Rooms, JoinEnds(r)
    PROVE  RoomInv'
<1>1. RoomFacts(r) /\ joining[r] = "commit" /\ r \notin inactive
    BY DEF RoomInv, RoomFacts, JoinEnds
<1>2. /\ HasRow(r) => r \in wrapper' /\ raced' = raced \ {r}
      /\ ~HasRow(r) => raced' = raced
      /\ \A s \in Rooms \ {r} : s \in wrapper' <=> s \in wrapper
      /\ r \in wrapper => r \in wrapper'
    BY <1>1 DEF JoinEnds, CommittedTo
<1>3. /\ \A s \in Rooms : HasRow(s)' <=> HasRow(s)
      /\ \A s \in Rooms : joining'[s] = IF s = r THEN "no" ELSE joining[s]
      /\ roomIdsToPoll' = roomIdsToPoll \cup {r}
      /\ UNCHANGED <<convoTable, convoHub, inactive, leaving, isPolling, loops, orphans>>
    BY DEF JoinEnds, HasRow, TypeOK
<1>4. RoomFacts(r)'
    BY <1>1, <1>2, <1>3 DEF RoomFacts, Untouched
<1>5. ASSUME NEW s \in Rooms \ {r}
      PROVE  SameRoom(s)
    BY <1>2, <1>3 DEF SameRoom
<1>6. QED
    BY <1>3, <1>4, <1>5, MovedRoom

LEMMA UserLeavesRooms ==
    ASSUME TypeOK, RoomInv, NEW r \in Rooms, UserLeaves(r)
    PROVE  RoomInv'
<1>1. RoomFacts(r)
    BY DEF RoomInv
<1>2. RoomFacts(r)'
    BY <1>1 DEF RoomFacts, Untouched, HasRow, TypeOK, NoRow, UserLeaves, deleteCommunity
<1>3. ASSUME NEW s \in Rooms \ {r}
      PROVE  SameRoom(s)
    BY DEF SameRoom, HasRow, TypeOK, UserLeaves, deleteCommunity
<1>4. QED
    BY <1>2, <1>3, MovedRoom DEF UserLeaves

LEMMA LeaveMessagesRooms ==
    ASSUME TypeOK, RoomInv, NEW r \in Rooms, LeaveMessages(r)
    PROVE  RoomInv'
<1>1. RoomFacts(r)
    BY DEF RoomInv
<1>2. RoomFacts(r)'
    BY <1>1 DEF RoomFacts, Untouched, HasRow, TypeOK, NoRow, LeaveMessages,
                CommittedTo, removeRoomFromPolledRooms
<1>3. ASSUME NEW s \in Rooms \ {r}
      PROVE  SameRoom(s)
    BY DEF SameRoom, HasRow, TypeOK, LeaveMessages,
                CommittedTo, removeRoomFromPolledRooms
<1>4. QED
    BY <1>2, <1>3, MovedRoom DEF LeaveMessages

LEMMA removeCommunityFromWrappersRooms ==
    ASSUME TypeOK, RoomInv, NEW r \in Rooms, removeCommunityFromWrappers(r)
    PROVE  RoomInv'
<1>1. RoomFacts(r)
    BY DEF RoomInv
<1>2. RoomFacts(r)'
    BY <1>1 DEF RoomFacts, Untouched, HasRow, TypeOK, NoRow, removeCommunityFromWrappers
<1>3. ASSUME NEW s \in Rooms \ {r}
      PROVE  SameRoom(s)
    BY DEF SameRoom, HasRow, TypeOK, removeCommunityFromWrappers
<1>4. QED
    BY <1>2, <1>3, MovedRoom DEF removeCommunityFromWrappers

LEMMA removeConversationRooms ==
    ASSUME TypeOK, RoomInv, NEW r \in Rooms, removeConversation(r)
    PROVE  RoomInv'
<1>1. RoomFacts(r)
    BY DEF RoomInv
<1>2. RoomFacts(r)'
    BY <1>1 DEF RoomFacts, Untouched, HasRow, TypeOK, NoRow, removeConversation
<1>3. ASSUME NEW s \in Rooms \ {r}
      PROVE  SameRoom(s)
    BY DEF SameRoom, HasRow, TypeOK, removeConversation
<1>4. QED
    BY <1>2, <1>3, MovedRoom DEF removeConversation

LEMMA removeV2OpenGroupRoomRooms ==
    ASSUME TypeOK, RoomInv, NEW r \in Rooms, removeV2OpenGroupRoom(r)
    PROVE  RoomInv'
<1>1. RoomFacts(r)
    BY DEF RoomInv
<1>2. RoomFacts(r)'
    BY <1>1 DEF RoomFacts, Untouched, HasRow, TypeOK, NoRow, removeV2OpenGroupRoom
<1>3. ASSUME NEW s \in Rooms \ {r}
      PROVE  SameRoom(s)
    BY DEF SameRoom, HasRow, TypeOK, removeV2OpenGroupRoom
<1>4. QED
    BY <1>2, <1>3, MovedRoom DEF removeV2OpenGroupRoom

LEMMA LeaveEndsRooms ==
    ASSUME TypeOK, RoomInv, NEW r \in Rooms, LeaveEnds(r)
    PROVE  RoomInv'
<1>1. RoomFacts(r)
    BY DEF RoomInv
<1>2. RoomFacts(r)'
    BY <1>1 DEF RoomFacts, Untouched, HasRow, TypeOK, NoRow, LeaveEnds
<1>3. ASSUME NEW s \in Rooms \ {r}
      PROVE  SameRoom(s)
    BY DEF SameRoom, HasRow, TypeOK, LeaveEnds
<1>4. QED
    BY <1>2, <1>3, MovedRoom DEF LeaveEnds

LEMMA LeaveListedRooms ==
    ASSUME TypeOK, RoomInv, NEW r \in Rooms, LeaveListed(r)
    PROVE  RoomInv'
<1>1. RoomFacts(r)
    BY DEF RoomInv
<1>2. RoomFacts(r)'
    BY <1>1 DEF RoomFacts, Untouched, HasRow, TypeOK, NoRow, LeaveListed, LeaveAndWait,
                deleteCommunity
<1>3. ASSUME NEW s \in Rooms \ {r}
      PROVE  SameRoom(s)
    BY DEF SameRoom, HasRow, TypeOK, LeaveListed, LeaveAndWait,
                deleteCommunity
<1>4. QED
    BY <1>2, <1>3, MovedRoom DEF LeaveListed

LEMMA CleanRoomRooms ==
    ASSUME TypeOK, RoomInv, NEW r \in Rooms, CleanRoom(r)
    PROVE  RoomInv'
<1>1. RoomFacts(r) /\ r \in toClean /\ isPolling = "cleaning"
    BY DEF RoomInv, CleanRoom
<1>2. /\ toClean' = toClean \ {r} /\ roomIdsToPoll' = roomIdsToPoll \ {r}
      /\ raced' = IF joining[r] = "commit" THEN raced \cup {r} ELSE raced
      /\ UNCHANGED <<wrapper, convoTable, convoHub, inactive, joining, isPolling, toLeave,
                     orphans>>
    BY DEF CleanRoom, removeRoomFromPolledRooms
<1>3. /\ \A s \in Rooms : HasRow(s)' <=> HasRow(s) /\ s # r
      /\ \A s \in Rooms : leaving'[s] = IF s = r /\ r \in convoHub /\ leaving[r] = "no"
                                       THEN "messages" ELSE leaving[s]
    BY DEF CleanRoom, saveV2OpenGroupRoom, HasRow, TypeOK, LeaveAndWait, deleteCommunity
<1>4. RoomFacts(r)'
    BY <1>1, <1>2, <1>3 DEF RoomFacts, Untouched
<1>5. ASSUME NEW s \in Rooms \ {r}
      PROVE  SameRoom(s)
    BY <1>2, <1>3 DEF SameRoom
<1>6. QED
    BY <1>2, <1>4, <1>5, MovedRoom

LEMMA handleCommunitiesUpdateRooms ==
    ASSUME TypeOK, RoomInv, handleCommunitiesUpdate
    PROVE  RoomInv'
<1>1. PICK w : wrapper' = w /\ toLeave' = convoHub \ (inactive \cup w)
    BY DEF handleCommunitiesUpdate
<1>2. toLeave = {}
      /\ UNCHANGED <<table, cachedRooms, convoTable, convoHub, inactive, roomIdsToPoll, joining,
                     leaving, isPolling, toClean, orphans, raced>>
    BY DEF handleCommunitiesUpdate
<1>3. ASSUME NEW s \in Rooms
      PROVE  RoomFacts(s)'
  <2>1. RoomFacts(s)
    BY DEF RoomInv
  <2>2. s \in convoHub => s \in wrapper' \cup toLeave' \/ s \in inactive
    BY <1>1
  <2>3. HasRow(s)' <=> HasRow(s)
    BY <1>2 DEF HasRow
  <2>4. QED
    BY <1>2, <2>1, <2>2, <2>3 DEF RoomFacts, Untouched
<1>4. QED
    BY <1>2, <1>3 DEF RoomInv

LEMMA JoinListedRooms ==
    ASSUME TypeOK, RoomInv, JoinListed
    PROVE  RoomInv'
<1>1. PICK rs : JoiningListed(rs)
    BY JoinListedIs
<1>2. attemptConnectionV2(rs) /\ \A s \in rs : MayJoin(s)
    BY <1>1 DEF JoiningListed
<1>3. toLeave = {}
      /\ UNCHANGED <<convoTable, convoHub, inactive, roomIdsToPoll, leaving, isPolling, toClean,
                     toLeave, orphans, raced>>
    BY DEF JoinListed
<1>4. ASSUME NEW s \in Rooms
      PROVE  RoomFacts(s)'
  <2>1. RoomFacts(s)
    BY DEF RoomInv
  <2>2. CASE s \in rs
    BY <1>2, <1>3, <2>1, <2>2, BegunFacts DEF MayJoin, RoomFacts, Untouched
  <2>3. CASE s \notin rs
    <3>1. (HasRow(s)' <=> HasRow(s)) /\ joining'[s] = joining[s] /\ (s \in wrapper' <=> s \in wrapper)
      BY <1>2, <2>3, BegunFacts
    <3>2. SameRoom(s)
      BY <1>3, <3>1 DEF SameRoom
    <3>3. QED
      BY <1>3, <2>1, <3>2, RoomStays
  <2>4. QED
    BY <2>2, <2>3
<1>5. QED
    BY <1>3, <1>4 DEF RoomInv

LEMMA startPollingRooms ==
    ASSUME TypeOK, RoomInv, startPolling
    PROVE  RoomInv'
<1>1. /\ isPolling = "no" /\ isPolling' = "cleaning"
      /\ \A r \in Rooms : r \in toClean' <=> HasRow(r) /\ r \notin wrapper
      /\ UNCHANGED <<rooms, roomIdsToPoll, joining, leaving, toLeave, orphans, raced>>
    BY DEF startPolling, StaleRooms
<1>2. ASSUME NEW s \in Rooms
      PROVE  RoomFacts(s)'
  <2>1. RoomFacts(s)
    BY DEF RoomInv
  <2>2. HasRow(s)' <=> HasRow(s)
    BY <1>1 DEF HasRow
  <2>3. QED
    BY <1>1, <2>1, <2>2 DEF RoomFacts, Untouched
<1>3. QED
    BY <1>1, <1>2 DEF RoomInv

LEMMA addRoomToPolledRoomsRooms ==
    ASSUME TypeOK, RoomInv, addRoomToPolledRooms
    PROVE  RoomInv'
<1>1. /\ isPolling = "cleaning" /\ isPolling' = "yes" /\ toClean = {} /\ toClean' = {}
      /\ UNCHANGED <<rooms, joining, leaving, toLeave, orphans>>
    BY DEF addRoomToPolledRooms
<1>2. ASSUME NEW s \in Rooms
      PROVE  /\ s \in roomIdsToPoll' <=> s \in roomIdsToPoll \/ HasRow(s)
             /\ s \in raced' <=> \/ s \in raced
                                 \/ HasRow(s) /\ (\/ joining[s] # "no" \/ leaving[s] # "no"
                                                  \/ s \notin convoHub)
    BY DEF addRoomToPolledRooms
<1>3. ASSUME NEW s \in Rooms
      PROVE  RoomFacts(s)'
  <2>1. RoomFacts(s)
    BY DEF RoomInv
  <2>2. HasRow(s)' <=> HasRow(s)
    BY <1>1 DEF HasRow
  <2>3. QED
    BY <1>1, <1>2, <2>1, <2>2 DEF RoomFacts, Untouched
<1>4. QED
    BY <1>1, <1>3 DEF RoomInv

LEMMA CrashRooms ==
    ASSUME TypeOK, RoomInv, Crash
    PROVE  RoomInv'
<1>1. /\ cachedRooms' = table /\ convoHub' = convoTable /\ convoTable' = convoTable
      /\ wrapper' = wrapper /\ roomIdsToPoll' = {} /\ isPolling' = "no" /\ toClean' = {}
      /\ toLeave' = {}
      /\ \A r \in Rooms : joining'[r] = "no" /\ leaving'[r] = "no"
      /\ orphans' = {r \in convoTable : table[r] = NoRow}
      /\ \A r : r \in inactive' => r \in convoTable
      /\ raced' = {r \in inactive' : table[r] # NoRow}
    BY DEF Crash
<1>2. ASSUME NEW s \in Rooms
      PROVE  RoomFacts(s)'
  <2>1. HasRow(s)' <=> table[s] # NoRow
    BY <1>1 DEF HasRow
  <2>2. s \in orphans' <=> s \in convoTable /\ table[s] = NoRow
    BY <1>1
  <2>3. s \in raced' <=> s \in inactive' /\ table[s] # NoRow
    BY <1>1
  <2>4. QED
    BY <1>1, <2>1, <2>2, <2>3 DEF RoomFacts, Untouched
<1>3. QED
    BY <1>1, <1>2 DEF RoomInv

LEMMA StepRooms ==
    ASSUME TypeOK, PollInv, RoomInv, [Next]_vars
    PROVE  RoomInv'
<1>1. ASSUME NEW r \in Rooms, Post(r)
      PROVE  RoomInv'
    BY <1>1, SteadyRooms DEF Post, SameRoom, HasRow
<1>2. ASSUME NEW m \in Messages, DeletePost(m)
      PROVE  RoomInv'
    BY <1>2, SteadyRooms DEF DeletePost, SameRoom, HasRow
<1>3. ASSUME NEW p \in Polls, Reply(p)
      PROVE  RoomInv'
    BY <1>3, SteadyRooms DEF Reply, SameRoom, HasRow
<1>4. ASSUME NEW p \in Polls, RequestFails(p)
      PROVE  RoomInv'
    BY <1>4, SteadyRooms DEF RequestFails, SameRoom, HasRow
<1>5. ASSUME NEW p \in Polls, handleSogsV3DeletedMessages(p)
      PROVE  RoomInv'
    BY <1>5, SteadyRooms DEF handleSogsV3DeletedMessages, SameRoom, HasRow
<1>6. ASSUME NEW p \in Polls, handleMessagesResponseV4(p)
      PROVE  RoomInv'
    BY <1>6, SteadyRooms DEF handleMessagesResponseV4, SameRoom, HasRow
<1>7. ASSUME NEW p \in Polls, MessagesFail(p)
      PROVE  RoomInv'
    BY <1>7, SteadyRooms DEF MessagesFail, SameRoom, HasRow
<1>8. ASSUME NEW p \in Polls, updateRoom(p)
      PROVE  RoomInv'
    BY <1>8, updateRoomRooms
<1>9. ASSUME compactPoll
      PROVE  RoomInv'
    BY <1>9, SteadyRooms DEF compactPoll, SameRoom, HasRow
<1>10. ASSUME NEW m \in Messages, handleMessageJob(m)
      PROVE  RoomInv'
    BY <1>10, SteadyRooms DEF handleMessageJob, SameRoom, HasRow
<1>11. ASSUME NEW r \in Rooms, joinOpenGroupV2(r)
      PROVE  RoomInv'
    BY <1>11, joinOpenGroupV2Rooms
<1>12. ASSUME NEW r \in Rooms, JoinFails(r)
      PROVE  RoomInv'
    BY <1>12, JoinFailsRooms
<1>13. ASSUME NEW r \in Rooms, getOrCreateAndWait(r)
      PROVE  RoomInv'
    BY <1>13, getOrCreateAndWaitRooms
<1>14. ASSUME NEW r \in Rooms, SaveJoinedRoom(r)
      PROVE  RoomInv'
    BY <1>14, SaveJoinedRoomRooms
<1>15. ASSUME NEW r \in Rooms, JoinEnds(r)
      PROVE  RoomInv'
    BY <1>15, JoinEndsRooms
<1>16. ASSUME NEW r \in Rooms, UserLeaves(r)
      PROVE  RoomInv'
    BY <1>16, UserLeavesRooms
<1>17. ASSUME NEW r \in Rooms, LeaveMessages(r)
      PROVE  RoomInv'
    BY <1>17, LeaveMessagesRooms
<1>18. ASSUME NEW r \in Rooms, removeCommunityFromWrappers(r)
      PROVE  RoomInv'
    BY <1>18, removeCommunityFromWrappersRooms
<1>19. ASSUME NEW r \in Rooms, removeConversation(r)
      PROVE  RoomInv'
    BY <1>19, removeConversationRooms
<1>20. ASSUME NEW r \in Rooms, removeV2OpenGroupRoom(r)
      PROVE  RoomInv'
    BY <1>20, removeV2OpenGroupRoomRooms
<1>21. ASSUME NEW r \in Rooms, LeaveEnds(r)
      PROVE  RoomInv'
    BY <1>21, LeaveEndsRooms
<1>22. ASSUME NEW r \in Rooms, LeaveListed(r)
      PROVE  RoomInv'
    BY <1>22, LeaveListedRooms
<1>23. ASSUME NEW r \in Rooms, CleanRoom(r)
      PROVE  RoomInv'
    BY <1>23, CleanRoomRooms
<1>24. ASSUME handleCommunitiesUpdate
      PROVE  RoomInv'
    BY <1>24, handleCommunitiesUpdateRooms
<1>25. ASSUME JoinListed
      PROVE  RoomInv'
    BY <1>25, JoinListedRooms
<1>26. ASSUME startPolling
      PROVE  RoomInv'
    BY <1>26, startPollingRooms
<1>27. ASSUME addRoomToPolledRooms
      PROVE  RoomInv'
    BY <1>27, addRoomToPolledRoomsRooms
<1>28. ASSUME Crash
      PROVE  RoomInv'
    BY <1>28, CrashRooms
<1>29. CASE UNCHANGED vars
    BY <1>29, SteadyRooms DEF SameRoom, HasRow
<1>30. QED
    BY <1>1, <1>2, <1>3, <1>4, <1>5, <1>6, <1>7, <1>8, <1>9, <1>10, <1>11, <1>12, <1>13,
       <1>14, <1>15, <1>16, <1>17, <1>18, <1>19, <1>20, <1>21, <1>22, <1>23, <1>24, <1>25,
       <1>26, <1>27, <1>28, <1>29
       DEF Next, PollStep, JoinStep, LeaveStep, StartStep, UpdateStep

LEMMA InitRooms ==
    ASSUME Init
    PROVE  RoomInv
<1>1. \A r \in Rooms : HasRow(r) <=> r \in convoTable
    BY DEF Init, HasRow, NoRow
<1>2. \A r \in Rooms : RoomFacts(r)
    BY <1>1 DEF Init, RoomFacts
<1>3. QED
    BY <1>2 DEF Init, RoomInv

\* Once every join, leave and clean-up is over, the lists of rooms agree: what is
\* polled is what has a conversation and a row, and the user's devices have it in
\* their groups, for any number of rooms, joined and left here and on other
\* devices in whatever order, at any time of the start, whatever joins failed and
\* wherever processes ended (attemptConnectionV2, deleteCommunity,
\* handleCommunitiesUpdate, getAllValidOpenGroupV2ConversationRoomInfos).
\* Nothing is said of a room whose join, leave or clean-up overlapped the end of
\* the start or of the process (raced), and a conversation that a failed join or
\* an end of the process left without a row (orphans) is not polled.
THEOREM RoomsAgreeing == Spec => []RoomsAgree
<1>1. Init => TypeOK /\ PollInv /\ RoomInv
    BY InitTyped, InitRooms
<1>2. TypeOK /\ PollInv /\ RoomInv /\ [Next]_vars => TypeOK' /\ PollInv' /\ RoomInv'
    BY StepTyped, StepRooms DEF Typed, PollsKept
<1>3. RoomInv => RoomsAgree
  <2>1. SUFFICES ASSUME RoomInv, Settled, NEW r \in Rooms \ raced
                 PROVE  /\ r \in roomIdsToPoll <=> r \in convoHub \ orphans
                        /\ r \in roomIdsToPoll <=> HasRow(r)
                        /\ r \in roomIdsToPoll => r \in wrapper
    BY DEF RoomsAgree
  <2>2. RoomFacts(r) /\ isPolling = "yes" /\ toLeave = {} /\ joining[r] = "no" /\ leaving[r] = "no"
    BY <2>1 DEF RoomInv, Settled
  <2>3. QED
    BY <2>1, <2>2 DEF RoomFacts
<1>4. QED
    BY <1>1, <1>2, <1>3, PTL DEF Spec

-----------------------------------------------------------------------------
(* No message is stored twice *)

\* m is among what poll q may still give to the conversation, or will be past
LEMMA ToTakeIs ==
    ASSUME NEW q, NEW m
    PROVE  /\ m \in ToTake(q) <=>
                /\ \E u \in q.got : ~u.deleted /\ u.msg = m
                /\ RoomOf[m] \in q.left
                /\ q.phase # "save" \/ RoomOf[m] # q.room
           /\ m \in ToPass(q) <=>
                /\ \E u \in q.got : ~u.deleted /\ u.msg = m
                /\ RoomOf[m] = q.room /\ q.phase = "save"
    BY DEF ToTake, ToPass

\* x, which was q, does no more about message m and its room than q did
Milder(x, q, m) ==
    /\ RoomOf[m] \in Asked(x) => RoomOf[m] \in Asked(q) /\ x.since = q.since
    /\ x.phase = "request" => q.phase = "request"
    /\ RoomOf[m] \in x.left => RoomOf[m] \in q.left \/ q.phase = "request"
    /\ x.stopped => q.stopped \/ RoomOf[m] \notin roomIdsToPoll'
    /\ m \in ToTake(x) => m \in ToTake(q)
    /\ x.phase = "store" /\ x.room = RoomOf[m] =>
         \/ q.phase = "store" /\ q.room = RoomOf[m]
         \/ HasRow(RoomOf[m])
    /\ m \in ToPass(q) /\ ~q.stopped /\ RoomOf[m] \in roomIdsToPoll' =>
         m \in ToPass(x) /\ ~x.stopped

LEMMA MilderItself ==
    ASSUME NEW q, NEW m
    PROVE  Milder(q, q, m)
    BY DEF Milder

\* x asks for what q asked, gives no more, and is past what q is past
LEMMA MilderOf ==
    ASSUME NEW q \in Poll, NEW x \in Poll, NEW m, PollFacts(q),
           \/ x = Idle /\ ~(m \in ToPass(q))
           \/ /\ Asked(x) = Asked(q) /\ x.since = q.since /\ x.stopped = q.stopped
              /\ x.got = q.got /\ x.left \subseteq q.left
              /\ x.phase # "request" /\ x.phase # "save"
              /\ x.phase = "store" => HasRow(x.room)
              /\ ~(m \in ToPass(q)) /\ (RoomOf[m] \in x.left => RoomOf[m] # q.room \/ q.phase # "save")
    PROVE  Milder(x, q, m)
<1>1. CASE x = Idle /\ ~(m \in ToPass(q))
  <2>1. /\ Asked(x) = {} /\ x.left = {} /\ x.phase = "idle" /\ ~x.stopped /\ x.got = {}
    BY <1>1, IdleFacts
  <2>2. m \notin ToTake(x)
    BY <2>1, ToTakeIs
  <2>3. QED
    BY <1>1, <2>1, <2>2 DEF Milder
<1>2. CASE /\ Asked(x) = Asked(q) /\ x.since = q.since /\ x.stopped = q.stopped
           /\ x.got = q.got /\ x.left \subseteq q.left
           /\ x.phase # "request" /\ x.phase # "save"
           /\ x.phase = "store" => HasRow(x.room)
           /\ ~(m \in ToPass(q)) /\ (RoomOf[m] \in x.left => RoomOf[m] # q.room \/ q.phase # "save")
  <2>1. m \in ToTake(x) => m \in ToTake(q)
    BY <1>2, ToTakeIs
  <2>2. QED
    BY <1>2, <2>1 DEF Milder
<1>3. QED
    BY <1>1, <1>2

\* The room of m, which does not get a row, and its jobs, of which there is none
\* that was not there.
Calm(m) ==
    /\ stored'[m] + pending'[m] <= 1
    /\ pending'[m] > 0 => pending[m] > 0
    /\ joining[RoomOf[m]] = "no" \/ RoomOf[m] \in roomIdsToPoll =>
         joining'[RoomOf[m]] = "no" \/ RoomOf[m] \in roomIdsToPoll'
    /\ RoomOf[m] \in roomIdsToPoll' => RoomOf[m] \in roomIdsToPoll
    /\ cachedRooms'[RoomOf[m]] \in {cachedRooms[RoomOf[m]], NoRow}

Once(m) == AskedOnce(RoomOf[m]) /\ TakenOnce(m)

LEMMA OnceStays ==
    ASSUME TypeOK, ServerStep, NEW m \in Messages, Once(m), Calm(m),
           \A p \in Polls : Milder(polls'[p], polls[p], m)
    PROVE  Once(m)'
<1>1. PICK r : r = RoomOf[m]
    OBVIOUS
<1>2. AskedOnce(r) /\ TakenOnce(m) /\ r \in Rooms
    BY <1>1, RoomFactsOf DEF Once
<1>3. ASSUME NEW p \in Polls
      PROVE  /\ r \in Asked(polls'[p]) => r \in Asked(polls[p]) /\ polls'[p].since = polls[p].since
             /\ polls'[p].phase = "request" => polls[p].phase = "request"
             /\ r \in polls'[p].left => r \in polls[p].left \/ polls[p].phase = "request"
             /\ polls'[p].stopped => polls[p].stopped \/ r \notin roomIdsToPoll'
             /\ m \in ToTake(polls'[p]) => m \in ToTake(polls[p])
             /\ polls'[p].phase = "store" /\ polls'[p].room = r =>
                  (polls[p].phase = "store" /\ polls[p].room = r) \/ HasRow(r)
             /\ m \in ToPass(polls[p]) /\ ~polls[p].stopped /\ r \in roomIdsToPoll' =>
                  m \in ToPass(polls'[p]) /\ ~polls'[p].stopped
    BY <1>1 DEF Milder
<1>4. /\ joining[r] = "no" \/ r \in roomIdsToPoll => joining'[r] = "no" \/ r \in roomIdsToPoll'
      /\ r \in roomIdsToPoll' => r \in roomIdsToPoll
      /\ cachedRooms'[r] = cachedRooms[r] \/ cachedRooms'[r] = NoRow
    BY <1>1 DEF Calm
<1>5. ASSUME NEW p \in Polls, r \in Asked(polls'[p])
      PROVE  /\ joining'[r] = "no" \/ r \in roomIdsToPoll'
             /\ polls'[p].stopped => r \notin roomIdsToPoll'
             /\ \A x \in Polls \ {p} : r \notin Asked(polls'[x])
             /\ polls'[p].phase = "request" \/ r \in polls'[p].left =>
                  cachedRooms'[r] = NoRow \/ cachedRooms'[r] = polls'[p].since[r]
  <2>1. r \in Asked(polls[p]) /\ polls'[p].since = polls[p].since
    BY <1>3, <1>5
  <2>2. /\ joining[r] = "no" \/ r \in roomIdsToPoll
        /\ polls[p].stopped => r \notin roomIdsToPoll
        /\ \A x \in Polls \ {p} : r \notin Asked(polls[x])
        /\ polls[p].phase = "request" \/ r \in polls[p].left =>
             cachedRooms[r] = NoRow \/ cachedRooms[r] = polls[p].since[r]
    BY <1>2, <2>1 DEF AskedOnce, HasRow
  <2>3. QED
    BY <1>3, <1>4, <2>1, <2>2
<1>6. AskedOnce(r)'
    BY <1>5 DEF AskedOnce, HasRow
<1>7. seqno[m] \in Nat /\ seqno'[m] \in Nat
      /\ (seqno'[m] = seqno[m] \/ m \in deleted' \/ seqno[m] = 0)
      /\ (m \in deleted => m \in deleted') /\ seqno'[m] >= seqno[m]
    BY RoomFactsOf DEF TypeOK, ServerStep
<1>8. ASSUME pending'[m] > 0
      PROVE  /\ seqno'[m] > 0
             /\ joining'[r] = "no" \/ r \in roomIdsToPoll'
             /\ \A p \in Polls : m \in ToTake(polls'[p]) =>
                  cachedRooms'[r] = NoRow /\ ~(polls'[p].phase = "store" /\ polls'[p].room = r)
             /\ \/ m \in deleted'
                \/ cachedRooms'[r] = NoRow
                \/ /\ \A p \in Polls :
                        polls'[p].phase = "request" /\ r \in Asked(polls'[p]) =>
                           seqno'[m] <= polls'[p].since[r]
                   /\ r \in roomIdsToPoll' =>
                        \/ seqno'[m] <= cachedRooms'[r]
                        \/ \E p \in Polls : ~polls'[p].stopped /\ m \in ToPass(polls'[p])
  <2>1. /\ seqno[m] > 0
        /\ joining[r] = "no" \/ r \in roomIdsToPoll
        /\ \A p \in Polls : m \in ToTake(polls[p]) =>
             cachedRooms[r] = NoRow /\ ~(polls[p].phase = "store" /\ polls[p].room = r)
        /\ \/ m \in deleted
           \/ cachedRooms[r] = NoRow
           \/ /\ \A p \in Polls :
                   polls[p].phase = "request" /\ r \in Asked(polls[p]) =>
                      seqno[m] <= polls[p].since[r]
              /\ r \in roomIdsToPoll =>
                   \/ seqno[m] <= cachedRooms[r]
                   \/ \E p \in Polls : ~polls[p].stopped /\ m \in ToPass(polls[p])
    BY <1>1, <1>2, <1>8 DEF TakenOnce, Calm, HasRow
  <2>2. seqno'[m] > 0 /\ (joining'[r] = "no" \/ r \in roomIdsToPoll')
    BY <1>4, <1>7, <2>1
  <2>a. \A p \in Polls : m \in ToTake(polls'[p]) =>
          cachedRooms'[r] = NoRow /\ ~(polls'[p].phase = "store" /\ polls'[p].room = r)
    BY <1>3, <1>4, <2>1 DEF HasRow
  <2>3. CASE m \in deleted' \/ cachedRooms'[r] = NoRow
    BY <2>2, <2>3, <2>a
  <2>4. CASE m \notin deleted' /\ cachedRooms'[r] # NoRow
    <3>1. seqno'[m] = seqno[m] /\ m \notin deleted /\ cachedRooms'[r] = cachedRooms[r]
          /\ cachedRooms[r] # NoRow
      BY <1>4, <1>7, <2>1, <2>4
    <3>2. ASSUME NEW p \in Polls, polls'[p].phase = "request", r \in Asked(polls'[p])
          PROVE  seqno'[m] <= polls'[p].since[r]
      <4>1. /\ polls[p].phase = "request" /\ r \in Asked(polls[p])
            /\ polls'[p].since = polls[p].since
        BY <1>3, <3>2
      <4>2. QED
        BY <2>1, <3>1, <4>1
    <3>3. ASSUME r \in roomIdsToPoll'
          PROVE  \/ seqno'[m] <= cachedRooms'[r]
                 \/ \E p \in Polls : ~polls'[p].stopped /\ m \in ToPass(polls'[p])
      <4>1. r \in roomIdsToPoll /\ cachedRooms'[r] = cachedRooms[r]
        BY <1>4, <3>1, <3>3
      <4>2. CASE seqno[m] <= cachedRooms[r]
        BY <3>1, <4>1, <4>2
      <4>3. CASE \E p \in Polls : ~polls[p].stopped /\ m \in ToPass(polls[p])
        BY <1>3, <3>3, <4>3
      <4>4. QED
        BY <2>1, <3>1, <4>1, <4>2, <4>3
    <3>4. QED
      BY <2>2, <2>a, <3>2, <3>3
  <2>5. QED
    BY <2>3, <2>4
<1>9. TakenOnce(m)'
    BY <1>1, <1>8 DEF TakenOnce, Calm, HasRow
<1>10. QED
    BY <1>1, <1>6, <1>9 DEF Once

\* a message without a job, of a room that no poll asks for
LEMMA OnceNothing ==
    ASSUME NEW m \in Messages, stored'[m] + pending'[m] <= 1, ~(pending'[m] > 0),
           \A p \in Polls : RoomOf[m] \notin Asked(polls'[p])
    PROVE  Once(m)'
    BY DEF Once, AskedOnce, TakenOnce

LEMMA OnceIs == OnceInv <=> \A m \in Messages \ doubled : Once(m)
    BY DEF OnceInv, Once

\* a step that does not touch the polls or the room of m
LEMMA OnceQuiet ==
    ASSUME TypeOK, ServerStep, NEW m \in Messages, Once(m), UNCHANGED <<polls, stored, pending>>,
           joining'[RoomOf[m]] = joining[RoomOf[m]],
           cachedRooms'[RoomOf[m]] = cachedRooms[RoomOf[m]],
           RoomOf[m] \in roomIdsToPoll' <=> RoomOf[m] \in roomIdsToPoll
    PROVE  Once(m)'
<1>1. Calm(m)
    BY DEF Calm, Once, TakenOnce
<1>2. \A p \in Polls : Milder(polls'[p], polls[p], m)
    BY MilderItself
<1>3. QED
    BY <1>1, <1>2, OnceStays

\* one poll moves, and neither the rooms nor the jobs of m
LEMMA OnceMoves ==
    ASSUME TypeOK, ServerStep, NEW m \in Messages, Once(m),
           UNCHANGED <<pending, joining, roomIdsToPoll, cachedRooms>>,
           stored'[m] \in Nat, stored'[m] <= stored[m],
           NEW p \in Polls, NEW x, Moves(p, x), Milder(x, polls[p], m)
    PROVE  Once(m)'
<1>1. Calm(m)
  <2>1. stored[m] \in Nat /\ pending[m] \in Nat /\ stored[m] + pending[m] <= 1
    BY DEF TypeOK, Once, TakenOnce
  <2>2. QED
    BY <2>1 DEF Calm
<1>2. \A o \in Polls : Milder(polls'[o], polls[o], m)
    BY MilderItself DEF Moves
<1>3. QED
    BY <1>1, <1>2, OnceStays

LEMMA RoomDoneOnce ==
    ASSUME TypeOK, PollInv, ServerStep, NEW m \in Messages, Once(m),
           UNCHANGED <<pending, joining, roomIdsToPoll, cachedRooms>>, UNCHANGED stored,
           NEW p \in Polls, NEW r, RoomDone(p, r), ~(m \in ToPass(polls[p])),
           RoomOf[m] # r => RoomOf[m] # polls[p].room \/ polls[p].phase # "save"
    PROVE  Once(m)'
<1>1. PICK q : q = polls[p]
    OBVIOUS
<1>2. q \in Poll /\ PollFacts(q) /\ polls \in [Polls -> Poll]
    BY <1>1 DEF TypeOK, PollInv
<1>3. stored'[m] \in Nat /\ stored'[m] <= stored[m]
    BY DEF TypeOK
<1>4. PICK x : Moves(p, x) /\ (x = Idle \/ x = DoneWith(q, r))
    BY <1>1, <1>2, RoomDoneMoves
<1>5. CASE x = Idle
  <2>1. x \in Poll
    BY <1>5, IdleFacts
  <2>2. Milder(x, q, m)
    BY <1>1, <1>2, <1>5, <2>1, MilderOf
  <2>3. QED
    BY <1>1, <1>3, <1>4, <2>2, OnceMoves
<1>6. CASE x = DoneWith(q, r)
  <2>1. /\ x \in Poll /\ x.phase = "delete" /\ x.stopped = q.stopped /\ x.since = q.since
        /\ x.got = q.got /\ x.left = q.left \ {r} /\ Asked(x) = Asked(q)
    BY <1>2, <1>6, DoneWithFacts
  <2>2. Milder(x, q, m)
    BY <1>1, <1>2, <2>1, MilderOf
  <2>3. QED
    BY <1>1, <1>3, <1>4, <2>2, OnceMoves
<1>7. QED
    BY <1>4, <1>5, <1>6

\* What is asked is what follows the row: a job is of a message before that, and
\* no other poll may still move the number.
LEMMA compactPollOnce ==
    ASSUME TypeOK, PollInv, NEW m \in Messages, Once(m), compactPoll
    PROVE  Once(m)'
<1> DEFINE free == CHOOSE p \in Polls : polls[p].phase = "idle"
           since == [r \in Rooms |->
               IF r \notin roomIdsToPoll THEN NoRow
               ELSE IF HasRow(r) THEN cachedRooms[r] ELSE 0]
<1>1. /\ ~InProgress
      /\ \E p \in Polls : polls[p].phase = "idle"
      /\ polls' = [polls EXCEPT ![free].phase = "request", ![free].since = since]
      /\ UNCHANGED <<server, table, cachedRooms, stored, pending, roomIdsToPoll, joining>>
    BY DEF compactPoll
<1>2. free \in Polls /\ polls[free].phase = "idle"
    BY <1>1
<1>3. polls[free] = Idle /\ polls \in [Polls -> Poll]
    BY <1>2, IdleIs DEF TypeOK
<1>4. PICK r : r = RoomOf[m]
    OBVIOUS
<1>5. r \in Rooms /\ AskedOnce(r) /\ TakenOnce(m)
    BY <1>4, RoomFactsOf DEF Once
<1>6. /\ since \in [Rooms -> Numbers]
      /\ since[r] # NoRow <=> r \in roomIdsToPoll
      /\ r \in roomIdsToPoll /\ HasRow(r) => since[r] = cachedRooms[r]
    BY <1>5 DEF TypeOK, Numbers, NoRow, HasRow
<1>7. PICK f : f = free
    OBVIOUS
<1> HIDE DEF free
<1>8. PICK s, x : s = since /\ x = AskingFor(s)
    OBVIOUS
<1> HIDE DEF since
<1>9. Moves(f, x) /\ f \in Polls /\ polls[f] = Idle
    BY <1>1, <1>2, <1>3, <1>6, <1>7, <1>8, AskingMoves
<1>10. /\ x \in Poll /\ x.phase = "request" /\ ~x.stopped /\ x.since = s /\ x.got = {}
       /\ x.left = {}
    BY <1>6, <1>8, AskingForFacts
<1>11. r \in Asked(x) <=> r \in roomIdsToPoll
    BY <1>5, <1>6, <1>8, <1>10, AskedFacts
<1>12. \A p \in Polls : ~Active(polls[p])
    BY <1>1 DEF InProgress
<1>13. ASSUME NEW p \in Polls, r \in Asked(polls[p])
       PROVE  p # f /\ polls[p].stopped /\ r \notin roomIdsToPoll
  <2>1. polls[p] # Idle
    BY <1>13, IdleFacts
  <2>2. polls[p].phase # "idle"
    BY <2>1, IdleIs
  <2>3. polls[p].stopped
    BY <1>12, <2>2 DEF Active
  <2>4. QED
    BY <1>5, <1>9, <1>13, <2>1, <2>3 DEF AskedOnce
<1>14. ASSUME NEW p \in Polls \ {f}
       PROVE  polls'[p] = polls[p]
    BY <1>9, <1>14 DEF Moves
<1>15. polls'[f] = x
    BY <1>9 DEF Moves
<1>16. ASSUME NEW p \in Polls, r \in Asked(polls'[p])
       PROVE  /\ joining[r] = "no" \/ r \in roomIdsToPoll
              /\ polls'[p].stopped => r \notin roomIdsToPoll
              /\ \A y \in Polls \ {p} : r \notin Asked(polls'[y])
              /\ polls'[p].phase = "request" \/ r \in polls'[p].left =>
                   ~HasRow(r) \/ cachedRooms[r] = polls'[p].since[r]
  <2>1. CASE p = f
    <3>1. r \in roomIdsToPoll
      BY <1>11, <1>15, <1>16, <2>1
    <3>3. \A y \in Polls \ {f} : r \notin Asked(polls'[y])
      BY <1>13, <1>14, <3>1
    <3>4. ~HasRow(r) \/ cachedRooms[r] = x.since[r]
      BY <1>6, <1>8, <1>10, <3>1
    <3>5. QED
      BY <1>10, <1>15, <2>1, <3>1, <3>3, <3>4
  <2>2. CASE p # f
    <3>1. polls'[p] = polls[p] /\ r \in Asked(polls[p])
      BY <1>14, <1>16, <2>2
    <3>2. r \notin roomIdsToPoll
      BY <1>13, <3>1
    <3>3. r \notin Asked(polls'[f])
      BY <1>11, <1>15, <3>2
    <3>4. /\ joining[r] = "no" \/ r \in roomIdsToPoll
          /\ \A y \in Polls \ {p} : r \notin Asked(polls[y])
          /\ polls[p].phase = "request" \/ r \in polls[p].left =>
               ~HasRow(r) \/ cachedRooms[r] = polls[p].since[r]
      BY <1>5, <3>1 DEF AskedOnce
    <3>5. \A y \in Polls \ {p} : r \notin Asked(polls'[y])
      BY <1>14, <3>3, <3>4
    <3>6. QED
      BY <3>1, <3>2, <3>4, <3>5
  <2>3. QED
    BY <2>1, <2>2
<1>17. AskedOnce(r)'
    BY <1>1, <1>16 DEF AskedOnce, HasRow
<1>18. m \notin ToTake(x)
    BY <1>10, ToTakeIs
<1>19. ASSUME pending[m] > 0
       PROVE  /\ seqno[m] > 0
              /\ joining[r] = "no" \/ r \in roomIdsToPoll
              /\ \A p \in Polls : m \in ToTake(polls'[p]) =>
                   ~HasRow(r) /\ ~(polls'[p].phase = "store" /\ polls'[p].room = r)
              /\ \/ m \in deleted
                 \/ ~HasRow(r)
                 \/ /\ \A p \in Polls :
                         polls'[p].phase = "request" /\ r \in Asked(polls'[p]) =>
                            seqno[m] <= polls'[p].since[r]
                    /\ r \in roomIdsToPoll => seqno[m] <= cachedRooms[r]
  <2>1. /\ seqno[m] > 0
        /\ joining[r] = "no" \/ r \in roomIdsToPoll
        /\ \A p \in Polls : m \in ToTake(polls[p]) =>
             cachedRooms[r] = NoRow /\ ~(polls[p].phase = "store" /\ polls[p].room = r)
        /\ \/ m \in deleted
           \/ cachedRooms[r] = NoRow
           \/ /\ \A p \in Polls :
                   polls[p].phase = "request" /\ r \in Asked(polls[p]) =>
                      seqno[m] <= polls[p].since[r]
              /\ r \in roomIdsToPoll =>
                   \/ seqno[m] <= cachedRooms[r]
                   \/ \E p \in Polls : ~polls[p].stopped /\ m \in ToPass(polls[p])
    BY <1>4, <1>5, <1>19 DEF TakenOnce, HasRow
  <2>2. \A p \in Polls : m \in ToTake(polls'[p]) =>
          ~HasRow(r) /\ ~(polls'[p].phase = "store" /\ polls'[p].room = r)
    BY <1>14, <1>15, <1>18, <2>1 DEF HasRow
  <2>3. ASSUME NEW p \in Polls, ~polls[p].stopped, m \in ToPass(polls[p])
        PROVE  FALSE
    BY <1>12, <2>3, ToTakeIs DEF Active
  <2>4. r \in roomIdsToPoll /\ m \notin deleted /\ HasRow(r) => seqno[m] <= cachedRooms[r]
    BY <2>1, <2>3 DEF HasRow
  <2>5. ASSUME NEW p \in Polls, polls'[p].phase = "request", r \in Asked(polls'[p]),
               m \notin deleted, HasRow(r)
        PROVE  seqno[m] <= polls'[p].since[r]
    <3>1. CASE p = f
      BY <1>6, <1>8, <1>10, <1>11, <1>15, <2>4, <2>5, <3>1
    <3>2. CASE p # f
      BY <1>14, <2>1, <2>5, <3>2 DEF HasRow
    <3>3. QED
      BY <3>1, <3>2
  <2>6. QED
    BY <2>1, <2>2, <2>4, <2>5
<1>20. TakenOnce(m)'
    BY <1>1, <1>4, <1>5, <1>19 DEF TakenOnce, HasRow
<1>21. QED
    BY <1>4, <1>17, <1>20 DEF Once

\* An answer does not bring a message that has a job, unless it was deleted or its
\* room has no row.
LEMMA ReplyOnce ==
    ASSUME TypeOK, PollInv, NEW m \in Messages, Once(m), NEW p \in Polls, Reply(p)
    PROVE  Once(m)'
<1>1. PICK q : q = polls[p]
    OBVIOUS
<1>2. q \in Poll /\ PollFacts(q) /\ polls \in [Polls -> Poll]
    BY <1>1 DEF TypeOK, PollInv
<1>3. PICK asked, got : asked = Asked(q) /\ got = UNION {Answer(s, q.since[s]) : s \in asked}
    OBVIOUS
<1>4. /\ polls' = [polls EXCEPT ![p].phase = "delete", ![p].left = asked, ![p].got = got]
      /\ q.phase = "request"
      /\ UNCHANGED <<server, rooms, stored, pending, roomIdsToPoll, joining>>
    BY <1>1, <1>3 DEF Reply
<1>5. asked \in SUBSET Rooms /\ q.since \in [Rooms -> Numbers]
    BY <1>2, <1>3, PollIs
<1>6. \A u \in got : \E s \in asked : u \in Answer(s, q.since[s])
    BY <1>3
<1>7. got \in SUBSET Update
    BY <1>5, <1>6, AnswersFinite
<1>8. PICK x : x = Answered(q, asked, got)
    OBVIOUS
<1>9. Moves(p, x)
    BY <1>1, <1>2, <1>4, <1>5, <1>7, <1>8, ReplyMoves
<1>10. /\ x.phase = "delete" /\ x.since = q.since /\ x.stopped = q.stopped
       /\ x.got = got /\ x.left = asked /\ Asked(x) = asked
    BY <1>2, <1>3, <1>5, <1>7, <1>8, AnsweredFacts
<1>11. ServerStep
    BY <1>4, ServerStays
<1>12. ~(m \in ToPass(q))
    BY <1>4, ToTakeIs
<1>13. PICK r : r = RoomOf[m]
    OBVIOUS
<1>14. CASE m \notin ToTake(x)
  <2>1. Milder(x, q, m)
    BY <1>3, <1>4, <1>10, <1>12, <1>14 DEF Milder
  <2>2. stored'[m] \in Nat /\ stored'[m] <= stored[m]
    BY <1>4 DEF TypeOK
  <2>3. QED
    BY <1>1, <1>4, <1>9, <1>11, <2>1, <2>2, OnceMoves
<1>15. CASE m \in ToTake(x)
  <2>1. PICK u \in got : ~u.deleted /\ u.msg = m /\ r \in asked
    BY <1>10, <1>13, <1>15, ToTakeIs
  <2>2. PICK s \in asked : u \in Answer(s, q.since[s])
    BY <1>6
  <2>3. s \in Rooms /\ q.since[s] \in Numbers
    BY <1>5
  <2>4. /\ m \in In(s) /\ u.seqno = seqno[m] /\ u.seqno > q.since[s]
        /\ m \notin deleted
    BY <2>1, <2>2, <2>3, AnswerFacts
  <2>5. s = r /\ seqno[m] \in Nat
    BY <1>13, <2>4, RoomFactsOf DEF TypeOK
  <2>6. pending[m] > 0 => ~HasRow(r)
    <3>1. SUFFICES ASSUME pending[m] > 0, HasRow(r)
                   PROVE  FALSE
      OBVIOUS
    <3>2. polls[p].phase = "request" /\ RoomOf[m] \in Asked(polls[p]) =>
            seqno[m] <= polls[p].since[RoomOf[m]]
      BY <1>13, <2>4, <3>1 DEF Once, TakenOnce
    <3>3. seqno[m] <= q.since[r]
      BY <1>1, <1>3, <1>4, <1>13, <2>1, <3>2
    <3>4. QED
      BY <2>3, <2>4, <2>5, <3>3 DEF Numbers, NoRow
  <2>a. \A o \in Polls : polls'[o].phase = "store" =>
          polls[o].phase = "store" /\ polls'[o] = polls[o]
    BY <1>9, <1>10 DEF Moves
  <2>7. AskedOnce(r)'
    <3>1. \A o \in Polls : /\ Asked(polls'[o]) = Asked(polls[o])
                           /\ polls'[o].stopped = polls[o].stopped
                           /\ polls'[o].since = polls[o].since
                           /\ polls'[o].phase = "request" => polls[o].phase = "request"
                           /\ r \in polls'[o].left => r \in polls[o].left \/ polls[o].phase = "request"
      BY <1>1, <1>3, <1>4, <1>9, <1>10 DEF Moves
    <3>2. AskedOnce(r)
      BY <1>13 DEF Once
    <3>3. QED
      BY <1>4, <3>1, <3>2 DEF AskedOnce, HasRow
  <2>8. TakenOnce(m)'
    <3>1. \A o \in Polls : m \in ToTake(polls'[o]) /\ pending[m] > 0 =>
            ~HasRow(r) /\ ~(polls'[o].phase = "store" /\ polls'[o].room = r)
      BY <1>13, <2>6, <2>a DEF Once, TakenOnce
    <3>2. /\ stored[m] + pending[m] <= 1
          /\ pending[m] > 0 => seqno[m] > 0 /\ (joining[r] = "no" \/ r \in roomIdsToPoll)
      BY <1>13 DEF Once, TakenOnce
    <3>3. HasRow(r)' <=> HasRow(r)
      BY <1>4 DEF HasRow
    <3>4. QED
      BY <1>4, <1>13, <2>6, <3>1, <3>2, <3>3 DEF TakenOnce
  <2>9. QED
    BY <1>13, <2>7, <2>8 DEF Once
<1>16. QED
    BY <1>14, <1>15

LEMMA RequestFailsOnce ==
    ASSUME TypeOK, PollInv, NEW m \in Messages, Once(m), NEW p \in Polls, RequestFails(p)
    PROVE  Once(m)'
<1>1. PICK q, x : q = polls[p] /\ x = Idle
    OBVIOUS
<1>2. q \in Poll /\ PollFacts(q) /\ x \in Poll
    BY <1>1, IdleFacts DEF TypeOK, PollInv
<1>3. /\ polls' = [polls EXCEPT ![p] = x] /\ q.phase = "request"
      /\ UNCHANGED <<server, rooms, stored, pending, roomIdsToPoll, joining>>
    BY <1>1 DEF RequestFails
<1>4. Moves(p, x)
    BY <1>2, <1>3, MovesTo DEF TypeOK
<1>5. ~(m \in ToPass(q))
    BY <1>3, ToTakeIs
<1>6. Milder(x, q, m)
    BY <1>1, <1>2, <1>5, MilderOf
<1>7. stored'[m] \in Nat /\ stored'[m] <= stored[m]
    BY <1>3 DEF TypeOK
<1>8. QED
    BY <1>1, <1>3, <1>4, <1>6, <1>7, ServerStays, OnceMoves

LEMMA DeletedOnce ==
    ASSUME TypeOK, PollInv, NEW m \in Messages, Once(m), NEW p \in Polls,
           handleSogsV3DeletedMessages(p)
    PROVE  Once(m)'
<1>1. PICK q : q = polls[p]
    OBVIOUS
<1>2. q \in Poll /\ PollFacts(q) /\ polls \in [Polls -> Poll]
    BY <1>1 DEF TypeOK, PollInv
<1>3. /\ q.phase = "delete"
      /\ UNCHANGED <<server, cachedRooms, pending, roomIdsToPoll, joining>>
    BY <1>1 DEF handleSogsV3DeletedMessages
<1>4. ServerStep
    BY <1>3, ServerStays
<1>5. PICK r \in q.left :
        \/ /\ polls' = [polls EXCEPT ![p].phase = "store", ![p].room = r]
           /\ HasRow(r)
           /\ \A k \in Messages : stored'[k] = 0 \/ stored'[k] = stored[k]
        \/ RoomDone(p, r) /\ UNCHANGED stored
    BY <1>1 DEF handleSogsV3DeletedMessages, TypeOK
<1>6. ~(m \in ToPass(q))
    BY <1>3, ToTakeIs
<1>7. CASE /\ polls' = [polls EXCEPT ![p].phase = "store", ![p].room = r]
           /\ HasRow(r)
           /\ \A k \in Messages : stored'[k] = 0 \/ stored'[k] = stored[k]
  <2>1. PICK x : x = TakenUp(q, r)
    OBVIOUS
  <2>2. r \in Rooms
    BY <1>2, <1>5, PollIs
  <2>3. Moves(p, x)
    BY <1>1, <1>2, <1>7, <2>1, <2>2, TakenUpMoves
  <2>4. /\ x \in Poll /\ x.phase = "store" /\ x.since = q.since /\ x.stopped = q.stopped
        /\ x.got = q.got /\ x.left = q.left /\ Asked(x) = Asked(q) /\ x.room = r
    BY <1>2, <2>1, <2>2, TakenUpFacts
  <2>5. Milder(x, q, m)
    BY <1>2, <1>3, <1>6, <1>7, <2>4, MilderOf
  <2>6. stored'[m] \in Nat /\ stored'[m] <= stored[m]
    BY <1>7 DEF TypeOK
  <2>7. QED
    BY <1>1, <1>3, <1>4, <2>3, <2>5, <2>6, OnceMoves
<1>8. CASE RoomDone(p, r) /\ UNCHANGED stored
    BY <1>1, <1>3, <1>4, <1>6, <1>8, RoomDoneOnce
<1>9. QED
    BY <1>5, <1>7, <1>8

\* A failure only leaves out the number; a message of that room that has a job
\* may come again.
LEMMA MessagesFailOnce ==
    ASSUME TypeOK, PollInv, NEW m \in Messages, Once(m), NEW p \in Polls, MessagesFail(p),
           m \notin doubled'
    PROVE  Once(m)'
<1>1. PICK q, r : q = polls[p] /\ r = q.room
    OBVIOUS
<1>2. q \in Poll /\ PollFacts(q) /\ polls \in [Polls -> Poll]
    BY <1>1 DEF TypeOK, PollInv
<1>3. /\ RoomDone(p, r) /\ q.phase \in {"store", "save"}
      /\ doubled' = doubled \cup {k \in In(r) : pending[k] > 0}
      /\ UNCHANGED <<server, rooms, stored, pending, roomIdsToPoll, joining>>
    BY <1>1 DEF MessagesFail
<1>4. ServerStep
    BY <1>3, ServerStays
<1>5. CASE RoomOf[m] # r
  <2>1. ~(m \in ToPass(q))
    BY <1>1, <1>5, ToTakeIs
  <2>2. QED
    BY <1>1, <1>3, <1>4, <1>5, <2>1, RoomDoneOnce
<1>6. CASE RoomOf[m] = r
  <2>1. ~(pending[m] > 0)
    BY <1>3, <1>6, RoomFactsOf
  <2>2. PICK x : Moves(p, x) /\ (x = Idle \/ x = DoneWith(q, r))
    BY <1>1, <1>2, <1>3, RoomDoneMoves
  <2>3. \/ Asked(x) = {} /\ x.left = {}
        \/ /\ Asked(x) = Asked(q) /\ x.since = q.since /\ x.stopped = q.stopped
           /\ x.left \subseteq q.left /\ x.phase # "request"
    BY <1>2, <2>2, IdleFacts, DoneWithFacts
  <2>4. \A o \in Polls : r \in Asked(polls'[o]) =>
          /\ r \in Asked(polls[o])
          /\ polls'[o].stopped = polls[o].stopped
          /\ polls'[o].since = polls[o].since
          /\ polls'[o].phase = "request" => polls[o].phase = "request"
          /\ r \in polls'[o].left => r \in polls[o].left
    BY <1>1, <2>2, <2>3 DEF Moves
  <2>5. AskedOnce(r)
    BY <1>6 DEF Once
  <2>6. AskedOnce(r)'
    BY <1>3, <2>4, <2>5 DEF AskedOnce, HasRow
  <2>7. TakenOnce(m)'
    BY <1>3, <2>1 DEF Once, TakenOnce
  <2>8. QED
    BY <1>6, <2>6, <2>7 DEF Once
<1>7. QED
    BY <1>5, <1>6

LEMMA handleMessageJobOnce ==
    ASSUME TypeOK, NEW m \in Messages, Once(m), NEW k \in Messages, handleMessageJob(k)
    PROVE  Once(m)'
<1>1. /\ pending[k] > 0 /\ pending' = [pending EXCEPT ![k] = @ - 1]
      /\ \/ stored' = [stored EXCEPT ![k] = @ + 1]
         \/ UNCHANGED stored
      /\ UNCHANGED <<server, rooms, poller, joining>>
    BY DEF handleMessageJob
<1>2. /\ stored[m] \in Nat /\ pending[m] \in Nat /\ stored[m] + pending[m] <= 1
      /\ stored \in [Messages -> Nat] /\ pending \in [Messages -> Nat]
    BY DEF TypeOK, Once, TakenOnce
<1>3. \/ pending'[m] = pending[m] /\ stored'[m] = stored[m]
      \/ pending[m] > 0 /\ pending'[m] = pending[m] - 1 /\ stored'[m] = stored[m] + 1
      \/ pending[m] > 0 /\ pending'[m] = pending[m] - 1 /\ stored'[m] = stored[m]
    BY <1>1, <1>2
<1>4. Calm(m)
    BY <1>1, <1>2, <1>3 DEF Calm
<1>5. \A p \in Polls : Milder(polls'[p], polls[p], m)
    BY <1>1, MilderItself
<1>6. QED
    BY <1>1, <1>4, <1>5, ServerStays, OnceStays

\* A message gets a job when none of its polls will bring it again: the one that
\* brought it is about to save its number.
LEMMA ResponseOnce ==
    ASSUME TypeOK, PollInv, NEW m \in Messages, Once(m), NEW p \in Polls,
           handleMessagesResponseV4(p)
    PROVE  Once(m)'
<1>1. PICK q, r, new, x : /\ q = polls[p] /\ r = q.room
                          /\ new = filterDuplicatesFromDb(GotFor(q, q.room))
                          /\ x = Saving(q)
    OBVIOUS
<1>2. /\ q.phase = "store" /\ polls' = [polls EXCEPT ![p].phase = "save"]
      /\ \/ /\ r \in convoHub
            /\ pending' = [k \in Messages |->
                 IF k \in new THEN pending[k] + 1 ELSE pending[k]]
         \/ UNCHANGED pending
      /\ UNCHANGED <<server, rooms, stored, roomIdsToPoll, joining>>
    BY <1>1 DEF handleMessagesResponseV4
<1>3. q \in Poll /\ PollFacts(q) /\ polls \in [Polls -> Poll]
    BY <1>1 DEF TypeOK, PollInv
<1>4. ServerStep
    BY <1>2, ServerStays
<1>5. \A k : k \in new <=> stored[k] = 0 /\ \E u \in GotFor(q, r) : ~u.deleted /\ k = u.msg
    BY <1>1, <1>3, NewFacts
<1>6. Moves(p, x)
    BY <1>1, <1>2, <1>3, SavingMoves
<1>7. /\ x \in Poll /\ x.phase = "save" /\ x.stopped = q.stopped /\ x.since = q.since
      /\ x.got = q.got /\ x.left = q.left /\ x.room = q.room
      /\ Asked(x) = Asked(q)
    BY <1>1, <1>3, SavingFacts
<1>8. stored[m] \in Nat /\ pending[m] \in Nat /\ stored[m] + pending[m] <= 1
    BY DEF TypeOK, Once, TakenOnce
<1>9. CASE pending'[m] = pending[m]
  <2>1. m \in ToTake(x) => m \in ToTake(q)
    BY <1>2, <1>7, ToTakeIs
  <2>2. ~(m \in ToPass(q))
    BY <1>2, ToTakeIs
  <2>3. Milder(x, q, m)
    BY <1>7, <2>1, <2>2 DEF Milder
  <2>4. \A o \in Polls : Milder(polls'[o], polls[o], m)
    BY <1>1, <1>6, <2>3, MilderItself DEF Moves
  <2>5. Calm(m)
    BY <1>2, <1>8, <1>9 DEF Calm
  <2>6. QED
    BY <1>4, <2>4, <2>5, OnceStays
<1>10. CASE pending'[m] # pending[m]
  <2>1. m \in new /\ pending'[m] = pending[m] + 1
    BY <1>2, <1>10
  <2>2. PICK u \in GotFor(q, r) : ~u.deleted /\ m = u.msg
    BY <1>5, <2>1
  <2>3. /\ u \in q.got /\ RoomOf[m] = r /\ stored[m] = 0
        /\ r \in q.left /\ r \in Asked(q)
        /\ u.seqno \in 1..seqno[m] /\ seqno[m] \in Nat
    BY <1>1, <1>2, <1>3, <1>5, <2>1, <2>2 DEF GotFor, PollFacts, TypeOK
  <2>4. m \in ToTake(q) /\ m \in ToPass(x) /\ m \notin ToTake(x)
    BY <1>1, <1>2, <1>7, <2>2, <2>3, ToTakeIs
  <2>5. pending[m] = 0
    BY <1>1, <1>2, <1>3, <1>8, <2>3, <2>4 DEF Once, TakenOnce
  <2>6. AskedOnce(r)
    BY <2>3 DEF Once
  <2>7. \A o \in Polls : /\ Asked(polls'[o]) = Asked(polls[o])
                         /\ polls'[o].stopped = polls[o].stopped
                         /\ polls'[o].since = polls[o].since
                         /\ polls'[o].phase = "request" => polls[o].phase = "request"
                         /\ polls'[o].left = polls[o].left
    BY <1>1, <1>6, <1>7 DEF Moves
  <2>8. AskedOnce(r)'
    BY <1>2, <2>6, <2>7 DEF AskedOnce, HasRow
  <2>9. /\ joining[r] = "no" \/ r \in roomIdsToPoll
        /\ q.stopped => r \notin roomIdsToPoll
        /\ \A o \in Polls \ {p} : r \notin Asked(polls[o])
    BY <1>1, <2>3, <2>6 DEF AskedOnce
  <2>10. ASSUME NEW o \in Polls
         PROVE  /\ m \notin ToTake(polls'[o])
                /\ ~(polls'[o].phase = "request" /\ r \in Asked(polls'[o]))
    <3>1. CASE o = p
      BY <1>6, <1>7, <2>4, <3>1 DEF Moves
    <3>2. CASE o # p
      <4>1. polls'[o] = polls[o] /\ r \notin Asked(polls[o])
        BY <1>6, <2>9, <3>2 DEF Moves
      <4>2. r \notin polls[o].left
        BY <4>1 DEF PollInv, PollFacts
      <4>3. QED
        BY <2>3, <4>1, <4>2, ToTakeIs
    <3>3. QED
      BY <3>1, <3>2
  <2>11. r \in roomIdsToPoll => ~polls'[p].stopped /\ m \in ToPass(polls'[p])
    BY <1>6, <1>7, <2>4, <2>9 DEF Moves
  <2>12. TakenOnce(m)'
    BY <1>2, <2>1, <2>3, <2>5, <2>9, <2>10, <2>11 DEF TakenOnce
  <2>13. QED
    BY <2>3, <2>8, <2>12 DEF Once
<1>11. QED
    BY <1>9, <1>10

\* The number that is saved passes all that the row and the answer had.
LEMMA updateRoomOnce ==
    ASSUME TypeOK, PollInv, NEW m \in Messages, Once(m), NEW p \in Polls, updateRoom(p)
    PROVE  Once(m)'
<1>1. PICK q \in Poll, n \in Nat : \E u \in GotFor(q, q.room) :
        /\ q = polls[p] /\ PollFacts(q) /\ q.phase = "save"
        /\ q.room \in Rooms /\ q.room \in q.left /\ u \in Update /\ n = u.seqno
        /\ \A v \in GotFor(q, q.room) : v.seqno <= n
        /\ IF HasRow(q.room) THEN saveV2OpenGroupRoom(q.room, n)
           ELSE UNCHANGED <<table, cachedRooms>>
        /\ RoomDone(p, q.room)
        /\ UNCHANGED <<seqno, deleted, stored, pending, roomIdsToPoll, joining>>
    BY updateRoomSaves
<1>2. PICK r : r = q.room
    OBVIOUS
<1>3. PICK u \in GotFor(q, r) : n = u.seqno
    BY <1>1, <1>2
<1>4. /\ q = polls[p] /\ PollFacts(q) /\ q.phase = "save" /\ r \in Rooms
      /\ r \in q.left /\ r \in Asked(q) /\ RoomDone(p, r)
      /\ polls \in [Polls -> Poll] /\ cachedRooms \in [Rooms -> Numbers]
    BY <1>1, <1>2 DEF PollFacts, TypeOK
<1>5. /\ stored'[m] = stored[m] /\ pending'[m] = pending[m]
      /\ stored[m] \in Nat /\ pending[m] \in Nat /\ stored[m] + pending[m] <= 1
      /\ UNCHANGED <<seqno, deleted, roomIdsToPoll, joining>> /\ seqno[m] \in Nat
    BY <1>1 DEF TypeOK, Once, TakenOnce
<1>6. ServerStep
    BY <1>1, ServerStays
<1>7. PICK x : Moves(p, x) /\ (x = Idle \/ x = DoneWith(q, r))
    BY <1>4, RoomDoneMoves
<1>8. /\ r \notin x.left /\ x.phase # "request" /\ x.phase # "save" /\ x \in Poll
      /\ x.phase # "store"
      /\ \/ x = Idle /\ Asked(x) = {}
         \/ /\ Asked(x) = Asked(q) /\ x.since = q.since /\ x.stopped = q.stopped
            /\ x.got = q.got /\ x.left \subseteq q.left
  <2>1. CASE x = Idle
    BY <2>1, IdleFacts
  <2>2. CASE x = DoneWith(q, r)
    <3>1. /\ x \in Poll /\ x.phase = "delete" /\ x.stopped = q.stopped /\ x.since = q.since
          /\ x.got = q.got /\ x.left = q.left \ {r} /\ Asked(x) = Asked(q)
      BY <2>2, DoneWithFacts
    <3>2. QED
      BY <3>1
  <2>3. QED
    BY <1>7, <2>1, <2>2
<1>9. CASE RoomOf[m] # r
  <2>1. ~(m \in ToPass(q))
    BY <1>2, <1>9, ToTakeIs
  <2>2. Milder(x, q, m)
    BY <1>2, <1>4, <1>8, <1>9, <2>1, MilderOf
  <2>3. \A o \in Polls : Milder(polls'[o], polls[o], m)
    BY <1>4, <1>7, <2>2, MilderItself DEF Moves
  <2>4. cachedRooms'[RoomOf[m]] = cachedRooms[RoomOf[m]]
    BY <1>1, <1>2, <1>4, <1>9, RoomFactsOf DEF saveV2OpenGroupRoom
  <2>5. Calm(m)
    BY <1>5, <2>4 DEF Calm
  <2>6. QED
    BY <1>6, <2>3, <2>5, OnceStays
<1>10. CASE RoomOf[m] = r
  <2>1. AskedOnce(r) /\ TakenOnce(m)
    BY <1>4, <1>10 DEF Once
  <2>2. /\ joining[r] = "no" \/ r \in roomIdsToPoll
        /\ q.stopped => r \notin roomIdsToPoll
        /\ \A o \in Polls \ {p} : r \notin Asked(polls[o])
        /\ ~HasRow(r) \/ cachedRooms[r] = q.since[r]
    BY <1>4, <2>1 DEF AskedOnce
  <2>3. \A o \in Polls \ {p} : polls'[o] = polls[o]
    BY <1>7 DEF Moves
  <2>4. polls'[p] = x
    BY <1>7 DEF Moves
  <2>5. ASSUME NEW o \in Polls, r \in Asked(polls'[o])
        PROVE  o = p /\ x.stopped = q.stopped
    BY <1>8, <2>2, <2>3, <2>4, <2>5
  <2>6. AskedOnce(r)'
    <3>1. ASSUME NEW o \in Polls, r \in Asked(polls'[o])
          PROVE  /\ joining[r] = "no" \/ r \in roomIdsToPoll
                 /\ polls'[o].stopped => r \notin roomIdsToPoll
                 /\ \A y \in Polls \ {o} : r \notin Asked(polls'[y])
                 /\ ~(polls'[o].phase = "request" \/ r \in polls'[o].left)
      BY <1>8, <2>2, <2>4, <2>5, <3>1
    <3>2. QED
      BY <1>5, <3>1 DEF AskedOnce
  <2>7. ASSUME NEW o \in Polls
        PROVE  /\ m \notin ToTake(polls'[o])
               /\ ~(polls'[o].phase = "request" /\ r \in Asked(polls'[o]))
    <3>1. CASE o = p
      BY <1>8, <1>10, <2>4, <3>1, ToTakeIs
    <3>2. CASE o # p
      <4>1. polls'[o] = polls[o] /\ r \notin Asked(polls[o])
        BY <2>2, <2>3, <3>2
      <4>2. r \notin polls[o].left
        BY <4>1 DEF PollInv, PollFacts
      <4>3. QED
        BY <1>10, <4>1, <4>2, ToTakeIs
    <3>3. QED
      BY <3>1, <3>2
  <2>8. ASSUME pending[m] > 0, m \notin deleted, r \in roomIdsToPoll, HasRow(r)
        PROVE  seqno[m] <= cachedRooms'[r]
    <3>1. cachedRooms[r] # NoRow /\ cachedRooms'[r] = n
      BY <1>1, <1>2, <1>4, <2>1, <2>8 DEF HasRow, saveV2OpenGroupRoom
    <3>2. \/ seqno[m] <= cachedRooms[r]
          \/ \E o \in Polls : ~polls[o].stopped /\ m \in ToPass(polls[o])
      BY <1>10, <2>1, <2>8 DEF TakenOnce
    <3>3. CASE seqno[m] <= cachedRooms[r]
      <4>1. cachedRooms[r] = q.since[r] /\ cachedRooms[r] \in Numbers
        BY <1>4, <2>2, <3>1 DEF HasRow
      <4>2. u \in q.got /\ RoomOf[u.msg] = r
        BY <1>3 DEF GotFor
      <4>3. u.seqno > q.since[r]
        BY <1>4, <4>2 DEF PollFacts
      <4>4. QED
        BY <1>3, <1>5, <3>1, <3>3, <4>1, <4>3 DEF Numbers, NoRow
    <3>4. CASE \E o \in Polls : ~polls[o].stopped /\ m \in ToPass(polls[o])
      <4>1. PICK o \in Polls : m \in ToPass(polls[o])
        BY <3>4
      <4>2. polls[o].phase = "save" /\ polls[o].room = r
        BY <1>10, <4>1, ToTakeIs
      <4>3. r \in Asked(polls[o])
        BY <4>2 DEF PollInv, PollFacts
      <4>4. o = p
        BY <2>2, <4>3
      <4>5. PICK v \in q.got : v.msg = m
        BY <1>4, <4>1, <4>4, ToTakeIs
      <4>6. v.seqno = seqno[m]
        BY <1>4, <2>8, <4>5 DEF PollFacts
      <4>7. v \in GotFor(q, q.room)
        BY <1>2, <1>10, <4>5 DEF GotFor
      <4>8. QED
        BY <1>1, <3>1, <4>6, <4>7
    <3>5. QED
      BY <3>2, <3>3, <3>4
  <2>9. TakenOnce(m)'
    <3>1. pending[m] > 0 => seqno[m] > 0
      BY <2>1 DEF TakenOnce
    <3>2. HasRow(r)' => HasRow(r)
      BY <1>1, <1>2 DEF HasRow
    <3>3. QED
      BY <1>5, <1>10, <2>2, <2>7, <2>8, <3>1, <3>2 DEF TakenOnce
  <2>10. QED
    BY <1>10, <2>6, <2>9 DEF Once
<1>11. QED
    BY <1>9, <1>10

\* A room that is joined again is none that polls or jobs are under way for,
\* unless its messages count as doubled from then on.
LEMMA JoinsOnce ==
    ASSUME TypeOK, NEW m \in Messages, Once(m), NEW rs, attemptConnectionV2(rs),
           UNCHANGED <<seqno, deleted, stored, pending, roomIdsToPoll>>, m \notin doubled'
    PROVE  Once(m)'
<1>1. PICK r : r = RoomOf[m]
    OBVIOUS
<1>2. r \in Rooms /\ ServerStep
    BY <1>1, RoomFactsOf, ServerStays
<1>3. /\ stored[m] \in Nat /\ pending[m] \in Nat /\ stored[m] + pending[m] <= 1
    BY DEF TypeOK, Once, TakenOnce
<1>4. ASSUME NEW o \in Polls
      PROVE  /\ polls[o] \in Poll /\ polls'[o].phase = polls[o].phase
             /\ polls'[o].stopped = polls[o].stopped /\ polls'[o].since = polls[o].since
             /\ polls'[o].got = polls[o].got /\ polls'[o].left = polls[o].left
             /\ polls'[o].room = polls[o].room /\ Asked(polls'[o]) = Asked(polls[o])
  <2>1. PICK q, x : q = polls[o] /\ x = Outdated(q, rs)
    OBVIOUS
  <2>2. q \in Poll /\ polls'[o] = x
    BY <2>1, OutdatedIs DEF TypeOK
  <2>3. /\ x.phase = q.phase /\ x.stopped = q.stopped /\ x.since = q.since
        /\ x.got = q.got /\ x.left = q.left /\ x.room = q.room /\ Asked(x) = Asked(q)
    BY <2>1, <2>2, OutdatedFacts
  <2>4. QED
    BY <2>1, <2>2, <2>3
<1>5. CASE r \in rs
  <2>1. ~(pending[m] > 0) /\ \A o \in Polls : r \notin Asked(polls[o])
    BY <1>1, <1>5 DEF attemptConnectionV2, UnderWay
  <2>2. ~(pending'[m] > 0) /\ stored'[m] + pending'[m] <= 1
    BY <1>3, <2>1
  <2>3. \A o \in Polls : RoomOf[m] \notin Asked(polls'[o])
    BY <1>1, <1>4, <2>1
  <2>4. QED
    BY <2>2, <2>3, OnceNothing
<1>6. CASE r \notin rs
  <2>1. joining'[r] = joining[r] /\ cachedRooms'[r] = cachedRooms[r]
    BY <1>2, <1>6 DEF attemptConnectionV2
  <2>2. Calm(m)
    BY <1>1, <1>3, <2>1 DEF Calm
  <2>3. \A o \in Polls : Milder(polls'[o], polls[o], m)
    BY <1>4, ToTakeIs DEF Milder
  <2>4. QED
    BY <1>2, <2>2, <2>3, OnceStays
<1>7. QED
    BY <1>5, <1>6

\* The room of m is asked for from its beginning, or from now on, and nothing is
\* under way for it.
LEMMA NewlyAskedOnce ==
    ASSUME TypeOK, NEW m \in Messages, Once(m), UNCHANGED <<stored, pending, polls>>,
           pending[m] = 0 /\ \A p \in Polls : RoomOf[m] \notin Asked(polls[p])
    PROVE  Once(m)'
<1>1. stored[m] \in Nat /\ pending[m] \in Nat /\ stored[m] + pending[m] <= 1
    BY DEF TypeOK, Once, TakenOnce
<1>2. stored'[m] + pending'[m] <= 1 /\ ~(pending'[m] > 0)
    BY <1>1
<1>3. QED
    BY <1>2, OnceNothing

\* steps after which the room of m has no other row, if it has one
LEMMA OnceCalm ==
    ASSUME TypeOK, NEW m \in Messages, Once(m),
           UNCHANGED <<seqno, deleted, polls, stored, pending, roomIdsToPoll>>,
           joining'[RoomOf[m]] \in {joining[RoomOf[m]], "no"}
             \/ (joining[RoomOf[m]] # "no"),
           cachedRooms'[RoomOf[m]] \in {cachedRooms[RoomOf[m]], NoRow}
    PROVE  Once(m)'
<1>1. Calm(m)
    BY DEF Calm, Once, TakenOnce
<1>2. \A p \in Polls : Milder(polls'[p], polls[p], m)
    BY MilderItself
<1>3. QED
    BY <1>1, <1>2, ServerStays, OnceStays

LEMMA JoinFailsOnce ==
    ASSUME TypeOK, NEW m \in Messages, Once(m), NEW r \in Rooms, JoinFails(r)
    PROVE  Once(m)'
<1>1. RoomOf[m] \in Rooms
    BY RoomFactsOf
<1>2. /\ joining'[RoomOf[m]] \in {joining[RoomOf[m]], "no"}
      /\ cachedRooms'[RoomOf[m]] \in {cachedRooms[RoomOf[m]], NoRow}
      /\ UNCHANGED <<seqno, deleted, polls, stored, pending, roomIdsToPoll>>
    BY <1>1, JoinFailsIs DEF saveV2OpenGroupRoom, TypeOK
<1>3. QED
    BY <1>2, OnceCalm

\* The row that is saved has no number, and a message under way is doubled.
LEMMA SaveJoinedRoomOnce ==
    ASSUME TypeOK, NEW m \in Messages, Once(m), NEW r \in Rooms, SaveJoinedRoom(r),
           m \notin doubled'
    PROVE  Once(m)'
<1>1. RoomOf[m] \in Rooms /\ pending[m] \in Nat
    BY RoomFactsOf DEF TypeOK
<1>2. CASE RoomOf[m] = r
  <2>1. pending[m] = 0 /\ \A p \in Polls : RoomOf[m] \notin Asked(polls[p])
    BY <1>1, <1>2 DEF SaveJoinedRoom, UnderWay
  <2>2. QED
    BY <2>1, NewlyAskedOnce DEF SaveJoinedRoom
<1>3. CASE RoomOf[m] # r
    BY <1>1, <1>3, OnceCalm DEF SaveJoinedRoom, saveV2OpenGroupRoom, TypeOK
<1>4. QED
    BY <1>2, <1>3

\* A room that is polled from now on has nothing under way.
LEMMA JoinEndsOnce ==
    ASSUME TypeOK, NEW m \in Messages, Once(m), NEW r \in Rooms, JoinEnds(r)
    PROVE  Once(m)'
<1>1. RoomOf[m] \in Rooms /\ pending[m] \in Nat
    BY RoomFactsOf DEF TypeOK
<1>2. /\ UNCHANGED <<seqno, deleted, cachedRooms, polls, stored, pending>>
      /\ joining[r] = "commit" /\ joining' = [joining EXCEPT ![r] = "no"]
      /\ roomIdsToPoll' = roomIdsToPoll \cup {r}
    BY DEF JoinEnds
<1>3. CASE RoomOf[m] = r /\ r \notin roomIdsToPoll
  <2>1. pending[m] = 0 /\ \A p \in Polls : RoomOf[m] \notin Asked(polls[p])
    BY <1>1, <1>2, <1>3 DEF Once, AskedOnce, TakenOnce
  <2>2. QED
    BY <1>2, <2>1, NewlyAskedOnce
<1>4. CASE RoomOf[m] = r => r \in roomIdsToPoll
  <2>1. RoomOf[m] \in roomIdsToPoll' <=> RoomOf[m] \in roomIdsToPoll
    BY <1>2, <1>4
  <2>2. joining'[RoomOf[m]] \in {joining[RoomOf[m]], "no"}
    BY <1>1, <1>2 DEF TypeOK
  <2>3. Calm(m)
    BY <1>2, <2>1, <2>2 DEF Calm, Once, TakenOnce
  <2>4. \A p \in Polls : Milder(polls'[p], polls[p], m)
    BY <1>2, MilderItself
  <2>5. QED
    BY <1>2, <2>3, <2>4, ServerStays, OnceStays
<1>5. QED
    BY <1>3, <1>4

LEMMA addRoomToPolledRoomsOnce ==
    ASSUME TypeOK, NEW m \in Messages, Once(m), addRoomToPolledRooms, m \notin doubled'
    PROVE  Once(m)'
<1>1. RoomOf[m] \in Rooms /\ pending[m] \in Nat
    BY RoomFactsOf DEF TypeOK
<1>2. PICK found : /\ roomIdsToPoll' = roomIdsToPoll \cup found
                   /\ doubled' = doubled \cup UnderWay(found \ roomIdsToPoll)
    BY DEF addRoomToPolledRooms
<1>3. UNCHANGED <<seqno, deleted, cachedRooms, polls, stored, pending, joining>>
    BY DEF addRoomToPolledRooms
<1>4. CASE RoomOf[m] \in found \ roomIdsToPoll
  <2>1. pending[m] = 0 /\ \A p \in Polls : RoomOf[m] \notin Asked(polls[p])
    BY <1>1, <1>2, <1>4 DEF UnderWay
  <2>2. QED
    BY <1>3, <2>1, NewlyAskedOnce
<1>5. CASE RoomOf[m] \notin found \ roomIdsToPoll
  <2>1. RoomOf[m] \in roomIdsToPoll' <=> RoomOf[m] \in roomIdsToPoll
    BY <1>2, <1>5
  <2>2. QED
    BY <1>3, <2>1, ServerStays, OnceQuiet
<1>6. QED
    BY <1>4, <1>5

\* A poll of a poller that is stopped brings what it brought, and its rooms are
\* not polled any more.
LEMMA RemovalOnce ==
    ASSUME TypeOK, PollInv, NEW m \in Messages, Once(m), Calm(m), NEW r,
           UNCHANGED <<seqno, deleted>>,
           UNCHANGED <<roomIdsToPoll, polls>> \/ removeRoomFromPolledRooms(r)
    PROVE  Once(m)'
<1>1. \/ UNCHANGED polls
      \/ roomIdsToPoll' = {} /\ polls' = StopPolls
    BY DEF removeRoomFromPolledRooms
<1>2. ServerStep
    BY ServerStays
<1>5. CASE UNCHANGED polls
  <2>1. \A o \in Polls : Milder(polls'[o], polls[o], m)
    BY <1>5, MilderItself
  <2>2. QED
    BY <1>2, <2>1, OnceStays
<1>6. CASE roomIdsToPoll' = {} /\ polls' = StopPolls
  <2>1. ASSUME NEW o \in Polls
        PROVE  Milder(polls'[o], polls[o], m)
    <3>1. PICK q, x : q = polls[o] /\ x = polls'[o]
      OBVIOUS
    <3>2. q \in Poll
      BY <3>1 DEF TypeOK
    <3>3. x = Idle \/ x = Stopped(q)
      BY <1>6, <3>1, StopPollsIs
    <3>4. CASE x = Idle
      <4>1. Asked(x) = {} /\ x.left = {} /\ x.phase = "idle" /\ x.got = {} /\ ~x.stopped
        BY <3>4, IdleFacts
      <4>2. m \notin ToTake(x)
        BY <4>1, ToTakeIs
      <4>3. QED
        BY <1>6, <3>1, <4>1, <4>2 DEF Milder
    <3>5. CASE x = Stopped(q)
      <4>1. /\ x.phase = q.phase /\ x.since = q.since /\ x.got = q.got
            /\ x.left = q.left /\ x.room = q.room /\ Asked(x) = Asked(q)
        BY <3>2, <3>5, StoppedFacts
      <4>2. m \in ToTake(x) => m \in ToTake(q)
        BY <4>1, ToTakeIs
      <4>3. QED
        BY <1>6, <3>1, <4>1, <4>2 DEF Milder
    <3>6. QED
      BY <3>3, <3>4, <3>5
  <2>2. QED
    BY <1>2, <2>1, OnceStays
<1>7. QED
    BY <1>1, <1>5, <1>6

LEMMA LeaveMessagesOnce ==
    ASSUME TypeOK, PollInv, NEW m \in Messages, Once(m), NEW r \in Rooms, LeaveMessages(r)
    PROVE  Once(m)'
<1>1. /\ UNCHANGED <<seqno, deleted, cachedRooms, pending, joining>> /\ joining[r] = "no"
      /\ stored'[m] = stored[m] \/ stored'[m] = 0
      /\ UNCHANGED <<roomIdsToPoll, polls>> \/ removeRoomFromPolledRooms(r)
    BY DEF LeaveMessages
<1>2. stored[m] \in Nat /\ pending[m] \in Nat /\ stored[m] + pending[m] <= 1
    BY DEF TypeOK, Once, TakenOnce
<1>3. /\ RoomOf[m] \in roomIdsToPoll' => RoomOf[m] \in roomIdsToPoll
      /\ RoomOf[m] \in roomIdsToPoll => RoomOf[m] \in roomIdsToPoll' \/ RoomOf[m] = r
    BY <1>1 DEF removeRoomFromPolledRooms
<1>4. Calm(m)
    BY <1>1, <1>2, <1>3 DEF Calm
<1>5. QED
    BY <1>1, <1>4, RemovalOnce

\* A room that the clean-up has not looked at is not polled while it is joined.
LEMMA CleanRoomOnce ==
    ASSUME TypeOK, PollInv, RoomInv, NEW m \in Messages, Once(m), NEW r \in Rooms, CleanRoom(r)
    PROVE  Once(m)'
<1>1. /\ UNCHANGED <<seqno, deleted, stored, pending, joining>>
      /\ saveV2OpenGroupRoom(r, NoRow) /\ removeRoomFromPolledRooms(r)
    BY DEF CleanRoom
<1>2. r \in roomIdsToPoll => joining[r] = "no"
    BY DEF CleanRoom, RoomInv, RoomFacts, Untouched
<1>3. RoomOf[m] \in Rooms
      /\ cachedRooms'[RoomOf[m]] \in {cachedRooms[RoomOf[m]], NoRow}
    BY <1>1, RoomFactsOf DEF saveV2OpenGroupRoom, TypeOK
<1>4. /\ RoomOf[m] \in roomIdsToPoll' => RoomOf[m] \in roomIdsToPoll
      /\ RoomOf[m] \in roomIdsToPoll => RoomOf[m] \in roomIdsToPoll' \/ RoomOf[m] = r
    BY <1>1 DEF removeRoomFromPolledRooms
<1>5. Calm(m)
    BY <1>1, <1>2, <1>3, <1>4 DEF Calm, Once, TakenOnce
<1>6. QED
    BY <1>1, <1>5, RemovalOnce

LEMMA LeaveEndsOnce ==
    ASSUME TypeOK, NEW m \in Messages, Once(m), NEW r \in Rooms, LeaveEnds(r)
    PROVE  Once(m)'
<1>1. cachedRooms'[RoomOf[m]] \in {cachedRooms[RoomOf[m]], NoRow}
    BY RoomFactsOf DEF LeaveEnds, TypeOK
<1>2. QED
    BY <1>1, OnceCalm DEF LeaveEnds

\* A new process has no jobs and no polls.
LEMMA CrashOnce ==
    ASSUME TypeOK, NEW m \in Messages, Once(m), Crash
    PROVE  Once(m)'
<1>1. pending'[m] = 0 /\ stored'[m] = stored[m] /\ \A o \in Polls : polls'[o] = Idle
    BY DEF Crash
<1>2. stored[m] \in Nat /\ pending[m] \in Nat /\ stored[m] + pending[m] <= 1
    BY DEF TypeOK, Once, TakenOnce
<1>3. \A o \in Polls : RoomOf[m] \notin Asked(polls'[o])
    BY <1>1, IdleFacts
<1>4. stored'[m] + pending'[m] <= 1 /\ ~(pending'[m] > 0)
    BY <1>1, <1>2
<1>5. QED
    BY <1>3, <1>4, OnceNothing

LEMMA StepOnceOf ==
    ASSUME TypeOK, PollInv, RoomInv, [Next]_vars, NEW m \in Messages, Once(m), m \notin doubled'
    PROVE  Once(m)'
<1>1. ASSUME NEW r \in Rooms, Post(r)
      PROVE  Once(m)'
    BY <1>1, PostServer, OnceQuiet DEF Post
<1>2. ASSUME NEW n \in Messages, DeletePost(n)
      PROVE  Once(m)'
    BY <1>2, DeletePostServer, OnceQuiet DEF DeletePost
<1>3. ASSUME compactPoll
      PROVE  Once(m)'
    BY <1>3, compactPollOnce
<1>4. ASSUME NEW p \in Polls, Reply(p)
      PROVE  Once(m)'
    BY <1>4, ReplyOnce
<1>5. ASSUME NEW p \in Polls, RequestFails(p)
      PROVE  Once(m)'
    BY <1>5, RequestFailsOnce
<1>6. ASSUME NEW p \in Polls, handleSogsV3DeletedMessages(p)
      PROVE  Once(m)'
    BY <1>6, DeletedOnce
<1>7. ASSUME NEW p \in Polls, handleMessagesResponseV4(p)
      PROVE  Once(m)'
    BY <1>7, ResponseOnce
<1>8. ASSUME NEW p \in Polls, MessagesFail(p)
      PROVE  Once(m)'
    BY <1>8, MessagesFailOnce
<1>9. ASSUME NEW p \in Polls, updateRoom(p)
      PROVE  Once(m)'
    BY <1>9, updateRoomOnce
<1>10. ASSUME NEW n \in Messages, handleMessageJob(n)
      PROVE  Once(m)'
    BY <1>10, handleMessageJobOnce
<1>11. ASSUME NEW r \in Rooms, joinOpenGroupV2(r)
      PROVE  Once(m)'
    BY <1>11, JoinsOnce DEF joinOpenGroupV2
<1>12. ASSUME NEW r \in Rooms, JoinFails(r)
      PROVE  Once(m)'
    BY <1>12, JoinFailsOnce
<1>13. ASSUME NEW r \in Rooms, getOrCreateAndWait(r)
      PROVE  Once(m)'
    BY <1>13, RoomFactsOf, OnceCalm DEF getOrCreateAndWait, TypeOK
<1>14. ASSUME NEW r \in Rooms, SaveJoinedRoom(r)
      PROVE  Once(m)'
    BY <1>14, SaveJoinedRoomOnce
<1>15. ASSUME NEW r \in Rooms, JoinEnds(r)
      PROVE  Once(m)'
    BY <1>15, JoinEndsOnce
<1>16. ASSUME NEW r \in Rooms, UserLeaves(r)
      PROVE  Once(m)'
    BY <1>16, ServerStays, OnceQuiet DEF UserLeaves
<1>17. ASSUME NEW r \in Rooms, LeaveMessages(r)
      PROVE  Once(m)'
    BY <1>17, LeaveMessagesOnce
<1>18. ASSUME NEW r \in Rooms, removeCommunityFromWrappers(r)
      PROVE  Once(m)'
    BY <1>18, ServerStays, OnceQuiet DEF removeCommunityFromWrappers
<1>19. ASSUME NEW r \in Rooms, removeConversation(r)
      PROVE  Once(m)'
    BY <1>19, ServerStays, OnceQuiet DEF removeConversation
<1>20. ASSUME NEW r \in Rooms, removeV2OpenGroupRoom(r)
      PROVE  Once(m)'
    BY <1>20, ServerStays, OnceQuiet DEF removeV2OpenGroupRoom
<1>21. ASSUME NEW r \in Rooms, LeaveEnds(r)
      PROVE  Once(m)'
    BY <1>21, LeaveEndsOnce
<1>22. ASSUME NEW r \in Rooms, CleanRoom(r)
      PROVE  Once(m)'
    BY <1>22, CleanRoomOnce
<1>23. ASSUME handleCommunitiesUpdate
      PROVE  Once(m)'
    BY <1>23, ServerStays, OnceQuiet DEF handleCommunitiesUpdate
<1>24. ASSUME startPolling
      PROVE  Once(m)'
    BY <1>24, ServerStays, OnceQuiet DEF startPolling
<1>25. ASSUME addRoomToPolledRooms
      PROVE  Once(m)'
    BY <1>25, addRoomToPolledRoomsOnce
<1>26. ASSUME Crash
      PROVE  Once(m)'
    BY <1>26, CrashOnce
<1>27. ASSUME NEW r \in Rooms, LeaveListed(r)
      PROVE  Once(m)'
    BY <1>27, ServerStays, OnceQuiet DEF LeaveListed
<1>28. ASSUME JoinListed
      PROVE  Once(m)'
    BY <1>28, JoinListedIs, JoinsOnce DEF JoinListed, JoiningListed
<1>29. CASE UNCHANGED vars
    BY <1>29, ServerStays, OnceQuiet
<1>30. CASE Next
  <2>1. ASSUME NEW p \in Polls, PollStep(p)
        PROVE  Once(m)'
    BY <2>1, <1>4, <1>6, <1>7, <1>9 DEF PollStep
  <2>2. ASSUME NEW r \in Rooms, JoinStep(r)
        PROVE  Once(m)'
    BY <2>2, <1>13, <1>14, <1>15 DEF JoinStep
  <2>3. ASSUME NEW r \in Rooms, LeaveStep(r)
        PROVE  Once(m)'
    BY <2>3, <1>17, <1>18, <1>19, <1>20, <1>21 DEF LeaveStep
  <2>4. ASSUME StartStep
        PROVE  Once(m)'
    BY <2>4, <1>22, <1>24, <1>25 DEF StartStep
  <2>5. ASSUME UpdateStep
        PROVE  Once(m)'
    BY <2>5, <1>27, <1>28 DEF UpdateStep
  <2>6. QED
    BY <1>30, <2>1, <2>2, <2>3, <2>4, <2>5, <1>1, <1>2, <1>3, <1>5, <1>8, <1>10, <1>11,
       <1>12, <1>16, <1>23, <1>26 DEF Next
<1>31. QED
    BY <1>29, <1>30

LEMMA DoubledGrows == [Next]_vars => doubled \subseteq doubled'
    BY DEF Next, PollStep, JoinStep, LeaveStep, StartStep, UpdateStep, Post, DeletePost,
           compactPoll, Reply, RequestFails, handleSogsV3DeletedMessages,
           handleMessagesResponseV4, MessagesFail, updateRoom, handleMessageJob,
           joinOpenGroupV2, attemptConnectionV2, JoinFails, getOrCreateAndWait, SaveJoinedRoom,
           JoinEnds, UserLeaves, LeaveMessages, removeCommunityFromWrappers, removeConversation,
           removeV2OpenGroupRoom, LeaveEnds, handleCommunitiesUpdate, LeaveListed, JoinListed,
           startPolling, CleanRoom, addRoomToPolledRooms, Crash

LEMMA StepOnce ==
    ASSUME TypeOK, PollInv, RoomInv, OnceInv, [Next]_vars
    PROVE  OnceInv'
<1>1. ASSUME NEW m \in Messages, m \notin doubled'
      PROVE  Once(m)'
  <2>1. m \in Messages \ doubled
    BY <1>1, DoubledGrows
  <2>2. Once(m)
    BY <2>1, OnceIs
  <2>3. QED
    BY <1>1, <2>2, StepOnceOf
<1>2. QED
    BY <1>1 DEF OnceInv, Once

LEMMA InitOnce ==
    ASSUME Init
    PROVE  OnceInv
<1>1. \A p \in Polls : Asked(polls[p]) = {}
    BY IdleFacts DEF Init
<1>2. \A m \in Messages : stored[m] = 0 /\ pending[m] = 0
    BY DEF Init
<1>3. QED
    BY <1>1, <1>2 DEF OnceInv, AskedOnce, TakenOnce

\* No message has two rows or jobs at a time, for any number of rooms, messages,
\* polls, failures and ends of the process, whatever rooms are joined, left and
\* cleaned up at any time of the start: what a poll may still bring has no job,
\* since the number its request named is past every message with one.  Nothing is
\* said of a message that had a job or a poll under way when its room was asked
\* for from an old number again, by a join or the start, or when a failure kept
\* the number from being saved (filterDuplicatesFromDbAndIncomingV4,
\* handleMessagesResponseV4, attemptConnectionV2, startPolling).
THEOREM StoredOnceOnly == Spec => []StoredOnce
<1>1. Init => TypeOK /\ PollInv /\ RoomInv /\ OnceInv
    BY InitTyped, InitRooms, InitOnce
<1>2. TypeOK /\ PollInv /\ RoomInv /\ OnceInv /\ [Next]_vars
        => TypeOK' /\ PollInv' /\ RoomInv' /\ OnceInv'
    BY StepTyped, StepRooms, StepOnce DEF Typed, PollsKept
<1>3. OnceInv => StoredOnce
    BY DEF OnceInv, TakenOnce, StoredOnce
<1>4. QED
    BY <1>1, <1>2, <1>3, PTL DEF Spec
=============================================================================
