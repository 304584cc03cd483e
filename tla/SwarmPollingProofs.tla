------------------------- MODULE SwarmPollingProofs -------------------------
(***************************************************************************)
(* What holds of the polls of a key and the receiver behind them for any   *)
(* swarm, messages, overlapping polls, failures and ends of the process:   *)
(* what is not fetched or taken again is accounted for, a message is       *)
(* stored once, and a row of the cache is waiting for something.           *)
(***************************************************************************)
EXTENDS SwarmPolling, ReceiverProofs

-----------------------------------------------------------------------------
(* Polls *)

Asked == UNION {polls[p].asked : p \in Polls}

Proceeding(phase, msgs) ==
    IF msgs = <<>> THEN Idle ELSE [phase |-> phase, asked |-> {}, msgs |-> msgs]

Phases == {"idle", "fetch", "check", "filter", "mark", "hand", "handle", "save"}

\* Poll p becomes r, and no other poll changes.
LEMMA PollMoves ==
    ASSUME polls \in [Polls -> Poll], NEW p \in Polls, NEW r \in Poll,
           polls' = [polls EXCEPT ![p] = r]
    PROVE  /\ polls' \in [Polls -> Poll]
           /\ polls'[p] = r
           /\ \A q \in Polls : q # p => polls'[q] = polls[q]
           /\ Carried \subseteq Carried' \cup ToSet(polls[p].msgs)
           /\ ToSet(r.msgs) \subseteq Carried'
           /\ InHand \subseteq InHand' \cup ToSet(polls[p].msgs)
           /\ polls[p].phase # "hand" => InHand \subseteq InHand'
           /\ r.phase = "hand" => ToSet(r.msgs) \subseteq InHand'
           /\ Asked' \subseteq Asked \cup r.asked
<1>1. /\ polls' \in [Polls -> Poll] /\ polls'[p] = r
      /\ \A q \in Polls : q # p => polls'[q] = polls[q]
    OBVIOUS
<1>2. Carried \subseteq Carried' \cup ToSet(polls[p].msgs)
    BY <1>1 DEF Carried
<1>3. ToSet(r.msgs) \subseteq Carried'
    BY <1>1 DEF Carried
<1>4. InHand \subseteq InHand' \cup ToSet(polls[p].msgs)
    BY <1>1 DEF InHand, In
<1>5. polls[p].phase # "hand" => InHand \subseteq InHand'
    BY <1>1 DEF InHand, In
<1>6. r.phase = "hand" => ToSet(r.msgs) \subseteq InHand'
    BY <1>1 DEF InHand, In
<1>7. Asked' \subseteq Asked \cup r.asked
    BY <1>1 DEF Asked
<1>8. QED
    BY <1>1, <1>2, <1>3, <1>4, <1>5, <1>6, <1>7

LEMMA ProceedingFacts ==
    ASSUME NEW phase \in Phases \ {"idle", "fetch"}, NEW msgs \in Seq(Messages)
    PROVE  /\ Proceeding(phase, msgs) \in Poll
           /\ Proceeding(phase, msgs).asked = {}
           /\ Proceeding(phase, msgs).msgs = msgs
           /\ Proceeding(phase, msgs).phase =
                IF msgs = <<>> THEN "idle" ELSE phase
<1>1. Proceeding(phase, msgs) = IF msgs = <<>> THEN [phase |-> "idle", asked |-> {}, msgs |-> <<>>]
                                ELSE [phase |-> phase, asked |-> {}, msgs |-> msgs]
    BY DEF Proceeding, Idle
<1>2. {} \in SUBSET [snode : Snodes, since : Nat]
    OBVIOUS
<1>3. CASE msgs = <<>>
    BY <1>1, <1>2, <1>3 DEF Poll
<1>4. CASE msgs # <<>>
    BY <1>1, <1>2, <1>4 DEF Poll, Phases
<1>5. QED
    BY <1>3, <1>4

LEMMA IdleFacts == Idle \in Poll /\ Idle.msgs = <<>> /\ Idle.asked = {} /\ Idle.phase = "idle"
<1>1. <<>> \in Seq(Messages) /\ {} \in SUBSET [snode : Snodes, since : Nat]
    OBVIOUS
<1>2. QED
    BY <1>1 DEF Idle, Poll

\* The polls stay as they have to be when one of them becomes r.
LEMMA PollInvMoves ==
    ASSUME polls \in [Polls -> Poll], PollInv, NEW p \in Polls, NEW r \in Poll,
           polls' = [polls EXCEPT ![p] = r], UNCHANGED swarm,
           r.phase = "idle" => r.msgs = <<>>,
           r.msgs = <<>> => r.phase \in {"idle", "fetch"},
           \A a \in r.asked : a.since <= Len(swarm[a.snode])
    PROVE  PollInv'
BY DEF PollInv, In

-----------------------------------------------------------------------------
(* What is accounted for *)

LEMMA KeptGrows ==
    ASSUME Accounts, missed \subseteq missed'
    PROVE  Kept \subseteq Kept'
<1>1. Concluded \subseteq Concluded'
    BY DEF Accounts
<1>2. \A env \in Entrusted : env \in Entrusted' \/ Message(env) \in Concluded'
    BY DEF Entrusted, Accounts
<1>3. QED
    BY <1>1, <1>2 DEF Kept, MessagesOf

\* What a step has to keep for HoldInv, when no reset is under way.
LEMMA HoldStep ==
    ASSUME reset = "no", HoldInv, Kept \subseteq Kept', seen \subseteq seen',
           seen' \subseteq seen \cup Kept' \cup InHand',
           InHand \subseteq Kept' \cup InHand',
           \A p \in Polls : polls'[p].phase = "save" => Head(polls'[p].msgs) \in Kept',
           Passed' \subseteq Passed \cup seen' \cup Kept' \cup Carried',
           Carried \subseteq seen' \cup Kept' \cup Carried'
    PROVE  HoldInv'
<1>1. /\ seen \subseteq Kept \cup InHand
      /\ Passed \subseteq seen \cup Kept \cup Carried
    BY DEF HoldInv
<1>2. seen' \subseteq Kept' \cup InHand'
    BY <1>1
<1>3. Passed' \subseteq seen' \cup Kept' \cup Carried'
    BY <1>1
<1>4. QED
    BY <1>2, <1>3 DEF HoldInv, In

LEMMA PassedFacts ==
    ASSUME NEW m
    PROVE  /\ m \in Passed <=> \/ \E s \in Snodes : m \in Before(s, lastHashes[s])
                             \/ \E r \in Asked : m \in Before(r.snode, r.since)
           /\ m \in Passed' <=> \/ \E s \in Snodes : m \in Before(s, lastHashes[s])'
                              \/ \E r \in Asked' : m \in Before(r.snode, r.since)'
<1>1. m \in Passed <=> \/ \E s \in Snodes : m \in Before(s, lastHashes[s])
                      \/ \E r \in Asked : m \in Before(r.snode, r.since)
  <2>1. m \in UNION {Before(s, lastHashes[s]) : s \in Snodes}
          <=> \E s \in Snodes : m \in Before(s, lastHashes[s])
    OBVIOUS
  <2>2. m \in UNION {Before(r.snode, r.since) : r \in Asked}
          <=> \E r \in Asked : m \in Before(r.snode, r.since)
    OBVIOUS
  <2>3. QED
    BY <2>1, <2>2 DEF Passed, Asked
<1>2. m \in Passed' <=> \/ \E s \in Snodes : m \in Before(s, lastHashes[s])'
                       \/ \E r \in Asked' : m \in Before(r.snode, r.since)'
  <2>1. m \in UNION {Before(s, lastHashes[s])' : s \in Snodes}
          <=> \E s \in Snodes : m \in Before(s, lastHashes[s])'
    OBVIOUS
  <2>2. m \in UNION {Before(r.snode, r.since)' : r \in Asked'}
          <=> \E r \in Asked' : m \in Before(r.snode, r.since)'
    OBVIOUS
  <2>3. QED
    BY <2>1, <2>2 DEF Passed, Asked
<1>3. QED
    BY <1>1, <1>2

\* No last hash moves, and no poll is asked with a new one.
LEMMA PassedStays ==
    ASSUME UNCHANGED <<swarm, lastHashes>>, Asked' \subseteq Asked
    PROVE  Passed' \subseteq Passed
<1>1. ASSUME NEW m, m \in Passed'
      PROVE  m \in Passed
  <2>1. CASE \E s \in Snodes : m \in Before(s, lastHashes[s])'
    <3>1. \E s \in Snodes : m \in Before(s, lastHashes[s])
      BY <2>1 DEF Before
    <3>2. QED
      BY <3>1, PassedFacts
  <2>2. CASE \E r \in Asked' : m \in Before(r.snode, r.since)'
    <3>1. \E r \in Asked : m \in Before(r.snode, r.since)
      BY <2>2 DEF Before
    <3>2. QED
      BY <3>1, PassedFacts
  <2>3. QED
    BY <1>1, <2>1, <2>2, PassedFacts
<1>2. QED
    BY <1>1

-----------------------------------------------------------------------------
(* Steps that leave the receiver alone *)

\* all of the receiver but the bound on faults
Still == UNCHANGED <<unprocessed, queues, conversation, replayed, outcomes>>

LEMMA ReceiverStill ==
    ASSUME ReceiverTypeOK, CommitInv, AwaitInv, Still, faults' \in 0..MaxFaults
    PROVE  /\ ReceiverTypeOK' /\ CommitInv' /\ AwaitInv'
           /\ Concluded' = Concluded /\ Entrusted' = Entrusted
           /\ Waiting' = Waiting /\ Rows' = Rows /\ Running' = Running
           /\ missed \subseteq missed' => Kept \subseteq Kept'
<1>1. UNCHANGED <<unprocessed, queues, conversation, replayed, outcomes>>
    BY DEF Still
<1>2. ReceiverTypeOK'
    BY <1>1 DEF ReceiverTypeOK, queues, conversation, outcomes
<1>3. CommitInv'
    BY <1>1, CommitStays DEF conversation, outcomes
<1>4. Concluded' = Concluded
    BY <1>1 DEF Concluded, outcomes
<1>5. Rows' = Rows /\ Running' = Running
    BY <1>1 DEF Rows, Running, conversation
<1>6. Waiting' = Waiting
    BY <1>1, <1>5 DEF Waiting, queues, conversation
<1>7. Entrusted' = Entrusted
    BY <1>1, <1>5, <1>6 DEF Entrusted, queues
<1>8. AwaitInv'
    BY <1>1, <1>5 DEF AwaitInv, Handed, queues, conversation, outcomes
<1>9. missed \subseteq missed' => Kept \subseteq Kept'
    BY <1>4, <1>7 DEF Kept, MessagesOf
<1>10. QED
    BY <1>2, <1>3, <1>4, <1>5, <1>6, <1>7, <1>8, <1>9

\* the phases a poll of this kind of key goes through
PhaseOK(r) ==
    IF kind = "PRIVATE" THEN r.phase \notin {"handle", "save"} ELSE r.phase \notin {"mark", "hand"}

LEMMA KindStill ==
    ASSUME PollingInv, Still, faults' \in 0..MaxFaults, UNCHANGED kind,
           kind = "PRIVATE" => group' = "in" /\ reset' = "no",
           \A p \in Polls : PhaseOK(polls'[p])
    PROVE  KindInv'
<1>1. Waiting' = Waiting /\ Rows' = Rows /\ Running' = Running /\ Concluded' = Concluded
    BY ReceiverStill DEF PollingInv, TypeOK
<1>2. CASE kind = "PRIVATE"
  <2>1. \A p \in Polls : ~In(p, "handle")' /\ ~In(p, "save")'
    BY <1>2 DEF PhaseOK, In
  <2>2. stored' = stored
    BY DEF Still, outcomes
  <2>3. QED
    BY <1>1, <1>2, <2>1, <2>2 DEF KindInv, PollingInv, In
<1>3. CASE kind # "PRIVATE"
  <2>1. \A p \in Polls : ~In(p, "mark")' /\ ~In(p, "hand")'
    BY <1>3 DEF PhaseOK, In
  <2>2. QED
    BY <1>3, <2>1 DEF KindInv, PollingInv, Still, queues, In
<1>4. QED
    BY <1>2, <1>3

LEMMA PhasesNow ==
    ASSUME PollingInv, NEW p \in Polls
    PROVE  PhaseOK(polls[p])
BY DEF PollingInv, KindInv, PhaseOK, In

\* What a poll has to respect, besides types, when it becomes r.
MovesWell(p, r) ==
    /\ seen \subseteq seen' /\ seen' \subseteq Messages
    /\ missed \subseteq missed' /\ missed' \subseteq Messages
    /\ r.phase = "idle" => r.msgs = <<>>
    /\ r.msgs = <<>> => r.phase \in {"idle", "fetch"}
    /\ \A a \in r.asked : a.since <= Len(swarm[a.snode])
    /\ PhaseOK(r)
    /\ r.phase # "save" /\ polls[p].phase # "hand"
    /\ reset = "no" =>
         /\ seen' \subseteq seen \cup Kept' \cup InHand'
         /\ ToSet(polls[p].msgs) \subseteq seen' \cup Kept' \cup ToSet(r.msgs)
         /\ Passed' \subseteq Passed \cup seen' \cup Kept' \cup Carried'

LEMMA PollKeeps ==
    ASSUME PollingInv, NEW p \in Polls, NEW r \in Poll, polls' = [polls EXCEPT ![p] = r],
           Still, faults' \in 0..MaxFaults, UNCHANGED <<world, membership>>,
           lastHashes' \in [Snodes -> Nat], \A s \in Snodes : lastHashes'[s] <= Len(swarm[s]),
           MovesWell(p, r)
    PROVE  PollingInv'
<1>1. /\ polls \in [Polls -> Poll] /\ ReceiverTypeOK /\ CommitInv /\ AwaitInv /\ PollInv /\ HoldInv
    BY DEF PollingInv, TypeOK
<1>2. /\ polls' \in [Polls -> Poll] /\ polls'[p] = r
      /\ \A q \in Polls : q # p => polls'[q] = polls[q]
      /\ Carried \subseteq Carried' \cup ToSet(polls[p].msgs)
      /\ ToSet(r.msgs) \subseteq Carried'
      /\ polls[p].phase # "hand" => InHand \subseteq InHand'
    BY <1>1, PollMoves
<1>3. /\ ReceiverTypeOK' /\ CommitInv' /\ AwaitInv' /\ Kept \subseteq Kept'
    BY <1>1, ReceiverStill DEF MovesWell
<1>4. TypeOK'
    BY <1>2, <1>3 DEF PollingInv, TypeOK, MovesWell, world, membership
<1>5. PollInv'
    BY <1>1, PollInvMoves DEF MovesWell, world
<1>6. KindInv'
  <2>1. \A q \in Polls : PhaseOK(polls'[q])
    BY <1>2, PhasesNow DEF MovesWell
  <2>2. UNCHANGED <<kind, group, reset>> /\ (kind = "PRIVATE" => group = "in" /\ reset = "no")
    BY DEF world, membership, PollingInv, KindInv
  <2>3. QED
    BY <2>1, <2>2, KindStill
<1>7. HoldInv'
  <2>1. reset' = reset
    BY DEF membership
  <2>2. CASE reset # "no"
    BY <2>1, <2>2 DEF HoldInv
  <2>3. CASE reset = "no"
    <3>1. /\ seen' \subseteq seen \cup Kept' \cup InHand'
          /\ ToSet(polls[p].msgs) \subseteq seen' \cup Kept' \cup ToSet(r.msgs)
          /\ Passed' \subseteq Passed \cup seen' \cup Kept' \cup Carried'
          /\ seen \subseteq seen' /\ InHand \subseteq InHand'
      BY <1>2, <2>3 DEF MovesWell
    <3>2. Carried \subseteq seen' \cup Kept' \cup Carried'
      BY <1>2, <3>1
    <3>3. ASSUME NEW q \in Polls, polls'[q].phase = "save"
          PROVE  Head(polls'[q].msgs) \in Kept'
      <4>1. q # p /\ polls'[q] = polls[q]
        BY <1>2, <3>3 DEF MovesWell
      <4>2. Head(polls[q].msgs) \in Kept
        BY <1>1, <2>3, <3>3, <4>1 DEF HoldInv, In
      <4>3. QED
        BY <1>3, <4>1, <4>2
    <3>4. QED
      BY <1>1, <1>3, <2>3, <3>1, <3>2, <3>3, HoldStep
  <2>4. QED
    BY <2>2, <2>3
<1>8. QED
    BY <1>3, <1>4, <1>5, <1>6, <1>7 DEF PollingInv

LEMMA FaultFacts ==
    ASSUME PollingInv
    PROVE  /\ Fault => faults' \in 0..MaxFaults
           /\ UNCHANGED faults => faults' \in 0..MaxFaults
BY ReceiverAssumption DEF Fault, PollingInv, TypeOK, ReceiverTypeOK

LEMMA ReceiverUnchanged ==
    ASSUME PollingInv, UNCHANGED receiverVars
    PROVE  Still /\ faults' \in 0..MaxFaults
BY FaultFacts DEF receiverVars, Still

\* Where the last hashes stay and no poll is asked with a new one.
LEMMA PassedKept ==
    ASSUME PollingInv, NEW p \in Polls, NEW r \in Poll, polls' = [polls EXCEPT ![p] = r],
           UNCHANGED <<world, lastHashes>>, r.asked \subseteq polls[p].asked
    PROVE  /\ Passed' \subseteq Passed
           /\ lastHashes' \in [Snodes -> Nat]
           /\ \A s \in Snodes : lastHashes'[s] <= Len(swarm[s])
<1>1. polls \in [Polls -> Poll] /\ lastHashes' \in [Snodes -> Nat]
      /\ \A s \in Snodes : lastHashes'[s] <= Len(swarm[s])
    BY DEF PollingInv, TypeOK
<1>2. Asked' \subseteq Asked \cup r.asked
    BY <1>1, PollMoves
<1>3. polls[p].asked \subseteq Asked
    BY DEF Asked
<1>4. Asked' \subseteq Asked
    BY <1>2, <1>3
<1>5. QED
    BY <1>1, <1>4, PassedStays DEF world

LEMMA KeepsPollOnceForKey ==
    ASSUME PollingInv, NEW p \in Polls, pollOnceForKey(p)
    PROVE  PollingInv'
<1>1. PICK sample \in kSubset(SampleSize, Snodes) :
        polls' = [polls EXCEPT ![p] =
            [phase |-> "fetch", msgs |-> <<>>,
             asked |-> {[snode |-> s, since |-> lastHashes[s]] : s \in sample}]]
    BY DEF pollOnceForKey
<1> DEFINE asked == {[snode |-> s, since |-> lastHashes[s]] : s \in sample}
           r == [phase |-> "fetch", msgs |-> <<>>, asked |-> asked]
<1>2. sample \subseteq Snodes
    BY DEF kSubset
<1>3. /\ lastHashes \in [Snodes -> Nat] /\ \A s \in Snodes : lastHashes[s] <= Len(swarm[s])
      /\ seen \subseteq Messages /\ missed \subseteq Messages /\ polls \in [Polls -> Poll]
    BY DEF PollingInv, TypeOK
<1>4. \A a \in asked : /\ a \in [snode : Snodes, since : Nat]
                      /\ a.snode \in Snodes /\ a.since = lastHashes[a.snode]
    BY <1>2, <1>3
<1>5. /\ UNCHANGED <<receiverVars, world, lastHashes, seen, membership, missed>>
      /\ polls[p].phase = "idle" /\ polls[p].msgs \in Seq(Messages)
    BY <1>3 DEF pollOnceForKey, In, Poll
<1>6. r \in Poll /\ r.phase = "fetch" /\ r.asked = asked /\ r.msgs = <<>>
  <2>1. asked \in SUBSET [snode : Snodes, since : Nat]
    BY <1>4
  <2> HIDE DEF asked
  <2>2. QED
    BY <2>1 DEF Poll
<1>7. polls' = [polls EXCEPT ![p] = r]
    BY <1>1
<1> HIDE DEF asked, r
<1>8. PhaseOK(r)
    BY <1>6 DEF PhaseOK
<1>9. Passed' \subseteq Passed
  <2>1. Asked' \subseteq Asked \cup asked
    BY <1>3, <1>6, <1>7, PollMoves
  <2>2. ASSUME NEW m, m \in Passed'
        PROVE  m \in Passed
    <3>1. CASE \E s \in Snodes : m \in Before(s, lastHashes[s])'
      <4>1. \E s \in Snodes : m \in Before(s, lastHashes[s])
        BY <1>5, <3>1 DEF Before, world
      <4>2. QED
        BY <4>1, PassedFacts
    <3>2. CASE \E a \in Asked' : m \in Before(a.snode, a.since)'
      <4>1. PICK a \in Asked' : m \in Before(a.snode, a.since)
        BY <1>5, <3>2 DEF Before, world
      <4>2. CASE a \in Asked
        BY <4>1, <4>2, PassedFacts
      <4>3. CASE a \in asked
        <5>1. \E s \in Snodes : m \in Before(s, lastHashes[s])
          BY <1>4, <4>1, <4>3
        <5>2. QED
          BY <5>1, PassedFacts
      <4>4. QED
        BY <2>1, <4>2, <4>3
    <3>3. QED
      BY <2>2, <3>1, <3>2, PassedFacts
  <2>3. QED
    BY <2>2
<1>10. ToSet(polls[p].msgs) = {}
  <2>1. polls[p].msgs = <<>>
    BY <1>5 DEF PollingInv, PollInv, In
  <2>2. QED
    BY <2>1, <1>5, ToSetFacts
<1>11. \A a \in r.asked : a.since <= Len(swarm[a.snode])
    BY <1>3, <1>4, <1>6
<1>12. MovesWell(p, r)
    BY <1>3, <1>5, <1>6, <1>8, <1>9, <1>10, <1>11 DEF MovesWell
<1>13. Still /\ faults' \in 0..MaxFaults
    BY <1>5, ReceiverUnchanged
<1>14. /\ lastHashes' \in [Snodes -> Nat] /\ \A s \in Snodes : lastHashes'[s] <= Len(swarm[s])
    BY <1>3, <1>5
<1>15. QED
    BY <1>5, <1>6, <1>7, <1>12, <1>13, <1>14, PollKeeps

\* Poll p goes on to phase with msgs, the last hashes as they are.
LEMMA Proceeds ==
    ASSUME PollingInv, NEW p \in Polls, NEW phase \in Phases \ {"idle", "fetch", "save"},
           NEW msgs \in Seq(Messages), Proceed(p, phase, msgs),
           Still, faults' \in 0..MaxFaults, UNCHANGED <<world, lastHashes, membership>>,
           seen \subseteq seen', seen' \subseteq Messages,
           missed \subseteq missed', missed' \subseteq Messages,
           polls[p].phase # "hand",
           kind = "PRIVATE" => phase # "handle", kind # "PRIVATE" => phase \notin {"mark", "hand"},
           reset = "no" =>
              /\ seen' \subseteq seen \cup Kept' \cup
                   (IF phase = "hand" THEN ToSet(msgs) ELSE {})
              /\ ToSet(polls[p].msgs) \subseteq seen' \cup Kept' \cup ToSet(msgs)
    PROVE  PollingInv'
<1> DEFINE r == Proceeding(phase, msgs)
<1>1. /\ r \in Poll /\ r.asked = {} /\ r.msgs = msgs
      /\ r.phase = IF msgs = <<>> THEN "idle" ELSE phase
    BY ProceedingFacts
<1>2. polls' = [polls EXCEPT ![p] = r]
    BY DEF Proceed, Proceeding
<1> HIDE DEF r
<1>3. polls \in [Polls -> Poll]
    BY DEF PollingInv, TypeOK
<1>4. /\ Passed' \subseteq Passed
      /\ lastHashes' \in [Snodes -> Nat]
      /\ \A s \in Snodes : lastHashes'[s] <= Len(swarm[s])
    BY <1>1, <1>2, PassedKept
<1>5. PhaseOK(r)
    BY <1>1 DEF PhaseOK
<1>6. phase = "hand" => ToSet(msgs) \subseteq InHand'
  <2>1. CASE msgs = <<>>
    BY <2>1, ToSetFacts
  <2>2. CASE msgs # <<>>
    BY <1>1, <1>2, <1>3, <2>2, PollMoves
  <2>3. QED
    BY <2>1, <2>2
<1>7. MovesWell(p, r)
    BY <1>1, <1>4, <1>5, <1>6 DEF MovesWell, Phases
<1>8. QED
    BY <1>1, <1>2, <1>4, <1>7, PollKeeps

\* Poll p is over and what it held is missed.
LEMMA Ends ==
    ASSUME PollingInv, NEW p \in Polls, EndPoll(p), polls[p].phase # "hand",
           Still, faults' \in 0..MaxFaults, UNCHANGED <<world, lastHashes, membership, seen>>,
           missed' = missed \cup ToSet(polls[p].msgs)
    PROVE  PollingInv'
<1>1. /\ polls \in [Polls -> Poll] /\ seen \subseteq Messages /\ missed \subseteq Messages
      /\ polls[p].msgs \in Seq(Messages)
    BY DEF PollingInv, TypeOK, Poll
<1>2. /\ Idle \in Poll /\ Idle.msgs = <<>> /\ Idle.asked = {} /\ Idle.phase = "idle"
    BY IdleFacts
<1>3. polls' = [polls EXCEPT ![p] = Idle]
    BY DEF EndPoll
<1>4. /\ Passed' \subseteq Passed
      /\ lastHashes' \in [Snodes -> Nat]
      /\ \A s \in Snodes : lastHashes'[s] <= Len(swarm[s])
    BY <1>2, <1>3, PassedKept
<1>5. missed' \subseteq Messages /\ ToSet(polls[p].msgs) \subseteq Kept'
    BY <1>1, ToSetFacts DEF Kept
<1>6. MovesWell(p, Idle)
    BY <1>1, <1>2, <1>4, <1>5 DEF MovesWell, PhaseOK
<1>7. QED
    BY <1>2, <1>3, <1>4, <1>6, PollKeeps

LEMMA KeepsShouldLeave ==
    ASSUME PollingInv, NEW p \in Polls, shouldLeaveNotPolledGroup(p)
    PROVE  PollingInv'
<1>1. /\ UNCHANGED <<receiverVars, world, lastHashes, seen, membership>>
      /\ polls[p].phase = "check"
    BY DEF shouldLeaveNotPolledGroup, In
<1>2. Still /\ faults' \in 0..MaxFaults
    BY <1>1, ReceiverUnchanged
<1>3. polls[p].msgs \in Seq(Messages) /\ seen \subseteq Messages /\ missed \subseteq Messages
    BY DEF PollingInv, TypeOK, Poll
<1>4. CASE EndPoll(p) /\ missed' = missed \cup ToSet(polls[p].msgs)
    BY <1>1, <1>2, <1>4, Ends
<1>5. CASE Proceed(p, "filter", polls[p].msgs) /\ UNCHANGED missed
  <2>1. "filter" \in Phases \ {"idle", "fetch", "save"}
    BY DEF Phases
  <2>2. QED
    BY <1>1, <1>2, <1>3, <1>5, <2>1, Proceeds
<1>6. QED
    BY <1>4, <1>5 DEF shouldLeaveNotPolledGroup

LEMMA KeepsPollThrows ==
    ASSUME PollingInv, NEW p \in Polls, PollThrows(p)
    PROVE  PollingInv'
<1>1. Still /\ faults' \in 0..MaxFaults
    BY FaultFacts DEF PollThrows, Still
<1>2. QED
    BY <1>1, Ends DEF PollThrows

LEMMA KeepsHandleSeenMessages ==
    ASSUME PollingInv, NEW p \in Polls, handleSeenMessages(p)
    PROVE  PollingInv'
<1> DEFINE drop == {m \in Messages : isSeen(m)}
           msgs == Without(polls[p].msgs, drop)
           phase == IF kind = "PRIVATE" THEN "mark" ELSE "handle"
<1>1. /\ UNCHANGED <<receiverVars, world, lastHashes, seen, membership, missed>>
      /\ polls[p].phase = "filter" /\ Proceed(p, phase, msgs)
    BY DEF handleSeenMessages, In
<1>2. Still /\ faults' \in 0..MaxFaults
    BY <1>1, ReceiverUnchanged
<1>3. polls[p].msgs \in Seq(Messages) /\ seen \subseteq Messages /\ missed \subseteq Messages
    BY DEF PollingInv, TypeOK, Poll
<1> HIDE DEF drop
<1>4. msgs \in Seq(Messages) /\ ToSet(msgs) = ToSet(polls[p].msgs) \ drop
    BY <1>3, WithoutFacts
<1>5. drop \subseteq seen' \cup Kept'
  <2>1. Concluded' = Concluded
    BY <1>2, ReceiverStill DEF PollingInv, TypeOK
  <2>2. drop \subseteq seen \cup Concluded
    BY DEF drop, isSeen, Concluded
  <2>3. QED
    BY <1>1, <2>1, <2>2 DEF Kept
<1>6. /\ phase \in Phases \ {"idle", "fetch", "save", "hand"}
      /\ kind = "PRIVATE" => phase # "handle"
      /\ kind # "PRIVATE" => phase \notin {"mark", "hand"}
    BY DEF Phases
<1> HIDE DEF msgs, phase
<1>7. QED
    BY <1>1, <1>2, <1>3, <1>4, <1>5, <1>6, Proceeds

LEMMA KeepsUpdateSeenMessages ==
    ASSUME PollingInv, NEW p \in Polls, updateSeenMessages(p)
    PROVE  PollingInv'
<1>1. /\ UNCHANGED <<receiverVars, world, lastHashes, membership, missed>>
      /\ polls[p].phase = "mark" /\ Proceed(p, "hand", polls[p].msgs)
      /\ seen' = seen \cup ToSet(polls[p].msgs)
    BY DEF updateSeenMessages, In
<1>2. Still /\ faults' \in 0..MaxFaults
    BY <1>1, ReceiverUnchanged
<1>3. /\ polls[p].msgs \in Seq(Messages) /\ missed \subseteq Messages /\ seen' \subseteq Messages
  <2>1. polls[p].msgs \in Seq(Messages) /\ seen \subseteq Messages /\ missed \subseteq Messages
    BY DEF PollingInv, TypeOK, Poll
  <2>2. QED
    BY <1>1, <2>1, ToSetFacts
<1>4. "hand" \in Phases \ {"idle", "fetch", "save"}
    BY DEF Phases
<1>5. kind = "PRIVATE"
    BY <1>1, PhasesNow DEF PhaseOK
<1>6. QED
    BY <1>1, <1>2, <1>3, <1>4, <1>5, Proceeds

LEMMA KeepsSaveSeen ==
    ASSUME PollingInv, NEW p \in Polls, SaveSeen(p)
    PROVE  PollingInv'
<1> DEFINE m == Head(polls[p].msgs)
           msgs == Tail(polls[p].msgs)
<1>1. /\ UNCHANGED <<unprocessed, queues, conversation, replayed, outcomes,
                     world, lastHashes, membership>>
      /\ polls[p].phase = "save" /\ Proceed(p, "handle", msgs)
      /\ seen' = seen \cup {m} \/ seen' = seen
      /\ missed' = missed \/ missed' = missed \cup {m}
    BY DEF SaveSeen, In
<1>2. Still /\ faults' \in 0..MaxFaults
    BY <1>1, FaultFacts DEF SaveSeen, Still
<1>3. /\ polls[p].msgs \in Seq(Messages) /\ polls[p].msgs # <<>>
      /\ seen \subseteq Messages /\ missed \subseteq Messages
    BY <1>1 DEF PollingInv, TypeOK, Poll, PollInv, In
<1>4. m \in Messages /\ msgs \in Seq(Messages) /\ ToSet(polls[p].msgs) = {m} \cup ToSet(msgs)
    BY <1>3, ToSetFacts
<1>5. kind # "PRIVATE"
    BY <1>1, PhasesNow DEF PhaseOK
<1> HIDE DEF msgs
<1>6. Kept \subseteq Kept'
    BY <1>1, <1>2, ReceiverStill DEF PollingInv, TypeOK
<1>7. reset = "no" => m \in Kept'
    BY <1>1, <1>6 DEF PollingInv, HoldInv, In
<1> HIDE DEF m
<1>8. "handle" \in Phases \ {"idle", "fetch", "save"}
    BY DEF Phases
<1>9. /\ seen \subseteq seen' /\ seen' \subseteq Messages
      /\ missed \subseteq missed' /\ missed' \subseteq Messages
    BY <1>1, <1>3, <1>4
<1>10. reset = "no" =>
         /\ seen' \subseteq seen \cup Kept'
         /\ ToSet(polls[p].msgs) \subseteq seen' \cup Kept' \cup ToSet(msgs)
    BY <1>1, <1>4, <1>7
<1>11. QED
    BY <1>1, <1>2, <1>4, <1>5, <1>8, <1>9, <1>10, Proceeds

LEMMA SubSeqSplit ==
    ASSUME NEW S, NEW s \in Seq(S), NEW a \in Nat, NEW k \in a..Len(s)
    PROVE  /\ SubSeq(s, a + 1, k) \in Seq(S)
           /\ ToSet(SubSeq(s, 1, k)) \subseteq
                ToSet(SubSeq(s, 1, a)) \cup ToSet(SubSeq(s, a + 1, k))
<1>1. \A i \in 1..Len(s) : s[i] \in S
    OBVIOUS
<1>2. a + 1 \in Int /\ k \in Int /\ 1 \in Int /\ k <= Len(s) /\ a <= k /\ Len(s) \in Nat
    OBVIOUS
<1>3. ASSUME NEW m \in Nat \ {0}, NEW n \in Int, n <= Len(s)
      PROVE  /\ SubSeq(s, m, n) \in Seq(S)
             /\ Len(SubSeq(s, m, n)) = IF m <= n THEN n - m + 1 ELSE 0
             /\ \A i \in 1..n - m + 1 : SubSeq(s, m, n)[i] = s[m + i - 1]
  <2>1. \A i \in m..n : s[i] \in S
    BY <1>1, <1>2, <1>3
  <2>2. m \in Int
    OBVIOUS
  <2>3. QED
    BY <2>1, <2>2, SubSeqProperties
<1> DEFINE all == SubSeq(s, 1, k)
           low == SubSeq(s, 1, a)
           high == SubSeq(s, a + 1, k)
<1>4. /\ all \in Seq(S) /\ Len(all) = k /\ \A i \in 1..k : all[i] = s[i]
    BY <1>2, <1>3
<1>5. /\ low \in Seq(S) /\ Len(low) = a /\ \A i \in 1..a : low[i] = s[i]
    BY <1>2, <1>3
<1>6. /\ high \in Seq(S) /\ Len(high) = k - a /\ \A i \in 1..k - a : high[i] = s[a + i]
  <2>1. /\ high \in Seq(S)
        /\ Len(high) = IF a + 1 <= k THEN k - (a + 1) + 1 ELSE 0
        /\ \A i \in 1..k - (a + 1) + 1 : high[i] = s[(a + 1) + i - 1]
    BY <1>2, <1>3
  <2> HIDE DEF high
  <2>2. QED
    BY <1>2, <2>1
<1> HIDE DEF all, low, high
<1>7. ASSUME NEW i \in 1..k
      PROVE  s[i] \in ToSet(low) \cup ToSet(high)
  <2>1. CASE i <= a
    <3>1. i \in 1..Len(low) /\ low[i] = s[i]
      BY <1>2, <1>5, <2>1
    <3>2. QED
      BY <1>5, <3>1 DEF ToSet
  <2>2. CASE i > a
    <3>1. i - a \in 1..Len(high) /\ high[i - a] = s[i]
      BY <1>2, <1>6, <2>2
    <3>2. QED
      BY <1>6, <3>1 DEF ToSet
  <2>3. QED
    BY <1>2, <2>1, <2>2
<1>8. ToSet(all) \subseteq ToSet(low) \cup ToSet(high)
    BY <1>4, <1>7 DEF ToSet
<1>9. QED
    BY <1>6, <1>8 DEF all, low, high

LEMMA MergeFacts ==
    ASSUME NEW msgs \in Seq(Messages), NEW more \in Seq(Messages)
    PROVE  /\ Merge(msgs, more) \in Seq(Messages)
           /\ ToSet(Merge(msgs, more)) = ToSet(msgs) \cup ToSet(more)
<1> DEFINE new == Without(more, ToSet(msgs))
<1>1. new \in Seq(Messages) /\ ToSet(new) = ToSet(more) \ ToSet(msgs)
    BY WithoutFacts
<1> HIDE DEF new
<1>2. msgs \o new \in Seq(Messages) /\ ToSet(msgs \o new) = ToSet(msgs) \cup ToSet(new)
    BY <1>1, ToSetFacts
<1>3. Merge(msgs, more) = msgs \o new
    BY DEF Merge, new
<1>4. QED
    BY <1>1, <1>2, <1>3

\* A request is settled: the poll holds what it held, and what the last hashes
\* have moved past.
LEMMA Settles ==
    ASSUME PollingInv, NEW p \in Polls, polls[p].phase = "fetch",
           NEW request \in polls[p].asked, NEW msgs \in Seq(Messages), Settled(p, request, msgs),
           Still, faults' \in 0..MaxFaults, UNCHANGED <<world, seen, membership, missed>>,
           lastHashes' \in [Snodes -> Nat], \A s \in Snodes : lastHashes'[s] <= Len(swarm[s]),
           ToSet(polls[p].msgs) \subseteq ToSet(msgs),
           \A s \in Snodes : Before(s, lastHashes'[s]) \subseteq Passed \cup ToSet(msgs)
    PROVE  PollingInv'
<1> DEFINE asked == polls[p].asked \ {request}
           r == IF asked = {} THEN Proceeding("check", msgs)
                ELSE [phase |-> "fetch", asked |-> asked, msgs |-> msgs]
<1>1. /\ polls \in [Polls -> Poll] /\ polls[p] \in Poll
      /\ seen \subseteq Messages /\ missed \subseteq Messages
    BY DEF PollingInv, TypeOK
<1>2. /\ polls[p].asked \in SUBSET [snode : Snodes, since : Nat]
      /\ asked \in SUBSET [snode : Snodes, since : Nat]
    BY <1>1 DEF Poll
<1>3. "check" \in Phases \ {"idle", "fetch"}
    BY DEF Phases
<1>4. /\ r \in Poll /\ r.asked \subseteq polls[p].asked /\ r.msgs = msgs
      /\ r.phase \in {"fetch", "check", "idle"}
      /\ r.phase = "check" => msgs # <<>>
      /\ r.phase = "idle" => msgs = <<>>
  <2>1. CASE asked = {}
    <3>1. r = Proceeding("check", msgs)
      BY <2>1
    <3> HIDE DEF r
    <3>2. QED
      BY <1>3, <3>1, ProceedingFacts
  <2>2. CASE asked # {}
    <3>1. r = [phase |-> "fetch", asked |-> asked, msgs |-> msgs]
      BY <2>2
    <3>2. asked \subseteq polls[p].asked
      OBVIOUS
    <3> HIDE DEF r, asked
    <3>3. QED
      BY <1>2, <3>1, <3>2 DEF Poll
  <2>3. QED
    BY <2>1, <2>2
<1>5. polls' = [polls EXCEPT ![p] = r]
  <2>1. CASE asked = {}
    BY <2>1 DEF Settled, Proceed, Proceeding
  <2>2. CASE asked # {}
    BY <2>2 DEF Settled
  <2>3. QED
    BY <2>1, <2>2
<1> HIDE DEF r, asked
<1>6. ToSet(msgs) \subseteq Carried' /\ Asked' \subseteq Asked
  <2>1. ToSet(r.msgs) \subseteq Carried' /\ Asked' \subseteq Asked \cup r.asked
    BY <1>1, <1>4, <1>5, PollMoves
  <2>2. polls[p].asked \subseteq Asked
    BY DEF Asked
  <2>3. QED
    BY <1>4, <2>1, <2>2
<1>7. Passed' \subseteq Passed \cup Carried'
  <2>1. ASSUME NEW m, m \in Passed'
        PROVE  m \in Passed \cup Carried'
    <3>1. CASE \E s \in Snodes : m \in Before(s, lastHashes[s])'
      <4>1. \E s \in Snodes : m \in Before(s, lastHashes'[s])
        BY <3>1 DEF Before, world
      <4>2. QED
        BY <1>6, <4>1
    <3>2. CASE \E a \in Asked' : m \in Before(a.snode, a.since)'
      <4>1. \E a \in Asked : m \in Before(a.snode, a.since)
        BY <1>6, <3>2 DEF Before, world
      <4>2. QED
        BY <4>1, PassedFacts
    <3>3. QED
      BY <2>1, <3>1, <3>2, PassedFacts
  <2>2. QED
    BY <2>1
<1>8. PhaseOK(r)
    BY <1>4 DEF PhaseOK
<1>9. \A a \in r.asked : a.since <= Len(swarm[a.snode])
    BY <1>4 DEF PollingInv, PollInv
<1>10. MovesWell(p, r)
    BY <1>1, <1>4, <1>7, <1>8, <1>9 DEF MovesWell
<1>11. QED
    BY <1>4, <1>5, <1>10, PollKeeps

LEMMA LastHashesPassed == \A s \in Snodes : Before(s, lastHashes[s]) \subseteq Passed
BY DEF Passed

LEMMA KeepsRequestFails ==
    ASSUME PollingInv, NEW p \in Polls, RequestFails(p)
    PROVE  PollingInv'
<1>1. /\ polls[p].phase = "fetch"
      /\ UNCHANGED <<unprocessed, queues, conversation, replayed, outcomes,
                     world, lastHashes, seen, membership, missed>>
    BY DEF RequestFails, In
<1>2. Still /\ faults' \in 0..MaxFaults
    BY <1>1, FaultFacts DEF RequestFails, Still
<1>3. PICK request \in polls[p].asked : Settled(p, request, polls[p].msgs)
    BY DEF RequestFails
<1>4. /\ polls[p].msgs \in Seq(Messages) /\ lastHashes' \in [Snodes -> Nat]
      /\ \A s \in Snodes : lastHashes'[s] <= Len(swarm[s])
    BY <1>1 DEF PollingInv, TypeOK, Poll
<1>5. \A s \in Snodes : Before(s, lastHashes'[s]) \subseteq Passed \cup ToSet(polls[p].msgs)
    BY <1>1, LastHashesPassed
<1>6. QED
    BY <1>1, <1>2, <1>3, <1>4, <1>5, Settles

LEMMA KeepsPollNodeForKey ==
    ASSUME PollingInv, NEW p \in Polls, pollNodeForKey(p)
    PROVE  PollingInv'
<1>1. /\ polls[p].phase = "fetch"
      /\ UNCHANGED <<receiverVars, world, seen, membership, missed>>
    BY DEF pollNodeForKey, In
<1>2. Still /\ faults' \in 0..MaxFaults
    BY <1>1, ReceiverUnchanged
<1>3. PICK request \in polls[p].asked :
        \/ Settled(p, request, polls[p].msgs) /\ UNCHANGED lastHashes
        \/ \E k \in request.since + 1..Len(swarm[request.snode]) :
             /\ updateLastHash(request.snode, k)
             /\ Settled(p, request,
                    Merge(polls[p].msgs, SubSeq(swarm[request.snode], request.since + 1, k)))
    BY DEF pollNodeForKey
<1>4. /\ polls[p].msgs \in Seq(Messages) /\ lastHashes \in [Snodes -> Nat]
      /\ \A s \in Snodes : lastHashes[s] <= Len(swarm[s])
      /\ request.snode \in Snodes /\ request.since \in Nat
      /\ swarm \in [Snodes -> Seq(Messages)]
  <2>1. /\ polls[p] \in Poll /\ lastHashes \in [Snodes -> Nat]
        /\ \A s \in Snodes : lastHashes[s] <= Len(swarm[s])
        /\ swarm \in [Snodes -> Seq(Messages)]
    BY DEF PollingInv, TypeOK
  <2>2. request \in [snode : Snodes, since : Nat] /\ polls[p].msgs \in Seq(Messages)
    BY <2>1 DEF Poll
  <2>3. QED
    BY <2>1, <2>2
<1>5. CASE Settled(p, request, polls[p].msgs) /\ UNCHANGED lastHashes
  <2>1. \A s \in Snodes : Before(s, lastHashes'[s]) \subseteq Passed \cup ToSet(polls[p].msgs)
    BY <1>5, LastHashesPassed
  <2>2. QED
    BY <1>1, <1>2, <1>4, <1>5, <2>1, Settles
<1>6. ASSUME NEW k \in request.since + 1..Len(swarm[request.snode]),
             updateLastHash(request.snode, k),
             Settled(p, request,
                Merge(polls[p].msgs, SubSeq(swarm[request.snode], request.since + 1, k)))
      PROVE  PollingInv'
  <2> DEFINE n == request.snode
             more == SubSeq(swarm[n], request.since + 1, k)
             msgs == Merge(polls[p].msgs, more)
  <2>1. /\ swarm[n] \in Seq(Messages) /\ k \in request.since..Len(swarm[n])
        /\ k \in Nat /\ k <= Len(swarm[n])
    BY <1>4
  <2>2. /\ more \in Seq(Messages)
        /\ Before(n, k) \subseteq Before(n, request.since) \cup ToSet(more)
    BY <1>4, <2>1, SubSeqSplit DEF Before
  <2>3. Settled(p, request, msgs)
    BY <1>6
  <2> HIDE DEF more
  <2>4. msgs \in Seq(Messages) /\ ToSet(msgs) = ToSet(polls[p].msgs) \cup ToSet(more)
    BY <1>4, <2>2, MergeFacts
  <2> HIDE DEF msgs
  <2>5. lastHashes' = [lastHashes EXCEPT ![n] = k]
    BY <1>6 DEF updateLastHash
  <2>6. Before(n, request.since) \subseteq Passed
    <3>1. request \in Asked
      BY DEF Asked
    <3>2. QED
      BY <3>1, PassedFacts
  <2> HIDE DEF n
  <2>7. /\ lastHashes' \in [Snodes -> Nat]
        /\ \A s \in Snodes : lastHashes'[s] <= Len(swarm[s])
    BY <1>4, <2>1, <2>5
  <2>8. ASSUME NEW s \in Snodes
        PROVE  Before(s, lastHashes'[s]) \subseteq Passed \cup ToSet(msgs)
    <3>1. CASE s = n
      <4>1. lastHashes'[s] = k
        BY <1>4, <2>5, <3>1
      <4>2. QED
        BY <2>2, <2>4, <2>6, <3>1, <4>1
    <3>2. CASE s # n
      <4>1. lastHashes'[s] = lastHashes[s]
        BY <1>4, <2>5, <3>2
      <4>2. QED
        BY <4>1, LastHashesPassed
    <3>3. QED
      BY <3>1, <3>2
  <2>9. QED
    BY <1>1, <1>2, <2>3, <2>4, <2>7, <2>8, Settles
<1>7. QED
    BY <1>3, <1>5, <1>6

-----------------------------------------------------------------------------
(* Steps of the receiver, and what a poll gives to it *)

LEMMA KeepsReceiverStep ==
    ASSUME PollingInv, ReceiverStep
    PROVE  PollingInv'
<1>1. /\ ReceiverTypeOK /\ CommitInv /\ AwaitInv /\ PollInv /\ KindInv /\ HoldInv
      /\ ReceiverNext /\ UNCHANGED <<world, lastHashes, seen, polls, membership, missed>>
    BY DEF PollingInv, TypeOK, ReceiverStep
<1>2. StoredJobs
  <2>1. CASE kind = "PRIVATE"
    BY <1>1, <2>1 DEF KindInv, StoredJobs
  <2>2. CASE kind # "PRIVATE"
    <3>1. unprocessed = <<>>
      BY <1>1, <2>2 DEF KindInv
    <3>2. Rows = {}
      BY <3>1 DEF Rows
    <3>3. QED
      BY <3>2 DEF StoredJobs
  <2>3. QED
    BY <2>1, <2>2
<1>3. ReceiverTypeOK' /\ AwaitInv' /\ Accounts /\ StaysEmpty
    BY <1>1, <1>2, ReceiverKeeps DEF StepKeeps
<1>4. CommitInv'
    BY <1>1, ReceiverCommits
<1>5. TypeOK'
    BY <1>1, <1>3 DEF PollingInv, TypeOK, world, membership
<1>6. PollInv'
    BY <1>1 DEF PollInv, In, world
<1>7. KindInv'
  <2>1. UNCHANGED <<kind, group, reset, polls>>
    BY <1>1 DEF world, membership
  <2>2. CASE kind = "PRIVATE"
    <3>1. /\ group = "in" /\ reset = "no"
          /\ \A p \in Polls : ~In(p, "handle") /\ ~In(p, "save")
          /\ \A env \in Waiting : env \in Rows \/ Message(env) \in Concluded
          /\ \A j \in Running : j.phase = "stored" => stored[Message(j.env)] > 0
      BY <1>1, <2>2 DEF KindInv
    <3>2. \A env \in Waiting' : env \in Rows' \/ Message(env) \in Concluded'
      BY <1>3, <3>1 DEF Accounts
    <3>3. ASSUME NEW j \in Running', j.phase = "stored"
          PROVE  stored'[Message(j.env)] > 0
      <4>1. Message(j.env) \in Messages
        BY <1>3, EnvelopeFacts DEF ReceiverTypeOK, Running, Job
      <4>2. QED
        BY <1>3, <3>1, <3>3, <4>1 DEF Accounts
    <3>4. QED
      BY <2>1, <2>2, <3>1, <3>2, <3>3 DEF KindInv, In
  <2>3. CASE kind # "PRIVATE"
    <3>1. unprocessed' = <<>> /\ adding' = <<>> /\ envelopeQueue' = <<>>
      BY <1>1, <1>3, <2>3 DEF KindInv, StaysEmpty
    <3>2. QED
      BY <1>1, <2>1, <2>3, <3>1 DEF KindInv, In
  <2>4. QED
    BY <2>2, <2>3
<1>8. HoldInv'
  <2>1. UNCHANGED <<swarm, reset, missed, seen, lastHashes, polls>>
    BY <1>1 DEF world, membership
  <2>2. CASE reset # "no"
    BY <2>1, <2>2 DEF HoldInv
  <2>3. CASE reset = "no"
    <3>1. Kept \subseteq Kept'
      BY <1>3, <2>1, KeptGrows
    <3>2. Carried' = Carried /\ InHand' = InHand /\ Asked' = Asked
      BY <2>1 DEF Carried, InHand, In, Asked
    <3>3. Passed' \subseteq Passed
      BY <2>1, <3>2, PassedStays
    <3>4. \A p \in Polls : polls'[p].phase = "save" => Head(polls'[p].msgs) \in Kept'
      BY <1>1, <2>1, <2>3, <3>1 DEF HoldInv, In
    <3>5. QED
      BY <1>1, <2>1, <2>3, <3>1, <3>2, <3>3, <3>4, HoldStep
  <2>4. QED
    BY <2>2, <2>3
<1>9. QED
    BY <1>3, <1>4, <1>5, <1>6, <1>7, <1>8 DEF PollingInv

\* The envelopes a poll hands over are those of its messages.
LEMMA HandedOver ==
    ASSUME NEW ms \in Seq(Messages), handleRequest(ms), adding \in Seq(Envelope)
    PROVE  /\ adding' \in Seq(Envelope)
           /\ ToSet(adding) \subseteq ToSet(adding')
           /\ ToSet(ms) \subseteq MessagesOf(ToSet(adding'))
<1> DEFINE Uuid(m) == CHOOSE c \in Unused(m) : TRUE
           new == [i \in DOMAIN ms |-> <<ms[i], Uuid(ms[i])>>]
<1>1. /\ \A i \in DOMAIN ms : Unused(ms[i]) # {} /\ ms[i] \in Messages
      /\ adding' = adding \o new
    BY DEF handleRequest
<1>2. \A i \in DOMAIN ms : Uuid(ms[i]) \in Copies
    BY <1>1 DEF Unused
<1> HIDE DEF Uuid
<1>3. \A i \in DOMAIN ms : /\ <<ms[i], Uuid(ms[i])>> \in Envelope
                          /\ Message(<<ms[i], Uuid(ms[i])>>) = ms[i]
    BY <1>1, <1>2 DEF Envelope, Message
<1>4. DOMAIN ms = 1..Len(ms) /\ Len(ms) \in Nat
    OBVIOUS
<1>5. new \in Seq(Envelope)
    BY <1>3, <1>4
<1>6. ToSet(ms) \subseteq MessagesOf(ToSet(new))
  <2>1. ASSUME NEW m \in ToSet(ms)
        PROVE  m \in MessagesOf(ToSet(new))
    <3>1. PICK i \in DOMAIN ms : m = ms[i]
      BY DEF ToSet
    <3>2. DOMAIN new = DOMAIN ms /\ new[i] = <<ms[i], Uuid(ms[i])>>
      OBVIOUS
    <3>3. new[i] \in ToSet(new)
      BY <3>2 DEF ToSet
    <3> HIDE DEF new
    <3>4. QED
      BY <1>3, <3>1, <3>2, <3>3 DEF MessagesOf
  <2>2. QED
    BY <2>1
<1> HIDE DEF new
<1>7. adding' \in Seq(Envelope) /\ ToSet(adding') = ToSet(adding) \cup ToSet(new)
    BY <1>1, <1>5, ToSetFacts
<1>8. QED
    BY <1>6, <1>7 DEF MessagesOf

LEMMA KeepsHandToReceiver ==
    ASSUME PollingInv, NEW p \in Polls, HandToReceiver(p)
    PROVE  PollingInv'
<1>1. /\ ReceiverTypeOK /\ CommitInv /\ AwaitInv /\ PollInv /\ KindInv /\ HoldInv
      /\ polls \in [Polls -> Poll] /\ polls[p].msgs \in Seq(Messages) /\ adding \in Seq(Envelope)
    BY DEF PollingInv, TypeOK, ReceiverTypeOK, Poll
<1>2. /\ polls[p].phase = "hand" /\ handleRequest(polls[p].msgs)
      /\ polls' = [polls EXCEPT ![p] = Idle]
      /\ UNCHANGED <<unprocessed, envelopeQueue, late, conversation, replayed,
                     outcomes, faults, world, lastHashes, seen, membership, missed>>
    BY DEF HandToReceiver, In, EndPoll
<1>3. kind = "PRIVATE"
    BY <1>2, PhasesNow DEF PhaseOK
<1>4. /\ adding' \in Seq(Envelope)
      /\ ToSet(adding) \subseteq ToSet(adding')
      /\ ToSet(polls[p].msgs) \subseteq MessagesOf(ToSet(adding'))
    BY <1>1, <1>2, HandedOver
<1>5. /\ Idle \in Poll /\ Idle.msgs = <<>> /\ Idle.asked = {} /\ Idle.phase = "idle"
    BY IdleFacts
<1>6. /\ polls' \in [Polls -> Poll] /\ polls'[p] = Idle
      /\ \A q \in Polls : q # p => polls'[q] = polls[q]
      /\ Carried \subseteq Carried' \cup ToSet(polls[p].msgs)
      /\ InHand \subseteq InHand' \cup ToSet(polls[p].msgs)
      /\ Asked' \subseteq Asked
    BY <1>1, <1>2, <1>5, PollMoves
<1>7. ReceiverTypeOK'
    BY <1>1, <1>2, <1>4 DEF ReceiverTypeOK, conversation, outcomes
<1>8. CommitInv'
    BY <1>1, <1>2, CommitStays DEF conversation, outcomes
<1>9. /\ Rows' = Rows /\ Running' = Running
      /\ Concluded' = Concluded /\ stored' = stored
    BY <1>2 DEF Rows, Running, Concluded, conversation, outcomes
<1>10. Waiting' = Waiting /\ Handed' = Handed
    BY <1>2, <1>9 DEF Waiting, Handed, conversation
<1>11. AwaitInv'
    BY <1>1, <1>2, <1>9, <1>10 DEF AwaitInv, outcomes
<1>12. TypeOK'
    BY <1>2, <1>6, <1>7 DEF PollingInv, TypeOK, world, membership
<1>13. PollInv'
    BY <1>1, <1>2, <1>5, PollInvMoves DEF world
<1>14. KindInv'
  <2>1. /\ group = "in" /\ reset = "no"
        /\ \A q \in Polls : ~In(q, "handle") /\ ~In(q, "save")
        /\ \A env \in Waiting : env \in Rows \/ Message(env) \in Concluded
        /\ \A j \in Running : j.phase = "stored" => stored[Message(j.env)] > 0
    BY <1>1, <1>3 DEF KindInv
  <2>2. \A q \in Polls : ~In(q, "handle")' /\ ~In(q, "save")'
    BY <1>5, <1>6, <2>1 DEF In
  <2>3. UNCHANGED <<kind, group, reset>>
    BY <1>2 DEF world, membership
  <2>4. QED
    BY <1>3, <1>9, <1>10, <2>1, <2>2, <2>3 DEF KindInv
<1>15. Kept \subseteq Kept' /\ ToSet(polls[p].msgs) \subseteq Kept'
    BY <1>2, <1>4, <1>9, <1>10 DEF Kept, Entrusted, MessagesOf
<1>16. HoldInv'
  <2>1. reset = "no" /\ UNCHANGED <<reset, swarm, seen, lastHashes>>
    BY <1>1, <1>2, <1>3 DEF KindInv, world, membership
  <2>2. Passed' \subseteq Passed
    BY <1>6, <2>1, PassedStays
  <2>3. \A q \in Polls : polls'[q].phase = "save" => Head(polls'[q].msgs) \in Kept'
    BY <1>1, <1>5, <1>6, <1>15, <2>1 DEF HoldInv, In
  <2>4. QED
    BY <1>1, <1>6, <1>15, <2>1, <2>2, <2>3, HoldStep
<1>17. QED
    BY <1>8, <1>11, <1>12, <1>13, <1>14, <1>16 DEF PollingInv

-----------------------------------------------------------------------------
(* A group's message, handled by its poll *)

\* The message m is concluded, or some code of the receiver has it.
TakenUp(m) ==
    /\ ReceiverTypeOK'
    /\ unprocessed' = <<>> /\ adding' = <<>> /\ envelopeQueue' = <<>>
    /\ UNCHANGED <<job, overdue, stored, exposed>>
    /\ Concluded \subseteq Concluded'
    /\ ToSet(pendingJobs) \subseteq ToSet(pendingJobs')
    /\ late \subseteq late'
    /\ \/ m \in Concluded'
       \/ \E env \in late' \cup ToSet(pendingJobs') : Message(env) = m

LEMMA GroupMessage ==
    ASSUME PollingInv, NEW p \in Polls, handleMessagesForGroupV2(p)
    PROVE  TakenUp(Head(polls[p].msgs))
<1> DEFINE m == Head(polls[p].msgs)
           env == <<m, 1>>
<1>1. /\ ReceiverTypeOK /\ polls[p].phase = "handle" /\ kind # "PRIVATE"
      /\ UNCHANGED <<adding, envelopeQueue, replayed>>
      /\ \/ /\ erred' = erred \cup {m}
            /\ UNCHANGED <<unprocessed, late, conversation, stored, consumed,
                           lost, exposed, faults>>
         \/ innerHandleSwarmContentMessage(env) /\ UNCHANGED late
         \/ TaskTimesOut(env)
  <2>1. kind # "PRIVATE"
    BY PhasesNow DEF handleMessagesForGroupV2, In, PhaseOK
  <2>2. QED
    BY <2>1 DEF PollingInv, TypeOK, handleMessagesForGroupV2, In
<1>2. unprocessed = <<>> /\ adding = <<>> /\ envelopeQueue = <<>>
    BY <1>1 DEF PollingInv, KindInv
<1>3. polls[p].msgs \in Seq(Messages) /\ polls[p].msgs # <<>>
    BY <1>1 DEF PollingInv, TypeOK, Poll, PollInv, In
<1>4. m \in Messages
    BY <1>3, ToSetFacts
<1> HIDE DEF m
<1>5. env \in Envelope /\ Message(env) = m
    BY <1>4, ReceiverAssumption DEF Envelope, Message
<1> HIDE DEF env
<1>6. CASE /\ erred' = erred \cup {m}
           /\ UNCHANGED <<unprocessed, late, conversation, stored, consumed,
                          lost, exposed, faults>>
  <2>1. UNCHANGED <<unprocessed, late, pendingJobs, job, overdue, stored, consumed,
                    lost, exposed, faults>>
    BY <1>6 DEF conversation
  <2>2. ReceiverTypeOK'
    BY <1>1, <1>4, <1>6, <2>1 DEF ReceiverTypeOK
  <2>3. Concluded \subseteq Concluded' /\ m \in Concluded'
    BY <1>6, <2>1 DEF Concluded
  <2>4. QED
    BY <1>1, <1>2, <2>1, <2>2, <2>3 DEF TakenUp, m
<1>7. CASE innerHandleSwarmContentMessage(env) /\ UNCHANGED late
  <2>1. /\ unprocessed' \in Seq(Row)
        /\ pendingJobs' \in Seq(Envelope)
        /\ consumed \subseteq consumed' /\ consumed' \subseteq Messages
        /\ erred \subseteq erred' /\ erred' \subseteq Messages
        /\ faults' \in 0..MaxFaults
        /\ ToSet(pendingJobs) \subseteq ToSet(pendingJobs')
        /\ env \in ToSet(pendingJobs') \/ Message(env) \in consumed' \cup erred'
        /\ unprocessed = <<>> => unprocessed' = <<>>
        /\ UNCHANGED <<job, overdue, stored, lost, exposed>>
    BY <1>1, <1>5, <1>7, HandleContent
  <2>2. ReceiverTypeOK'
    BY <1>1, <1>7, <2>1 DEF ReceiverTypeOK, Row
  <2>3. Concluded \subseteq Concluded'
    BY <2>1 DEF Concluded
  <2>4. m \in Concluded' \/ \E e \in late' \cup ToSet(pendingJobs') : Message(e) = m
    BY <1>5, <2>1 DEF Concluded
  <2>5. QED
    BY <1>1, <1>2, <1>7, <2>1, <2>2, <2>3, <2>4 DEF TakenUp, m
<1>8. CASE TaskTimesOut(env)
  <2>1. /\ UNCHANGED <<unprocessed, pendingJobs, job, overdue, stored, consumed, erred,
                       lost, exposed>>
        /\ late' = late \cup {env} /\ faults' \in 0..MaxFaults
    BY <1>8, FaultFacts DEF TaskTimesOut, conversation, outcomes
  <2>2. ReceiverTypeOK'
    BY <1>1, <1>5, <2>1 DEF ReceiverTypeOK
  <2>3. Concluded' = Concluded
    BY <2>1 DEF Concluded
  <2>4. \E e \in late' \cup ToSet(pendingJobs') : Message(e) = m
    BY <1>5, <2>1
  <2>5. QED
    BY <1>1, <1>2, <2>1, <2>2, <2>3, <2>4 DEF TakenUp, m
<1>9. QED
    BY <1>1, <1>6, <1>7, <1>8

LEMMA KeepsHandleMessagesForGroupV2 ==
    ASSUME PollingInv, NEW p \in Polls, handleMessagesForGroupV2(p)
    PROVE  PollingInv'
<1> DEFINE m == Head(polls[p].msgs)
           r == [polls[p] EXCEPT !.phase = "save"]
<1>1. /\ CommitInv /\ PollInv /\ KindInv /\ HoldInv
      /\ polls \in [Polls -> Poll] /\ polls[p] \in Poll
      /\ polls[p].phase = "handle" /\ polls[p].msgs # <<>>
      /\ UNCHANGED <<replayed, world, lastHashes, seen, membership, missed>>
      /\ polls' = [polls EXCEPT ![p] = r]
    BY DEF PollingInv, TypeOK, PollInv, In, handleMessagesForGroupV2
<1>2. kind # "PRIVATE" /\ unprocessed = <<>> /\ adding = <<>> /\ envelopeQueue = <<>>
  <2>1. kind # "PRIVATE"
    BY <1>1, PhasesNow DEF PhaseOK
  <2>2. QED
    BY <1>1, <2>1 DEF KindInv
<1>3. /\ r \in Poll /\ r.phase = "save" /\ r.msgs = polls[p].msgs /\ r.asked = polls[p].asked
    BY <1>1 DEF Poll
<1> HIDE DEF r
<1>4. TakenUp(m)
    BY GroupMessage
<1>5. /\ polls' \in [Polls -> Poll] /\ polls'[p] = r
      /\ \A q \in Polls : q # p => polls'[q] = polls[q]
      /\ Carried \subseteq Carried'
      /\ InHand \subseteq InHand'
      /\ Asked' \subseteq Asked
  <2>1. polls[p].asked \subseteq Asked
    BY DEF Asked
  <2>2. QED
    BY <1>1, <1>3, <2>1, PollMoves
<1>6. TypeOK'
    BY <1>1, <1>4, <1>5 DEF TakenUp, PollingInv, TypeOK, world, membership
<1>7. CommitInv'
    BY <1>1, <1>4, CommitStays DEF TakenUp
<1>8. Rows' = {} /\ Rows = {}
    BY <1>2, <1>4 DEF TakenUp, Rows
<1>9. AwaitInv'
    BY <1>8 DEF AwaitInv
<1>10. PollInv'
  <2>1. \A a \in r.asked : a.since <= Len(swarm[a.snode])
    BY <1>1, <1>3 DEF PollInv
  <2>2. QED
    BY <1>1, <1>3, <2>1, PollInvMoves DEF world
<1>11. KindInv'
  <2>1. \A q \in Polls : ~In(q, "mark")' /\ ~In(q, "hand")'
    BY <1>1, <1>2, <1>3, <1>5 DEF KindInv, In
  <2>2. QED
    BY <1>1, <1>2, <1>4, <2>1 DEF KindInv, TakenUp, world
<1>12. Kept \subseteq Kept' /\ m \in Kept'
  <2>1. Running' = Running
    BY <1>4 DEF TakenUp, Running
  <2>2. Waiting \subseteq Waiting' /\ ToSet(adding) = ToSet(adding')
    BY <1>2, <1>4, <2>1 DEF TakenUp, Waiting
  <2>3. late' \cup ToSet(pendingJobs') \subseteq Entrusted'
    BY DEF Entrusted, Waiting
  <2>4. Kept \subseteq Kept'
    BY <1>1, <1>4, <1>8, <2>2 DEF Kept, Entrusted, MessagesOf, TakenUp
  <2>5. m \in Kept'
    BY <1>4, <2>3 DEF Kept, MessagesOf, TakenUp
  <2>6. QED
    BY <2>4, <2>5
<1>13. HoldInv'
  <2>1. UNCHANGED <<reset, swarm, seen, lastHashes>>
    BY <1>1 DEF world, membership
  <2>2. CASE reset # "no"
    BY <2>1, <2>2 DEF HoldInv
  <2>3. CASE reset = "no"
    <3>1. Passed' \subseteq Passed
      BY <1>5, <2>1, PassedStays
    <3>2. ASSUME NEW q \in Polls, polls'[q].phase = "save"
          PROVE  Head(polls'[q].msgs) \in Kept'
      <4>1. CASE q = p
        BY <1>3, <1>5, <1>12, <4>1
      <4>2. CASE q # p
        BY <1>1, <1>5, <1>12, <2>3, <3>2, <4>2 DEF HoldInv, In
      <4>3. QED
        BY <4>1, <4>2
    <3>3. QED
      BY <1>1, <1>5, <1>12, <2>1, <2>3, <3>1, <3>2, HoldStep
  <2>4. QED
    BY <2>2, <2>3
<1>14. QED
    BY <1>6, <1>7, <1>9, <1>10, <1>11, <1>13 DEF PollingInv

-----------------------------------------------------------------------------
(* Leaving, rejoining, and what forgets the hashes *)

\* What is fetched is a message of the swarm.
LEMMA FetchedMessages ==
    ASSUME PollingInv
    PROVE  Fetched \subseteq Messages
<1>1. /\ polls \in [Polls -> Poll] /\ swarm \in [Snodes -> Seq(Messages)]
      /\ lastHashes \in [Snodes -> Nat] /\ \A s \in Snodes : lastHashes[s] <= Len(swarm[s])
      /\ \A p \in Polls : \A r \in polls[p].asked : r.since <= Len(swarm[r.snode])
    BY DEF PollingInv, TypeOK, PollInv
<1>2. \A p \in Polls : /\ polls[p].msgs \in Seq(Messages)
                      /\ \A r \in polls[p].asked : r.snode \in Snodes /\ r.since \in Nat
  <2>1. \A p \in Polls : polls[p].asked \in SUBSET [snode : Snodes, since : Nat]
    BY <1>1 DEF Poll
  <2>2. QED
    BY <1>1, <2>1 DEF Poll
<1>3. Carried \subseteq Messages
    BY <1>2, ToSetFacts DEF Carried
<1>4. ASSUME NEW s \in Snodes, NEW k \in Nat, k <= Len(swarm[s])
      PROVE  Before(s, k) \subseteq Messages
  <2>1. swarm[s] \in Seq(Messages)
    BY <1>1
  <2>2. \A i \in 1..k : swarm[s][i] \in Messages
    BY <1>4, <2>1
  <2> DEFINE before == SubSeq(swarm[s], 1, k)
  <2>3. before \in Seq(Messages) /\ Before(s, k) = ToSet(before)
    BY <2>2, SubSeqProperties DEF Before
  <2> HIDE DEF before
  <2>4. QED
    BY <2>3, ToSetFacts
<1>5. ASSUME NEW m \in Passed
      PROVE  m \in Messages
  <2>1. CASE \E s \in Snodes : m \in Before(s, lastHashes[s])
    BY <1>1, <1>4, <2>1
  <2>2. CASE \E r \in Asked : m \in Before(r.snode, r.since)
    <3>1. PICK r \in Asked : m \in Before(r.snode, r.since)
      BY <2>2
    <3>2. r.snode \in Snodes /\ r.since \in Nat /\ r.since <= Len(swarm[r.snode])
      BY <1>1, <1>2 DEF Asked
    <3>3. QED
      BY <1>4, <3>1, <3>2
  <2>3. QED
    BY <2>1, <2>2, PassedFacts
<1>6. QED
    BY <1>3, <1>5 DEF Fetched

\* A step of the membership of a group: no poll and nothing of the receiver moves.
LEMMA GroupKeeps ==
    ASSUME PollingInv, Still, faults' \in 0..MaxFaults, UNCHANGED <<world, polls>>,
           kind # "PRIVATE",
           lastHashes' \in [Snodes -> Nat], \A s \in Snodes : lastHashes'[s] <= Len(swarm[s]),
           seen' \subseteq Messages, missed' \subseteq Messages,
           group' \in {"in"} \cup Leaving \cup Out, reset' \in {"no", "lastHashes", "seen"},
           HoldInv'
    PROVE  PollingInv'
<1>1. ReceiverTypeOK' /\ CommitInv' /\ AwaitInv'
    BY ReceiverStill DEF PollingInv, TypeOK
<1>2. TypeOK'
    BY <1>1 DEF PollingInv, TypeOK, world
<1>3. PollInv'
    BY DEF PollingInv, PollInv, In, world
<1>4. KindInv'
    BY KindStill, PhasesNow DEF world, PhaseOK
<1>5. QED
    BY <1>1, <1>2, <1>3, <1>4 DEF PollingInv

\* Only a group is left, or has its hashes forgotten.
LEMMA OnlyGroups ==
    ASSUME PollingInv, group # "in" \/ reset # "no"
    PROVE  kind # "PRIVATE"
BY DEF PollingInv, KindInv

LEMMA KeepsDeleteGroup ==
    ASSUME PollingInv, deleteGroup
    PROVE  PollingInv'
<1>1. /\ kind # "PRIVATE" /\ reset' = "lastHashes" /\ group' \in Leaving
      /\ stored' = [m \in Messages |-> 0] /\ faults' \in 0..MaxFaults
      /\ UNCHANGED <<unprocessed, queues, conversation, replayed, consumed, erred,
                     lost, exposed, world, lastHashes, seen, polls, missed>>
    BY FaultFacts DEF deleteGroup
<1>2. /\ ReceiverTypeOK /\ CommitInv /\ AwaitInv /\ PollInv /\ KindInv
    BY DEF PollingInv, TypeOK
<1>3. ReceiverTypeOK'
  <2>1. stored' \in [Messages -> Nat]
    BY <1>1
  <2>2. QED
    BY <1>1, <1>2, <2>1 DEF ReceiverTypeOK, queues, conversation
<1>4. TypeOK'
    BY <1>1, <1>3 DEF PollingInv, TypeOK, world
<1>5. CommitInv'
  <2>1. /\ IsFiniteSet(overdue) /\ \A i, j \in job : i = j
        /\ UNCHANGED <<job, overdue, exposed>>
    BY <1>1, <1>2 DEF CommitInv, conversation
  <2>2. ASSUME NEW m \in Messages
        PROVE  /\ Cardinality(Checked(m, overdue)) <= exposed[m]
               /\ stored'[m] + Cardinality(Checked(m, overdue)) + Cardinality(Checked(m, job))
                    <= 1 + exposed[m]
    <3> DEFINE o == Cardinality(Checked(m, overdue))
               now == Cardinality(Checked(m, job))
    <3>1. /\ o <= exposed[m]
          /\ stored[m] + o + now <= 1 + exposed[m]
      BY <1>2 DEF CommitInv
    <3>2. o \in Nat /\ now \in Nat
      BY <1>2, <2>1, CheckedFacts, JobIsFinite
    <3>3. stored[m] \in Nat /\ exposed[m] \in Nat /\ stored'[m] = 0
      BY <1>1, <1>2 DEF ReceiverTypeOK
    <3> HIDE DEF o, now
    <3>4. o <= exposed[m] /\ stored'[m] + o + now <= 1 + exposed[m]
      BY <3>1, <3>2, <3>3
    <3>5. QED
      BY <3>4 DEF o, now
  <2>3. QED
    BY <2>1, <2>2 DEF CommitInv, Checked
<1>6. AwaitInv'
    BY <1>1, <1>2 DEF AwaitInv, Rows, Handed, Running, queues, conversation
<1>7. PollInv'
    BY <1>1, <1>2 DEF PollInv, In, world
<1>8. KindInv'
    BY <1>1, <1>2 DEF KindInv, In, world, queues
<1>9. HoldInv'
    BY <1>1 DEF HoldInv
<1>10. QED
    BY <1>4, <1>5, <1>6, <1>7, <1>8, <1>9 DEF PollingInv

LEMMA KeepsPromote ==
    ASSUME PollingInv, handleGroupUpdatePromoteMessage
    PROVE  PollingInv'
<1>1. /\ kind # "PRIVATE" /\ reset' = "lastHashes" /\ faults' \in 0..MaxFaults
      /\ UNCHANGED <<unprocessed, queues, conversation, replayed, outcomes,
                     world, lastHashes, seen, polls, group, missed>>
    BY FaultFacts DEF handleGroupUpdatePromoteMessage
<1>2. Still /\ HoldInv'
    BY <1>1 DEF Still, HoldInv
<1>3. QED
    BY <1>1, <1>2, GroupKeeps DEF PollingInv, TypeOK

LEMMA KeepsResetLastHashes ==
    ASSUME PollingInv, resetLastHashes
    PROVE  PollingInv'
<1>1. /\ reset = "lastHashes" /\ reset' = "seen" /\ lastHashes' = [s \in Snodes |-> 0]
      /\ UNCHANGED <<receiverVars, world, seen, polls, group, missed>>
    BY DEF resetLastHashes
<1>2. Still /\ HoldInv' /\ faults' \in 0..MaxFaults
    BY <1>1, ReceiverUnchanged DEF HoldInv
<1>3. lastHashes' \in [Snodes -> Nat] /\ \A s \in Snodes : lastHashes'[s] <= Len(swarm[s])
  <2>1. \A s \in Snodes : Len(swarm[s]) \in Nat
    BY DEF PollingInv, TypeOK
  <2>2. QED
    BY <1>1, <2>1
<1>4. kind # "PRIVATE"
    BY <1>1, OnlyGroups
<1>5. QED
    BY <1>1, <1>2, <1>3, <1>4, GroupKeeps DEF PollingInv, TypeOK

LEMMA KeepsEmptySeenMessageHashes ==
    ASSUME PollingInv, emptySeenMessageHashes
    PROVE  PollingInv'
<1>1. /\ reset = "seen" /\ reset' = "no" /\ seen' = {} /\ missed' = missed \cup Fetched
      /\ UNCHANGED <<receiverVars, world, lastHashes, polls, group>>
    BY DEF emptySeenMessageHashes
<1>2. Still /\ faults' \in 0..MaxFaults
    BY <1>1, ReceiverUnchanged
<1>3. Fetched \subseteq Kept'
    BY <1>1 DEF Kept
<1>4. HoldInv'
  <2>1. Passed' \subseteq Passed
    BY <1>1, PassedStays DEF Asked, world
  <2>2. Passed \subseteq Fetched /\ Carried \subseteq Fetched
    BY DEF Fetched
  <2>3. ASSUME NEW p \in Polls, polls[p].phase = "save"
        PROVE  Head(polls[p].msgs) \in Carried
    <3>1. polls[p].msgs \in Seq(Messages) /\ polls[p].msgs # <<>>
      BY <2>3 DEF PollingInv, TypeOK, Poll, PollInv, In
    <3>2. Head(polls[p].msgs) \in ToSet(polls[p].msgs)
      BY <3>1, ToSetFacts
    <3>3. QED
      BY <3>2 DEF Carried
  <2>4. QED
    BY <1>1, <1>3, <2>1, <2>2, <2>3 DEF HoldInv, In
<1>5. kind # "PRIVATE"
    BY <1>1, OnlyGroups
<1>6. missed' \subseteq Messages /\ seen' \subseteq Messages
    BY <1>1, FetchedMessages DEF PollingInv, TypeOK
<1>7. QED
    BY <1>1, <1>2, <1>4, <1>5, <1>6, GroupKeeps DEF PollingInv, TypeOK

\* Only the group's state changes: what is accounted for does not.
LEMMA GroupMoves ==
    ASSUME PollingInv, group # "in", group' \in {"in"} \cup Leaving \cup Out,
           UNCHANGED <<receiverVars, world, lastHashes, seen, polls, reset, missed>>
    PROVE  PollingInv'
<1>1. Still /\ faults' \in 0..MaxFaults
    BY ReceiverUnchanged
<1>2. HoldInv'
  <2>1. Kept \subseteq Kept'
    BY <1>1, ReceiverStill DEF PollingInv, TypeOK
  <2>2. UNCHANGED <<swarm, lastHashes, seen, polls, reset>>
    BY DEF world
  <2>3. Passed' \subseteq Passed
    BY <2>2, PassedStays DEF Asked
  <2>4. Carried' = Carried /\ InHand' = InHand
    BY <2>2 DEF Carried, InHand, In
  <2>5. QED
    BY <2>1, <2>2, <2>3, <2>4 DEF PollingInv, HoldInv, In
<1>3. kind # "PRIVATE"
    BY OnlyGroups
<1>4. QED
    BY <1>1, <1>2, <1>3, GroupKeeps DEF PollingInv, TypeOK

LEMMA KeepsMembership ==
    ASSUME PollingInv, Membership
    PROVE  PollingInv'
<1>1. CASE FreeGroup
  <2>1. /\ group # "in" /\ group' \in Out
        /\ UNCHANGED <<receiverVars, world, lastHashes, seen, polls, reset, missed>>
    BY <1>1 DEF FreeGroup, Leaving, Out
  <2>2. QED
    BY <2>1, GroupMoves
<1>2. CASE Rejoin
    BY <1>2, GroupMoves DEF Rejoin, Out
<1>3. QED
    BY <1>1, <1>2, KeepsDeleteGroup, KeepsPromote, KeepsResetLastHashes,
       KeepsEmptySeenMessageHashes DEF Membership

-----------------------------------------------------------------------------
(* The process ends and starts again *)

LEMMA CrashKept ==
    ASSUME PollingInv, Crash
    PROVE  /\ Kept \subseteq Kept'
           /\ Carried \subseteq missed'
           /\ reset # "no" => seen \cup Fetched \subseteq missed'
<1>1. /\ Rows' = Rows
      /\ Concluded \subseteq Concluded'
      /\ MessagesOf(ToSet(adding)) \subseteq Concluded'
      /\ kind # "PRIVATE" => MessagesOf(InMemory) \subseteq Concluded'
      /\ missed' = missed \cup Carried \cup (IF reset = "no" THEN {} ELSE seen \cup Fetched)
    BY DEF Crash, EndOfReceiver, Rows, Concluded, MessagesOf
<1>2. ASSUME NEW env \in Waiting
      PROVE  env \in Rows \/ Message(env) \in Concluded'
  <2>1. CASE kind = "PRIVATE"
    BY <1>1, <2>1 DEF PollingInv, KindInv
  <2>2. CASE kind # "PRIVATE"
    <3>1. env \in InMemory
      BY DEF Waiting, InMemory, Handed
    <3>2. QED
      BY <1>1, <2>2, <3>1 DEF MessagesOf
  <2>3. QED
    BY <2>1, <2>2
<1>3. \A env \in Entrusted : env \in Entrusted' \/ Message(env) \in Concluded'
    BY <1>1, <1>2 DEF Entrusted, MessagesOf
<1>4. Kept \subseteq Kept'
    BY <1>1, <1>3 DEF Kept, MessagesOf
<1>5. QED
    BY <1>1, <1>4

LEMMA KeepsCrash ==
    ASSUME PollingInv, Crash
    PROVE  PollingInv'
<1>1. /\ ReceiverTypeOK /\ CommitInv /\ KindInv /\ HoldInv
      /\ seen \subseteq Messages /\ missed \subseteq Messages
      /\ group \in {"in"} \cup Leaving \cup Out
    BY DEF PollingInv, TypeOK
<1>2. /\ adding' = <<>> /\ envelopeQueue' = <<>> /\ late' = {} /\ pendingJobs' = <<>>
      /\ job' = {} /\ overdue' = {} /\ replayed' = FALSE
      /\ UNCHANGED <<unprocessed, stored, consumed, erred, exposed>>
      /\ polls' = [p \in Polls |-> Idle] /\ reset' = "no"
      /\ UNCHANGED <<kind, swarm, lastHashes, seen>>
      /\ faults' \in 0..MaxFaults
    BY FaultFacts DEF Crash, EndOfReceiver, world
<1>3. /\ Kept \subseteq Kept'
      /\ Carried \subseteq missed'
      /\ reset # "no" => seen \cup Fetched \subseteq missed'
    BY CrashKept
<1>4. /\ Idle \in Poll /\ Idle.msgs = <<>> /\ Idle.asked = {} /\ Idle.phase = "idle"
    BY IdleFacts
<1>5. polls' \in [Polls -> Poll] /\ \A p \in Polls : polls'[p] = Idle
    BY <1>2, <1>4
<1>6. lost' \subseteq Messages
  <2>1. InMemory \subseteq Envelope /\ ToSet(adding) \subseteq Envelope
    <3>1. \A s \in Seq(Envelope) : ToSet(s) \subseteq Envelope
      BY ToSetFacts
    <3>2. QED
      BY <1>1, <3>1 DEF ReceiverTypeOK, InMemory, Handed, Running, Job
  <2>2. \A rowless : rowless \subseteq Envelope =>
            MessagesOf(ToSet(adding) \cup rowless) \subseteq Messages
    BY <2>1, EnvelopeFacts DEF MessagesOf
  <2>3. \E rowless : /\ rowless \subseteq Envelope
                    /\ lost' = lost \cup MessagesOf(ToSet(adding) \cup rowless)
    BY <2>1 DEF Crash, EndOfReceiver
  <2>4. QED
    BY <1>1, <2>2, <2>3 DEF ReceiverTypeOK
<1>7. ReceiverTypeOK'
  <2>1. Cardinality({}) <= 1 /\ <<>> \in Seq(Envelope)
    BY AtMostOneJob
  <2>2. QED
    BY <1>1, <1>2, <1>6, <2>1 DEF ReceiverTypeOK
<1>8. TypeOK'
  <2>1. missed' \subseteq Messages
    <3>1. Carried \subseteq Fetched
      BY DEF Fetched
    <3>2. QED
      BY <1>1, <3>1, FetchedMessages DEF Crash
  <2>2. group' \in {"in"} \cup Leaving \cup Out
    BY <1>1 DEF Crash, Leaving, Out
  <2>3. QED
    BY <1>2, <1>5, <1>7, <2>1, <2>2 DEF PollingInv, TypeOK
<1>9. CommitInv'
  <2>1. stored \in [Messages -> Nat] /\ exposed \in [Messages -> Nat]
    BY <1>1 DEF ReceiverTypeOK
  <2>2. ASSUME NEW m \in Messages
        PROVE  stored[m] <= 1 + exposed[m]
    <3>1. Cardinality(Checked(m, overdue)) \in Nat /\ Cardinality(Checked(m, job)) \in Nat
      BY <1>1, CheckedFacts, JobIsFinite DEF CommitInv
    <3>2. stored[m] + Cardinality(Checked(m, overdue)) + Cardinality(Checked(m, job))
            <= 1 + exposed[m]
      BY <1>1 DEF CommitInv
    <3>3. QED
      BY <2>1, <3>1, <3>2
  <2>3. QED
    BY <1>2, <2>1, <2>2, CommitNone
<1>10. AwaitInv'
    BY <1>2 DEF AwaitInv
<1>11. PollInv'
    BY <1>4, <1>5 DEF PollInv, In
<1>12. KindInv'
  <2>1. Waiting' = {} /\ Running' = {}
    <3>1. Running' = {}
      BY <1>2 DEF Running
    <3>2. QED
      BY <1>2, <3>1 DEF Waiting, ToSet
  <2>2. \A p \in Polls : ~In(p, "handle")' /\ ~In(p, "save")' /\ ~In(p, "mark")' /\ ~In(p, "hand")'
    BY <1>4, <1>5 DEF In
  <2>3. group = "in" => group' = "in"
    BY DEF Crash
  <2>4. QED
    BY <1>1, <1>2, <2>1, <2>2, <2>3 DEF KindInv
<1>13. HoldInv'
  <2>1. Passed' \subseteq Passed
    <3>1. Asked' = {}
      BY <1>4, <1>5 DEF Asked
    <3>2. QED
      BY <1>2, <3>1, PassedStays
  <2>2. InHand \subseteq Carried
    BY DEF InHand, Carried
  <2>3. missed' \subseteq Kept'
    BY DEF Kept
  <2>4. seen' \subseteq Kept' /\ Passed' \subseteq seen' \cup Kept'
    <3>1. CASE reset = "no"
      BY <1>1, <1>2, <1>3, <2>1, <2>2, <2>3, <3>1 DEF HoldInv
    <3>2. CASE reset # "no"
      BY <1>2, <1>3, <2>1, <2>3, <3>2 DEF Fetched
    <3>3. QED
      BY <3>1, <3>2
  <2>5. \A p \in Polls : ~In(p, "save")'
    BY <1>4, <1>5 DEF In
  <2>6. QED
    BY <2>4, <2>5 DEF HoldInv
<1>14. QED
    BY <1>8, <1>9, <1>10, <1>11, <1>12, <1>13 DEF PollingInv

-----------------------------------------------------------------------------
(* The first state, and every step *)

LEMMA OrdersAreSequences == Orders \subseteq Seq(Messages)
<1>1. ASSUME NEW S \in SUBSET Messages, NEW f \in SetToSeqs(S)
      PROVE  f \in Seq(Messages)
  <2>1. Cardinality(S) \in Nat
    BY ReceiverAssumption, FS_Subset, FS_CardinalityType
  <2>2. f \in [1..Cardinality(S) -> S]
    BY DEF SetToSeqs
  <2>3. f \in [1..Cardinality(S) -> Messages]
    BY <2>2
  <2>4. QED
    BY <2>1, <2>3
<1>2. QED
    BY <1>1 DEF Orders, SetToAllKPermutations

LEMMA PollingInit == Init => PollingInv
<1> SUFFICES ASSUME Init PROVE PollingInv
    OBVIOUS
<1>1. /\ unprocessed = <<>> /\ adding = <<>> /\ envelopeQueue = <<>> /\ late = {}
      /\ pendingJobs = <<>> /\ job = {} /\ overdue = {} /\ replayed = FALSE
      /\ stored = [m \in Messages |-> 0] /\ consumed = {} /\ erred = {} /\ lost = {}
      /\ exposed = [m \in Messages |-> 0] /\ faults = 0
      /\ kind \in Kinds /\ swarm \in [Snodes -> Orders]
      /\ lastHashes = [s \in Snodes |-> 0] /\ seen = {}
      /\ polls = [p \in Polls |-> Idle]
      /\ group = "in" /\ reset = "no" /\ missed = {}
    BY DEF Init, ReceiverInit
<1>2. /\ Idle \in Poll /\ Idle.msgs = <<>> /\ Idle.asked = {} /\ Idle.phase = "idle"
    BY IdleFacts
<1>3. polls \in [Polls -> Poll] /\ \A p \in Polls : polls[p] = Idle
    BY <1>1, <1>2
<1>4. /\ swarm \in [Snodes -> Seq(Messages)] /\ lastHashes \in [Snodes -> Nat]
      /\ \A s \in Snodes : lastHashes[s] = 0 /\ Len(swarm[s]) \in Nat
    BY <1>1, OrdersAreSequences
<1>5. ReceiverTypeOK
  <2>1. Cardinality({}) <= 1 /\ <<>> \in Seq(Envelope)
    BY AtMostOneJob
  <2>2. <<>> \in Seq([env : Envelope, attempts : 1..MaxAttempts]) /\ 0 \in 0..MaxFaults
    BY ReceiverAssumption
  <2>3. QED
    BY <1>1, <2>1, <2>2 DEF ReceiverTypeOK
<1>6. TypeOK
  <2>1. \A s \in Snodes : lastHashes[s] <= Len(swarm[s])
    BY <1>4
  <2>2. QED
    BY <1>1, <1>3, <1>4, <1>5, <2>1 DEF TypeOK
<1>7. CommitInv
  <2>1. \A m \in Messages : Cardinality(Checked(m, {})) = 0 /\ stored[m] = 0 /\ exposed[m] = 0
    BY <1>1, CheckedOne
  <2>2. QED
    BY <1>1, <2>1, FS_EmptySet DEF CommitInv
<1>8. AwaitInv
    BY <1>1 DEF AwaitInv
<1>9. PollInv
    BY <1>2, <1>3 DEF PollInv, In
<1>10. KindInv
  <2>1. Waiting = {} /\ Running = {}
    <3>1. Running = {}
      BY <1>1 DEF Running
    <3>2. QED
      BY <1>1, <3>1 DEF Waiting, ToSet
  <2>2. \A p \in Polls : ~In(p, "handle") /\ ~In(p, "save") /\ ~In(p, "mark") /\ ~In(p, "hand")
    BY <1>2, <1>3 DEF In
  <2>3. QED
    BY <1>1, <2>1, <2>2 DEF KindInv
<1>11. HoldInv
  <2>1. Passed = {}
    <3>1. \A s \in Snodes : Before(s, lastHashes[s]) = {}
      <4>1. \A s \in Snodes : SubSeq(swarm[s], 1, 0) = <<>>
        BY <1>4, SubSeqProperties
      <4>2. QED
        BY <1>4, <4>1 DEF Before, ToSet
    <3>2. Asked = {}
      BY <1>2, <1>3 DEF Asked
    <3>3. QED
      BY <3>1, <3>2, PassedFacts
  <2>2. \A p \in Polls : ~In(p, "save")
    BY <1>2, <1>3 DEF In
  <2>3. QED
    BY <1>1, <2>1, <2>2 DEF HoldInv
<1>12. QED
    BY <1>6, <1>7, <1>8, <1>9, <1>10, <1>11 DEF PollingInv

LEMMA PollingStutters ==
    ASSUME PollingInv, UNCHANGED vars
    PROVE  PollingInv'
<1>1. UNCHANGED <<receiverVars, world, lastHashes, seen, polls, membership, missed>>
    BY DEF vars
<1>2. Still /\ faults' \in 0..MaxFaults
    BY <1>1, ReceiverUnchanged
<1>3. ReceiverTypeOK' /\ CommitInv' /\ AwaitInv' /\ Kept \subseteq Kept'
    BY <1>1, <1>2, ReceiverStill DEF PollingInv, TypeOK
<1>4. TypeOK'
    BY <1>1, <1>3 DEF PollingInv, TypeOK, world, membership
<1>5. PollInv'
    BY <1>1 DEF PollingInv, PollInv, In, world
<1>6. KindInv'
    BY <1>1, <1>2, KindStill, PhasesNow DEF PhaseOK, world, membership, PollingInv, KindInv
<1>7. HoldInv'
  <2>1. UNCHANGED <<swarm, lastHashes, seen, polls, reset>>
    BY <1>1 DEF world, membership
  <2>2. Passed' \subseteq Passed
    BY <2>1, PassedStays DEF Asked
  <2>3. Carried' = Carried /\ InHand' = InHand
    BY <2>1 DEF Carried, InHand, In
  <2>4. QED
    BY <1>3, <2>1, <2>2, <2>3 DEF PollingInv, HoldInv, In
<1>8. QED
    BY <1>3, <1>4, <1>5, <1>6, <1>7 DEF PollingInv

LEMMA PollingNext == PollingInv /\ [Next]_vars => PollingInv'
<1> SUFFICES ASSUME PollingInv, [Next]_vars PROVE PollingInv'
    OBVIOUS
<1>1. CASE ReceiverStep
    BY <1>1, KeepsReceiverStep
<1>2. CASE Membership
    BY <1>2, KeepsMembership
<1>3. CASE Crash
    BY <1>3, KeepsCrash
<1>4. ASSUME NEW p \in Polls,
             pollOnceForKey(p) \/ PollStep(p) \/ RequestFails(p) \/ PollThrows(p)
      PROVE  PollingInv'
  <2>1. CASE PollStep(p)
    BY <2>1, KeepsPollNodeForKey, KeepsShouldLeave, KeepsHandleSeenMessages,
       KeepsUpdateSeenMessages, KeepsHandToReceiver, KeepsHandleMessagesForGroupV2,
       KeepsSaveSeen DEF PollStep
  <2>2. QED
    BY <1>4, <2>1, KeepsPollOnceForKey, KeepsRequestFails, KeepsPollThrows
<1>5. CASE UNCHANGED vars
    BY <1>5, PollingStutters
<1>6. QED
    BY <1>1, <1>2, <1>3, <1>4, <1>5 DEF Next

-----------------------------------------------------------------------------
(* What follows of every behaviour *)

\* The inductive invariant of the polls and the receiver holds in every state,
\* for any number of nodes, messages, polls, copies and failures.
THEOREM PollingInvariant == Spec => []PollingInv
BY PollingInit, PollingNext, PTL DEF Spec

\* The variables of the polls, the cache, the queues and the outcomes keep their
\* types; a last hash never passes what its node has (pollNodeForKey), and one
\* job of the conversation runs at a time (Conversation.queueJob).
THEOREM TypeCorrect == Spec => []TypeOK
<1>1. PollingInv => TypeOK
    BY DEF PollingInv
<1>2. QED
    BY <1>1, PollingInvariant, PTL

\* What is accounted for is handled, held, or one of the losses.
LEMMA KeptIsHeld ==
    ASSUME NEW m \in Kept
    PROVE  Handled(m) \/ Held(m) \/ m \in lost \cup erred \cup missed
<1>1. Entrusted \subseteq Known
    BY DEF Entrusted, Waiting, Known, InMemory, Handed
<1>2. QED
    BY <1>1 DEF Kept, Concluded, Handled, Held, MessagesOf

\* What is marked as seen (updateSeenMessages before handleRequest, the finally of
\* handleMessagesForGroupV2) is never taken again by a poll: the message is
\* handled, or some code or a row of the cache holds it, or it is a logged loss.
THEOREM SeenHeld == Spec => []SeenIsHeld
<1>1. PollingInv => SeenIsHeld
  <2> SUFFICES ASSUME PollingInv, reset = "no", NEW m \in seen
               PROVE  Handled(m) \/ Held(m) \/ m \in lost \cup erred \cup missed
    BY DEF SeenIsHeld
  <2>1. m \in Kept \cup InHand
    BY DEF PollingInv, HoldInv
  <2>2. m \in InHand => Held(m)
    BY DEF InHand, Held
  <2>3. QED
    BY <2>1, <2>2, KeptIsHeld
<1>2. QED
    BY <1>1, PollingInvariant, PTL

\* What the last hash of a node is past is not asked for again (pollNodeForKey
\* stores it before the reply is handled): such a message is seen, handled, held
\* or a logged loss, whatever polls overlap and wherever one of them stops.
THEOREM FetchedHeld == Spec => []FetchedIsHeld
<1>1. PollingInv => FetchedIsHeld
  <2> SUFFICES ASSUME PollingInv, reset = "no",
                      NEW s \in Snodes, NEW m \in Before(s, lastHashes[s])
               PROVE  m \in seen \/ Handled(m) \/ Held(m) \/ m \in lost \cup erred \cup missed
    BY DEF FetchedIsHeld
  <2>1. m \in Passed
    BY PassedFacts
  <2>2. m \in seen \cup Kept \cup Carried
    BY <2>1 DEF PollingInv, HoldInv
  <2>3. m \in Carried => Held(m)
    BY DEF Carried, Held
  <2>4. QED
    BY <2>2, <2>3, KeptIsHeld
<1>2. QED
    BY <1>1, PollingInvariant, PTL

\* A message gets one row (isSwarmMessageDuplicate, then the commit of
\* handleMessageJob), and one more only for a check that was rejected or a job
\* that outlived its three minutes, whatever is fetched, queued or replayed twice.
THEOREM CommittedOnce == Spec => []StoredOnce
<1>1. PollingInv => StoredOnce
  <2> SUFFICES ASSUME PollingInv, NEW m \in Messages
               PROVE  stored[m] <= 1 + exposed[m]
    BY DEF StoredOnce
  <2>1. CommitInv /\ stored[m] \in Nat /\ exposed[m] \in Nat
    BY DEF PollingInv, TypeOK, ReceiverTypeOK
  <2>2. Cardinality(Checked(m, overdue)) \in Nat /\ Cardinality(Checked(m, job)) \in Nat
    BY <2>1, CheckedFacts, JobIsFinite DEF CommitInv
  <2>3. stored[m] + Cardinality(Checked(m, overdue)) + Cardinality(Checked(m, job))
          <= 1 + exposed[m]
    BY <2>1 DEF CommitInv
  <2>4. QED
    BY <2>1, <2>2, <2>3
<1>2. QED
    BY <1>1, PollingInvariant, PTL

\* A row of the cache is waiting for an envelope in memory, for the queueAllCached
\* of this process, or, after an error, for the next one: no row is left that the
\* program would handle again at every start.
THEOREM RowsAwaited == Spec => []RowIsAwaited
<1>1. PollingInv => RowIsAwaited
  <2> SUFFICES ASSUME PollingInv, NEW i \in DOMAIN unprocessed
               PROVE  \/ unprocessed[i].env \in InMemory
                      \/ Message(unprocessed[i].env) \in erred
                      \/ ~replayed
    BY DEF RowIsAwaited
  <2>1. unprocessed[i].env \in Rows
    BY DEF Rows
  <2>2. QED
    BY <2>1 DEF PollingInv, AwaitInv, InMemory
<1>2. QED
    BY <1>1, PollingInvariant, PTL
=============================================================================
