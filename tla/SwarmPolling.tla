---------------------------- MODULE SwarmPolling ----------------------------
(***************************************************************************)
(* The polls of one public key: SwarmPolling                               *)
(* (session/apis/snode_api/swarmPolling.ts), composed with the Receiver    *)
(* its messages go to.  The key is our own (PRIVATE) or a group (GROUPV2). *)
(*                                                                         *)
(* A service node keeps the messages of the key in the order it got them;  *)
(* a last hash is the number of messages up to it, 0 when there is none.   *)
(* A reply may stop at any message: what follows is over its limit, or     *)
(* reaches the node later.                                                 *)
(* The copy of a last hash in memory follows its row: both change between  *)
(* the same two awaits, so they are one variable.  A poll is a slot; two   *)
(* polls of a key overlap when the poll of another key threw, which starts *)
(* the next round while this one runs.  Config messages are not modelled   *)
(* here; what merging them does to a group is deleteGroup.                 *)
(***************************************************************************)
EXTENDS Receiver

CONSTANTS
    Kinds,          \* kinds of key to explore: a subset of {"PRIVATE", "GROUPV2"}
    Snodes,         \* the swarm of the key
    SampleSize,     \* RETRIEVE_SNODES_COUNT: 2 in the code
    Polls           \* bound: polls of the key that overlap

ASSUME SwarmPollingAssumption ==
    /\ Kinds \subseteq {"PRIVATE", "GROUPV2"}
    /\ SampleSize \in 1..Cardinality(Snodes)

VARIABLES
    kind,         \* the type of the conversation that is polled
    swarm,        \* the messages a node of the swarm has, oldest first
    lastHashes,   \* the last hash of a node
    seen,         \* the table of seen message hashes
    polls,        \* the polls under way
    group,        \* "in"; "kicked" (in the wrapper) or "left", being deleted;
                  \* "kickedOut" or "leftOut" once its own wrapper is freed
    reset,        \* resetLastHashesForConversation: what it clears next
    missed        \* history: messages fetched by a poll that dropped them

world == <<kind, swarm>>
membership == <<group, reset>>
vars == <<receiverVars, world, lastHashes, seen, polls, membership, missed>>

Idle == [phase |-> "idle", asked |-> {}, msgs |-> <<>>]

Leaving == {"kicked", "left"}
Out == {"kickedOut", "leftOut"}

Poll ==
    [phase : {"idle", "fetch", "check", "filter", "mark", "hand", "handle", "save"},
     asked : SUBSET [snode : Snodes, since : Nat],
     msgs : Seq(Messages)]

TypeOK ==
    /\ ReceiverTypeOK
    /\ kind \in Kinds
    /\ swarm \in [Snodes -> Seq(Messages)]
    /\ lastHashes \in [Snodes -> Nat]
    /\ \A s \in Snodes : lastHashes[s] <= Len(swarm[s])
    /\ seen \subseteq Messages
    /\ polls \in [Polls -> Poll]
    /\ group \in {"in"} \cup Leaving \cup Out
    /\ reset \in {"no", "lastHashes", "seen"}
    /\ missed \subseteq Messages

\* what a node may have, in the order it got it
Orders == SetToAllKPermutations(Messages)

Init ==
    /\ ReceiverInit
    /\ kind \in Kinds
    /\ swarm \in [Snodes -> Orders]
    /\ lastHashes = [s \in Snodes |-> 0]
    /\ seen = {}
    /\ polls = [p \in Polls |-> Idle]
    /\ group = "in" /\ reset = "no"
    /\ missed = {}

-----------------------------------------------------------------------------
(* Fetching *)

\* the messages a node asked after a last hash does not send
Before(s, since) == ToSet(SubSeq(swarm[s], 1, since))

In(p, phase) == polls[p].phase = phase

\* poll p goes on with msgs, or is over when none is left
Proceed(p, phase, msgs) ==
    polls' = [polls EXCEPT ![p] =
        IF msgs = <<>> THEN Idle ELSE [phase |-> phase, asked |-> {}, msgs |-> msgs]]

EndPoll(p) == polls' = [polls EXCEPT ![p] = Idle]

\* The last hash of a node is read when it is asked.
pollOnceForKey(p) ==
    /\ In(p, "idle")
    /\ group = "in"
    /\ \E sample \in kSubset(SampleSize, Snodes) :
         polls' = [polls EXCEPT ![p] =
             [phase |-> "fetch", msgs |-> <<>>,
              asked |-> {[snode |-> s, since |-> lastHashes[s]] : s \in sample}]]
    /\ UNCHANGED <<receiverVars, world, lastHashes, seen, membership, missed>>

\* seeded fault: what two nodes have in common is taken from neither
Merge_difference(msgs, more) == Without(more, ToSet(msgs))

\* mergeMultipleRetrieveResults: a hash is kept once, where it came first
Merge(msgs, more) == msgs \o Without(more, ToSet(msgs))

\* the request of one node is settled; the last one ends the fetching
Settled(p, request, msgs) ==
    LET asked == polls[p].asked \ {request}
    IN  IF asked = {}
        THEN Proceed(p, "check", msgs)
        ELSE polls' = [polls EXCEPT ![p] =
                 [phase |-> "fetch", asked |-> asked, msgs |-> msgs]]

updateLastHash(s, k) == lastHashes' = [lastHashes EXCEPT ![s] = k]

\* A node answers with messages after the last hash it was asked with, and the
\* last one becomes its last hash.  The test for a reset while fetching, in
\* between, compares records with undefined and never discards.
pollNodeForKey(p) ==
    /\ In(p, "fetch")
    /\ \E request \in polls[p].asked :
         LET s == request.snode
         IN  \/ /\ request.since >= Len(swarm[s])
                /\ Settled(p, request, polls[p].msgs)
                /\ UNCHANGED lastHashes
             \/ \E k \in request.since + 1..Len(swarm[s]) :
                    /\ updateLastHash(s, k)
                    /\ Settled(p, request,
                           Merge(polls[p].msgs, SubSeq(swarm[s], request.since + 1, k)))
    /\ UNCHANGED <<receiverVars, world, seen, membership, missed>>

\* The request fails or times out: null, and the last hash stays.
RequestFails(p) ==
    /\ Fault
    /\ In(p, "fetch")
    /\ \E request \in polls[p].asked : Settled(p, request, polls[p].msgs)
    /\ UNCHANGED <<unprocessed, queues, conversation, replayed, outcomes,
                   world, lastHashes, seen, membership, missed>>

-----------------------------------------------------------------------------
(* From a fetched message to the receiver *)

\* A group that left the wrapper while it was polled: the result is discarded.
shouldLeaveNotPolledGroup(p) ==
    /\ In(p, "check")
    /\ IF group \in {"left", "leftOut"}
       THEN EndPoll(p) /\ missed' = missed \cup ToSet(polls[p].msgs)
       ELSE Proceed(p, "filter", polls[p].msgs) /\ UNCHANGED missed
    /\ UNCHANGED <<receiverVars, world, lastHashes, seen, membership>>

\* A call to the database or a worker throws and the poll with it.
PollThrows(p) ==
    /\ Fault
    /\ polls[p].phase \in {"check", "filter", "mark"}
    /\ missed' = missed \cup ToSet(polls[p].msgs)
    /\ EndPoll(p)
    /\ UNCHANGED <<unprocessed, queues, conversation, replayed, outcomes,
                   world, lastHashes, seen, membership>>

\* seeded fault: what a last hash is past counts as seen
isSeen_fetched(m) == \E s \in Snodes : m \in Before(s, lastHashes[s])

\* the hash is in the table of seen hashes, or in the one of messages
isSeen(m) == m \in seen \/ stored[m] > 0

handleSeenMessages(p) ==
    /\ In(p, "filter")
    /\ Proceed(p, IF kind = "PRIVATE" THEN "mark" ELSE "handle",
               Without(polls[p].msgs, {m \in Messages : isSeen(m)}))
    /\ UNCHANGED <<receiverVars, world, lastHashes, seen, membership, missed>>

\* Private: marked as seen first, then given to the receiver.
updateSeenMessages(p) ==
    /\ In(p, "mark")
    /\ seen' = seen \cup ToSet(polls[p].msgs)
    /\ Proceed(p, "hand", polls[p].msgs)
    /\ UNCHANGED <<receiverVars, world, lastHashes, membership, missed>>

HandToReceiver(p) ==
    /\ In(p, "hand")
    /\ handleRequest(polls[p].msgs)
    /\ EndPoll(p)
    /\ UNCHANGED <<unprocessed, envelopeQueue, late, conversation, replayed,
                   outcomes, faults, world, lastHashes, seen, membership, missed>>

\* A group's message is handled by the poll itself, at most for a minute.
\* Without the wrapper of the group it cannot be decrypted.
handleMessagesForGroupV2(p) ==
    /\ In(p, "handle")
    /\ LET m == Head(polls[p].msgs)
       IN  IF group \in Out
           THEN /\ erred' = erred \cup {m}
                /\ UNCHANGED <<unprocessed, late, conversation, stored, consumed,
                               lost, exposed, faults>>
           ELSE \/ innerHandleSwarmContentMessage(<<m, 1>>) /\ UNCHANGED late
                \/ TaskTimesOut(<<m, 1>>)
    /\ polls' = [polls EXCEPT ![p].phase = "save"]
    /\ UNCHANGED <<adding, envelopeQueue, replayed, world, lastHashes, seen,
                   membership, missed>>

\* The finally: whatever happened to it, the message is seen now, unless the
\* write is rejected, which is logged.
SaveSeen(p) ==
    /\ In(p, "save")
    /\ \/ seen' = seen \cup {Head(polls[p].msgs)} /\ UNCHANGED faults
       \/ Fault /\ UNCHANGED seen
    /\ Proceed(p, "handle", Tail(polls[p].msgs))
    /\ missed' = IF seen' = seen THEN missed \cup {Head(polls[p].msgs)} ELSE missed
    /\ UNCHANGED <<unprocessed, queues, conversation, replayed, outcomes,
                   world, lastHashes, membership>>

-----------------------------------------------------------------------------
(* Leaving, rejoining, and what forgets the hashes *)

\* ConversationController.deleteGroup, after the polling was stopped and the
\* messages deleted: the group leaves the wrapper, or stays in it as kicked.
deleteGroup ==
    /\ Fault
    /\ kind = "GROUPV2" /\ group = "in" /\ reset = "no"
    /\ group' \in Leaving
    /\ reset' = "lastHashes"
    /\ stored' = [m \in Messages |-> 0]
    /\ UNCHANGED <<unprocessed, queues, conversation, replayed, consumed, erred,
                   lost, exposed, world, lastHashes, seen, polls, missed>>

\* handleGroupUpdatePromoteMessage: the history is to be fetched again.
handleGroupUpdatePromoteMessage ==
    /\ Fault
    /\ kind = "GROUPV2" /\ group = "in" /\ reset = "no"
    /\ reset' = "lastHashes"
    /\ UNCHANGED <<unprocessed, queues, conversation, replayed, outcomes,
                   world, lastHashes, seen, polls, group, missed>>

\* resetLastHashesForConversation, its two tables one after the other; then
\* deleteGroup frees the wrapper of the group.
resetLastHashes ==
    /\ reset = "lastHashes"
    /\ lastHashes' = [s \in Snodes |-> 0]
    /\ reset' = "seen"
    /\ UNCHANGED <<receiverVars, world, seen, polls, group, missed>>

\* what the last hashes are past, and those a poll under way was asked with
Passed ==
    (UNION {Before(s, lastHashes[s]) : s \in Snodes})
        \cup (UNION {Before(r.snode, r.since) : r \in UNION {polls[p].asked : p \in Polls}})

\* what the polls under way hold
Carried == UNION {ToSet(polls[p].msgs) : p \in Polls}

Fetched == Carried \cup Passed

emptySeenMessageHashes ==
    /\ reset = "seen"
    /\ seen' = {}
    /\ reset' = "no"
    /\ missed' = missed \cup Fetched
    /\ UNCHANGED <<receiverVars, world, lastHashes, polls, group>>

FreeGroup ==
    /\ reset = "no"
    /\ group \in Leaving
    /\ group' = IF group = "kicked" THEN "kickedOut" ELSE "leftOut"
    /\ UNCHANGED <<receiverVars, world, lastHashes, seen, polls, reset, missed>>

\* An invite that is accepted: polled again, with the keys to decrypt.
Rejoin ==
    /\ group \in Out
    /\ group' = "in"
    /\ UNCHANGED <<receiverVars, world, lastHashes, seen, polls, reset, missed>>

-----------------------------------------------------------------------------

\* The process ends and starts again.  A reset it cut short is not resumed: what
\* was fetched by then is not fetched again.
Crash ==
    /\ Fault
    /\ EndOfReceiver(IF kind = "PRIVATE" THEN {} ELSE InMemory)
    /\ polls' = [p \in Polls |-> Idle]
    /\ missed' = missed \cup Carried \cup (IF reset = "no" THEN {} ELSE seen \cup Fetched)
    /\ group' = CASE group = "kicked" -> "kickedOut"
                  [] group = "left" -> "leftOut"
                  [] OTHER -> group
    /\ reset' = "no"
    /\ UNCHANGED <<world, lastHashes, seen>>

ReceiverStep ==
    /\ ReceiverNext
    /\ UNCHANGED <<world, lastHashes, seen, polls, membership, missed>>

Membership ==
    \/ deleteGroup \/ handleGroupUpdatePromoteMessage \/ resetLastHashes
    \/ emptySeenMessageHashes \/ FreeGroup \/ Rejoin

PollStep(p) ==
    \/ pollNodeForKey(p) \/ shouldLeaveNotPolledGroup(p) \/ handleSeenMessages(p)
    \/ updateSeenMessages(p) \/ HandToReceiver(p)
    \/ handleMessagesForGroupV2(p) \/ SaveSeen(p)

Next ==
    \/ ReceiverStep
    \/ Membership
    \/ Crash
    \/ \E p \in Polls :
         \/ pollOnceForKey(p) \/ PollStep(p) \/ RequestFails(p) \/ PollThrows(p)

Spec == Init /\ [][Next]_vars

\* The next round is always scheduled (pollForAllKeys' finally), requests time
\* out, and the sample of nodes is random: no sample is left out for ever.
FairSpec ==
    /\ Spec
    /\ ReceiverFairness
    /\ \A p \in Polls : WF_vars(pollOnceForKey(p)) /\ WF_vars(PollStep(p))
    /\ WF_vars(resetLastHashes) /\ WF_vars(emptySeenMessageHashes)
    /\ WF_vars(FreeGroup)

-----------------------------------------------------------------------------
(* Properties *)

Handled(m) == stored[m] > 0 \/ m \in consumed

\* some code, or a row of the cache, still has the message
Held(m) ==
    \/ m \in MessagesOf(Known)
    \/ \E p \in Polls : m \in ToSet(polls[p].msgs)

OnSwarm(m) == \A s \in Snodes : m \in ToSet(swarm[s])

\* A message marked as seen is never taken again, so it has to be somewhere:
\* handled, or held, or one of the losses the program logs (swarmPolling.ts,
\* updateSeenMessages before handleRequest; the finally of a group's message).
SeenIsHeld ==
    \A m \in seen : Handled(m) \/ Held(m) \/ m \in lost \cup erred \cup missed
                    \/ reset # "no"

\* A last hash only passes messages that were taken: what a node will not be
\* asked for any more is seen, handled or held, unless a poll dropped it
\* (pollNodeForKey stores the last hash of a node before the messages of the
\* reply are handled, and two polls overlap).
FetchedIsHeld ==
    \A s \in Snodes : \A m \in Before(s, lastHashes[s]) :
        m \in seen \/ Handled(m) \/ Held(m) \/ m \in lost \cup erred \cup missed
            \/ reset # "no"

\* A message every node of the swarm has is handled in the end, whatever polls
\* overlap and requests fail, unless a failure, an end of the process or the
\* deletion of the group dropped it.
EveryMessageArrives ==
    \A m \in Messages :
        OnSwarm(m) ~> (Handled(m) \/ m \in lost \cup erred \cup missed \/ group # "in")

-----------------------------------------------------------------------------
(* The inductive invariant of both modules *)

\* the messages that are accounted for once no poll holds them
Kept == Concluded \cup missed \cup MessagesOf(Entrusted)

\* what a poll of our own swarm has marked as seen and not handed over yet
InHand == UNION {ToSet(polls[p].msgs) : p \in {q \in Polls : In(q, "hand")}}

PollInv ==
    \A p \in Polls :
        /\ In(p, "idle") => polls[p].msgs = <<>>
        /\ polls[p].msgs = <<>> => In(p, "idle") \/ In(p, "fetch")
        /\ \A r \in polls[p].asked : r.since <= Len(swarm[r.snode])

\* Our own messages go through the cache, which survives an end of the process;
\* those of a group do not, and only they can be deleted again.
KindInv ==
    IF kind = "PRIVATE"
    THEN /\ group = "in" /\ reset = "no"
         /\ \A p \in Polls : ~In(p, "handle") /\ ~In(p, "save")
         /\ \A env \in Waiting : env \in Rows \/ Message(env) \in Concluded
         /\ \A j \in Running : j.phase = "stored" => stored[Message(j.env)] > 0
    ELSE /\ unprocessed = <<>> /\ adding = <<>> /\ envelopeQueue = <<>>
         /\ \A p \in Polls : ~In(p, "mark") /\ ~In(p, "hand")

\* Unless the hashes are being forgotten, what will not be fetched or taken
\* again is accounted for.
HoldInv ==
    reset = "no" =>
        /\ seen \subseteq Kept \cup InHand
        /\ \A p \in Polls : In(p, "save") => Head(polls[p].msgs) \in Kept
        /\ Passed \subseteq seen \cup Kept \cup Carried

PollingInv == TypeOK /\ CommitInv /\ AwaitInv /\ PollInv /\ KindInv /\ HoldInv
=============================================================================
