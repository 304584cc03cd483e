----------------------------- MODULE OpenGroups -----------------------------
(***************************************************************************)
(* The communities (open groups) of one server: joining and leaving a      *)
(* room, what the start and a configuration of another device do about     *)
(* rooms, and the poller of the server with the messages it brings         *)
(* (OpenGroupManagerV2.ts, OpenGroupServerPoller.ts, sogsApiV3.ts,         *)
(* data/opengroups.ts, ConversationController.deleteCommunity,             *)
(* receiver/configMessage.ts, receiver/opengroup.ts).                      *)
(*                                                                         *)
(* A room is known in four places: the conversations (ConvoHub and its     *)
(* table), the table of rooms with the cache in front of it, the wrapper   *)
(* of the user's groups, which other devices share, and the poller.        *)
(* The server numbers what happens in a room; a row keeps the number of    *)
(* the last update that was polled (maxMessageFetchedSeqNo): 0 for none,   *)
(* NoRow when there is no row.  Statements of the database are served in   *)
(* the order they are issued, so a save and the change of the cache after  *)
(* it are one step, but a removal still in front of a save is not.         *)
(***************************************************************************)
EXTENDS Integers, FiniteSets, FiniteSetsExt

CONSTANTS
    Rooms,        \* rooms of the server
    Messages,     \* bound: messages ever posted
    RoomOf,       \* the room of a message
    MaxUpdates,   \* bound: posts and deletions in a room
    Polls,        \* bound: polls that overlap, those of a stopped poller too
    MaxChanges,   \* bound: joins and leaves, here and on another device
    MaxFaults     \* bound: failed requests and jobs, ends of the process

NoRow == -1

\* what a row may have for a number
Numbers == Nat \cup {NoRow}

ASSUME OpenGroupsAssumption ==
    /\ Rooms # {} /\ IsFiniteSet(Messages)
    /\ RoomOf \in [Messages -> Rooms]
    /\ MaxUpdates \in Nat /\ MaxChanges \in Nat /\ MaxFaults \in Nat

VARIABLES
    seqno,      \* the server: number of the last update of a message, 0: none
    deleted,    \* the server: messages that were deleted
    wrapper,    \* rooms in the wrapper of the user's groups
    table,      \* the table of rooms: the last number polled, or NoRow
    cachedRooms,\* the cache of the table
    convoTable, \* rooms whose conversation is in the database
    convoHub,   \* rooms whose conversation is in memory
    inactive,   \* of these, the ones a join made and did not make active yet
    stored,     \* how many rows of "messages" a message has
    pending,    \* jobs of the conversation that will store a message
    roomIdsToPoll,  \* the rooms of the poller; without any there is no poller
    polls,      \* the polls under way
    joining,    \* how far attemptConnectionV2 is with a room
    leaving,    \* how far deleteCommunity is with a room
    isPolling,  \* startPolling: "no", "cleaning", "yes"
    toClean,    \* rooms the clean-up of startPolling still has to remove
    toLeave,    \* rooms handleCommunitiesUpdate still has to leave ...
    toJoin,     \* ... and those it joins after that
    awaited,    \* the room whose deleteCommunity each of the two waits for
    \* What follows is history or a bound: the program does not keep it.
    member,     \* rooms joined on a device and left on none
    lost,       \* messages dropped by a failure, an end of the process or a leave
    doubled,    \* messages with a job or a poll under way when a join wrote the row of
                \* their room or the start polled it again, or with a job queued
                \* when a poll did not save its number
    orphans,    \* conversations whose row a failed join or an end of the process took
    raced,      \* rooms that were joined or left while the start polled them or
                \* removed their row, and joins cut short by an end of the process
    changes,
    faults

server == <<seqno, deleted>>
rooms == <<wrapper, table, cachedRooms, convoTable, convoHub, inactive>>
inbox == <<stored, pending>>
poller == <<roomIdsToPoll, polls>>
loops == <<toClean, toLeave, toJoin, awaited>>
membership == <<joining, leaving, isPolling, loops>>
history == <<member, lost, doubled, orphans, raced>>
vars == <<server, rooms, inbox, poller, membership, history, changes, faults>>

Update == [msg : Messages, seqno : Nat, deleted : BOOLEAN]

\* since: the rooms that were asked for; got: what the server answered;
\* left: rooms whose answer is not handled yet; stale: rooms left meanwhile
Poll ==
    [phase : {"idle", "request", "delete", "store", "save"}, stopped : BOOLEAN,
     since : [Rooms -> Numbers], got : SUBSET Update, left : SUBSET Rooms,
     room : Rooms, stale : SUBSET Rooms]

Nothing == [r \in Rooms |-> NoRow]

\* who leaves one room after the other
Loops == {"cleanup", "update"}

Idle ==
    [phase |-> "idle", stopped |-> FALSE, since |-> Nothing, got |-> {},
     left |-> {}, room |-> CHOOSE r \in Rooms : TRUE, stale |-> {}]

\* a poll of the poller there is
Active(q) == q.phase # "idle" /\ ~q.stopped

OnePoll == \A p, q \in Polls : Active(polls[p]) /\ Active(polls[q]) => p = q

TypeOK ==
    /\ seqno \in [Messages -> Nat] /\ deleted \subseteq Messages
    /\ wrapper \subseteq Rooms /\ convoTable \subseteq Rooms /\ convoHub \subseteq Rooms
    /\ table \in [Rooms -> Numbers] /\ cachedRooms \in [Rooms -> Numbers]
    /\ stored \in [Messages -> Nat] /\ pending \in [Messages -> Nat]
    /\ roomIdsToPoll \subseteq Rooms
    /\ polls \in [Polls -> Poll]
    /\ OnePoll
    /\ joining \in [Rooms -> {"no", "info", "create", "commit"}]
    /\ leaving \in [Rooms -> {"no", "messages", "wrapper", "convo", "row", "hub"}]
    /\ isPolling \in {"no", "cleaning", "yes"}
    /\ toClean \subseteq Rooms /\ toLeave \subseteq Rooms /\ toJoin \subseteq Rooms
    /\ awaited \in [Loops -> SUBSET Rooms]
    /\ inactive \subseteq convoHub
    /\ member \subseteq Rooms /\ lost \subseteq Messages /\ doubled \subseteq Messages
    /\ orphans \subseteq Rooms /\ raced \subseteq Rooms

\* The program starts; it may have ended while a room was left.
Init ==
    /\ seqno = [m \in Messages |-> 0] /\ deleted = {}
    /\ convoTable \in SUBSET Rooms /\ convoHub = convoTable /\ inactive = {}
    /\ wrapper \in SUBSET convoTable
    /\ table = [r \in Rooms |-> IF r \in convoTable THEN 0 ELSE NoRow]
    /\ cachedRooms = table
    /\ stored = [m \in Messages |-> 0] /\ pending = [m \in Messages |-> 0]
    /\ roomIdsToPoll = {} /\ polls = [p \in Polls |-> Idle]
    /\ joining = [r \in Rooms |-> "no"] /\ leaving = [r \in Rooms |-> "no"]
    /\ isPolling = "no" /\ toClean = {} /\ toLeave = {} /\ toJoin = {}
    /\ awaited = [l \in Loops |-> {}]
    /\ member = wrapper /\ lost = {} /\ doubled = {} /\ orphans = {} /\ raced = {}
    /\ changes = 0 /\ faults = 0

Fault == faults < MaxFaults /\ faults' = faults + 1
Changed == changes < MaxChanges /\ changes' = changes + 1

In(r) == {m \in Messages : RoomOf[m] = r}

-----------------------------------------------------------------------------
(* The server (external) *)

NextSeqno(r) == 1 + Max({0} \cup {seqno[m] : m \in In(r)})

\* messages are interchangeable until they are posted
Post(r) ==
    /\ \E m \in In(r) : seqno[m] = 0
    /\ NextSeqno(r) <= MaxUpdates
    /\ LET next == CHOOSE m \in In(r) : seqno[m] = 0
       IN  seqno' = [seqno EXCEPT ![next] = NextSeqno(r)]
    /\ UNCHANGED <<deleted, rooms, inbox, poller, membership, history, changes, faults>>

\* a deletion is an update: the message moves to the end
DeletePost(m) ==
    /\ seqno[m] > 0 /\ m \notin deleted
    /\ NextSeqno(RoomOf[m]) <= MaxUpdates
    /\ seqno' = [seqno EXCEPT ![m] = NextSeqno(RoomOf[m])]
    /\ deleted' = deleted \cup {m}
    /\ UNCHANGED <<rooms, inbox, poller, membership, history, changes, faults>>

\* what it answers: the updates after a number, or the messages there are
Answer(r, since) ==
    {[msg |-> m, seqno |-> seqno[m], deleted |-> m \in deleted] :
        m \in {n \in In(r) : seqno[n] > since /\ (since = 0 => n \notin deleted)}}

-----------------------------------------------------------------------------
(* The poller *)

HasRow(r) == cachedRooms[r] # NoRow

\* seeded fault: isPolling is not looked at
InProgress_ignored == FALSE

\* The poll of this poller that has not ended: a stopped one has its own flag.
InProgress == \E p \in Polls : Active(polls[p])

\* Every room is asked for what follows the number its row has now.  Without
\* the row of its first room the request is not sent (sogsBatchSend).
compactPoll ==
    /\ ~InProgress
    /\ \E p \in Polls : polls[p].phase = "idle"
    /\ \E r \in roomIdsToPoll : HasRow(r)
    /\ LET free == CHOOSE p \in Polls : polls[p].phase = "idle"
           since == [r \in Rooms |->
               IF r \notin roomIdsToPoll THEN NoRow
               ELSE IF HasRow(r) THEN cachedRooms[r] ELSE 0]
       IN  polls' = [polls EXCEPT ![free].phase = "request", ![free].since = since]
    /\ UNCHANGED <<server, rooms, inbox, roomIdsToPoll, membership, history, changes, faults>>

Asked(poll) == {r \in Rooms : poll.since[r] # NoRow}

Reply(p) ==
    /\ polls[p].phase = "request"
    /\ LET asked == Asked(polls[p])
       IN  polls' = [polls EXCEPT ![p].phase = "delete", ![p].left = asked,
               ![p].got = UNION {Answer(r, polls[p].since[r]) : r \in asked}]
    /\ UNCHANGED <<server, rooms, inbox, roomIdsToPoll, membership, history, changes, faults>>

\* The request times out or is refused: the finally frees the poller.
RequestFails(p) ==
    /\ Fault
    /\ polls[p].phase = "request"
    /\ polls' = [polls EXCEPT ![p] = Idle]
    /\ UNCHANGED <<server, rooms, inbox, roomIdsToPoll, membership, history, changes>>

GotFor(poll, r) == {u \in poll.got : RoomOf[u.msg] = r}


\* poll p is done with room r, and over when that was the last one
RoomDone(p, r) ==
    polls' = IF polls[p].left = {r} THEN [polls EXCEPT ![p] = Idle]
             ELSE [polls EXCEPT ![p].phase = "delete", ![p].left = @ \ {r}]

\* handleMessagesResponseV4, its beginning: a room that was left is skipped, an
\* answer without updates only writes the row (its time), messages deleted from
\* the server are destroyed.
handleSogsV3DeletedMessages(p) ==
    /\ polls[p].phase = "delete"
    /\ \E r \in polls[p].left :
         LET got == GotFor(polls[p], r)
             gone == {u.msg : u \in {v \in got : v.deleted}}
         IN  IF got # {} /\ HasRow(r)
             THEN /\ polls' = [polls EXCEPT ![p].phase = "store", ![p].room = r]
                  /\ stored' = [m \in Messages |->
                       IF m \in gone /\ r \in convoHub THEN 0 ELSE stored[m]]
                  /\ UNCHANGED table
             ELSE /\ RoomDone(p, r)
                  /\ table' = IF HasRow(r) THEN [table EXCEPT ![r] = cachedRooms[r]] ELSE table
                  /\ UNCHANGED stored
    /\ UNCHANGED <<server, wrapper, cachedRooms, convoTable, convoHub, inactive, pending,
                   roomIdsToPoll, membership, history, changes, faults>>

\* seeded fault: what the server has now, not what the poll brought
MaxSeqno_latest(got, r) == NextSeqno(r) - 1

MaxSeqno(got, r) == Max({u.seqno : u \in got})

\* seeded fault: only what the answer itself has twice is left out
filterDuplicatesFromDb_none(got) == {u.msg : u \in {v \in got : ~v.deleted}}

filterDuplicatesFromDb(got) ==
    {m \in {u.msg : u \in {v \in got : ~v.deleted}} : stored[m] = 0}

saveV2OpenGroupRoom(r, n) ==
    /\ table' = [table EXCEPT ![r] = n]
    /\ cachedRooms' = [cachedRooms EXCEPT ![r] = n]

\* Its end: a job of the conversation for each new message, which is not waited
\* for, ...
handleMessagesResponseV4(p) ==
    /\ polls[p].phase = "store"
    /\ LET r == polls[p].room
           new == filterDuplicatesFromDb(GotFor(polls[p], r))
       IN  IF r \in convoHub
           THEN /\ pending' = [m \in Messages |->
                     IF m \in new THEN pending[m] + 1 ELSE pending[m]]
                /\ UNCHANGED lost
           ELSE lost' = lost \cup new /\ UNCHANGED pending
    /\ polls' = [polls EXCEPT ![p].phase = "save"]
    /\ UNCHANGED <<server, rooms, stored, roomIdsToPoll, membership, member, doubled,
                   orphans, raced, changes, faults>>

\* ... then the row, as it is now, gets the highest number of the answer.
updateRoom(p) ==
    /\ polls[p].phase = "save"
    /\ LET r == polls[p].room
           n == MaxSeqno(GotFor(polls[p], r), r)
       IN  /\ IF HasRow(r) THEN saveV2OpenGroupRoom(r, n)
              ELSE UNCHANGED <<table, cachedRooms>>
           /\ lost' = IF r \in polls[p].stale
                      THEN lost \cup {m \in In(r) : seqno[m] \in 1..n} ELSE lost
           /\ RoomDone(p, r)
    /\ UNCHANGED <<server, wrapper, convoTable, convoHub, inactive, inbox, roomIdsToPoll,
                   membership, member, doubled, orphans, raced, changes, faults>>

\* A worker or a query throws: what follows is skipped, and the row stays.
MessagesFail(p) ==
    /\ Fault
    /\ polls[p].phase \in {"store", "save"}
    /\ RoomDone(p, polls[p].room)
    /\ doubled' = doubled \cup {m \in In(polls[p].room) : pending[m] > 0}
    /\ UNCHANGED <<server, rooms, inbox, roomIdsToPoll, membership, member, lost,
                   orphans, raced, changes>>

\* the job of handleOpenGroupMessage, or its failure, which is logged
handleMessageJob(m) ==
    /\ pending[m] > 0
    /\ pending' = [pending EXCEPT ![m] = @ - 1]
    /\ \/ stored' = [stored EXCEPT ![m] = @ + 1] /\ UNCHANGED <<lost, faults>>
       \/ Fault /\ lost' = lost \cup {m} /\ UNCHANGED stored
    /\ UNCHANGED <<server, rooms, poller, membership, member, doubled, orphans, raced,
                   changes>>

\* OpenGroupServerPoller.stop: a request under way is aborted, what is being
\* handled goes on.
StopPolls ==
    [p \in Polls |->
        IF polls[p].phase \in {"idle", "request"} /\ ~polls[p].stopped THEN Idle
        ELSE [polls[p] EXCEPT !.stopped = TRUE]]

\* the poller goes with its last room
removeRoomFromPolledRooms(r) ==
    /\ roomIdsToPoll' = roomIdsToPoll \ {r}
    /\ polls' = IF roomIdsToPoll = {r} THEN StopPolls ELSE polls

-----------------------------------------------------------------------------
(* Joining *)

\* attemptConnectionV2OneAtATime shares a join that is under way, and a room that
\* has a conversation is refused.
MayJoin(r) == r \notin convoHub /\ joining[r] = "no"

\* messages of the rooms rs that have a job, or that a poll may still bring
UnderWay(rs) ==
    {m \in Messages :
        /\ RoomOf[m] \in rs
        /\ pending[m] > 0 \/ \E p \in Polls : RoomOf[m] \in Asked(polls[p])}

\* The beginning of attemptConnectionV2 for the rooms rs, before the request:
\* nothing is left of them but an empty row.
attemptConnectionV2(rs) ==
    /\ table' = [r \in Rooms |-> IF r \in rs THEN 0 ELSE table[r]]
    /\ cachedRooms' = [r \in Rooms |-> IF r \in rs THEN 0 ELSE cachedRooms[r]]
    /\ wrapper' = wrapper \ rs
    /\ joining' = [r \in Rooms |-> IF r \in rs THEN "info" ELSE joining[r]]
    /\ polls' = [p \in Polls |-> [polls[p] EXCEPT !.stale = @ \cup (rs \cap Asked(polls[p]))]]
    /\ doubled' = doubled \cup UnderWay(rs)
    /\ lost' = {m \in lost : RoomOf[m] \notin rs}

joinOpenGroupV2(r) ==
    /\ Changed
    /\ MayJoin(r)
    /\ attemptConnectionV2({r})
    /\ UNCHANGED <<server, convoTable, convoHub, inactive, inbox, roomIdsToPoll, leaving,
                   isPolling, loops, member, orphans, raced, faults>>

getOrCreateAndWait(r) ==
    /\ joining[r] = "info"
    /\ joining' = [joining EXCEPT ![r] = "create"]
    /\ convoHub' = convoHub \cup {r}
    /\ convoTable' = convoTable \cup {r}
    /\ inactive' = inactive \cup {r}
    /\ UNCHANGED <<server, wrapper, table, cachedRooms, inbox, poller, leaving,
                   isPolling, loops, history, changes, faults>>

\* the row with the room's information, which has no number; the conversation
\* becomes active
SaveJoinedRoom(r) ==
    /\ joining[r] = "create"
    /\ joining' = [joining EXCEPT ![r] = "commit"]
    /\ saveV2OpenGroupRoom(r, 0)
    /\ inactive' = inactive \ {r}
    /\ doubled' = doubled \cup UnderWay({r})
    /\ UNCHANGED <<server, wrapper, convoTable, convoHub, inbox, poller, leaving,
                   isPolling, loops, member, lost, orphans, raced, changes, faults>>

\* The commit of an active conversation puts its room, if it has a row, in the
\* wrapper.
CommittedTo(r) == IF HasRow(r) /\ r \notin inactive THEN wrapper \cup {r} ELSE wrapper

JoinEnds(r) ==
    /\ joining[r] = "commit"
    /\ joining' = [joining EXCEPT ![r] = "no"]
    /\ wrapper' = CommittedTo(r)
    /\ roomIdsToPoll' = roomIdsToPoll \cup {r}
    /\ member' = member \cup {r}
    /\ raced' = IF HasRow(r) THEN raced \ {r} ELSE raced
    /\ UNCHANGED <<server, table, cachedRooms, convoTable, convoHub, inactive, inbox, polls,
                   leaving, isPolling, loops, lost, doubled, orphans, changes, faults>>

\* The request fails or takes too long, the new conversation cannot be saved or put
\* in a wrapper, the row cannot be saved or the commit fails: the row is removed,
\* and a conversation that was made stays.
JoinFails(r) ==
    /\ Fault
    /\ joining[r] # "no"
    /\ saveV2OpenGroupRoom(r, NoRow)
    /\ joining' = [joining EXCEPT ![r] = "no"]
    /\ \/ joining[r] = "info" /\ UNCHANGED <<wrapper, convoTable, convoHub, inactive, orphans>>
       \/ /\ joining[r] = "info"
          /\ convoHub' = convoHub \cup {r}
          /\ convoTable' \in {convoTable, convoTable \cup {r}}
          /\ inactive' = inactive \cup {r}
          /\ orphans' = orphans \cup {r}
          /\ UNCHANGED wrapper
       \/ /\ joining[r] \in {"create", "commit"}
          /\ wrapper' \in {wrapper, CommittedTo(r)}
          /\ orphans' = orphans \cup {r}
          /\ UNCHANGED <<convoTable, convoHub, inactive>>
    /\ UNCHANGED <<server, inbox, poller, leaving, isPolling, loops, member, lost, doubled,
                   raced, changes>>

-----------------------------------------------------------------------------
(* Leaving *)

\* A room without a conversation is not left, and one leave of a room is enough.
deleteCommunity(r) ==
    leaving' = IF r \in convoHub /\ leaving[r] = "no"
               THEN [leaving EXCEPT ![r] = "messages"] ELSE leaving

UserLeaves(r) ==
    /\ Changed
    /\ r \in convoHub /\ leaving[r] = "no"
    /\ deleteCommunity(r)
    /\ member' = member \ {r}
    /\ UNCHANGED <<server, rooms, inbox, poller, joining, isPolling, loops, lost,
                   doubled, orphans, raced, faults>>

\* deleteCommunity: the messages are deleted, the conversation is saved (which
\* commits it), and the room is not polled any more.  Its calls follow, in the
\* same order, those of a join that created the conversation: that one ends first.
LeaveMessages(r) ==
    /\ leaving[r] = "messages" /\ joining[r] = "no"
    /\ leaving' = [leaving EXCEPT ![r] = "wrapper"]
    /\ stored' = [m \in Messages |-> IF m \in In(r) THEN 0 ELSE stored[m]]
    /\ lost' = lost \cup {m \in In(r) : seqno[m] > 0}
    /\ wrapper' = CommittedTo(r)
    /\ IF HasRow(r) THEN removeRoomFromPolledRooms(r) ELSE UNCHANGED poller
    /\ UNCHANGED <<server, table, cachedRooms, convoTable, convoHub, inactive, pending,
                   joining, isPolling, loops, member, doubled, orphans, raced, changes, faults>>

removeCommunityFromWrappers(r) ==
    /\ leaving[r] = "wrapper"
    /\ leaving' = [leaving EXCEPT ![r] = "convo"]
    /\ wrapper' = wrapper \ {r}
    /\ UNCHANGED <<server, table, cachedRooms, convoTable, convoHub, inactive, inbox, poller,
                   joining, isPolling, loops, history, changes, faults>>

removeConversation(r) ==
    /\ leaving[r] = "convo"
    /\ leaving' = [leaving EXCEPT ![r] = "row"]
    /\ convoTable' = convoTable \ {r}
    /\ UNCHANGED <<server, wrapper, table, cachedRooms, convoHub, inactive, inbox, poller,
                   joining, isPolling, loops, history, changes, faults>>

\* the statement of removeV2OpenGroupRoom; its answer comes with the next step
removeV2OpenGroupRoom(r) ==
    /\ leaving[r] = "row"
    /\ leaving' = [leaving EXCEPT ![r] = "hub"]
    /\ table' = [table EXCEPT ![r] = NoRow]
    /\ UNCHANGED <<server, wrapper, cachedRooms, convoTable, convoHub, inactive, inbox,
                   poller, joining, isPolling, loops, history, changes, faults>>

LeaveEnds(r) ==
    /\ leaving[r] = "hub"
    /\ leaving' = [leaving EXCEPT ![r] = "no"]
    /\ cachedRooms' = [cachedRooms EXCEPT ![r] = NoRow]
    /\ convoHub' = convoHub \ {r}
    /\ inactive' = inactive \ {r}
    /\ awaited' = [l \in Loops |-> awaited[l] \ {r}]
    /\ orphans' = orphans \ {r}
    /\ raced' = IF r \in roomIdsToPoll THEN raced ELSE raced \ {r}
    /\ UNCHANGED <<server, wrapper, table, convoTable, inbox, poller, joining, isPolling,
                   toClean, toLeave, toJoin, member, lost, doubled, changes, faults>>

\* a loop calls deleteCommunity and waits for its end
LeaveAndWait(loop, r) ==
    /\ awaited[loop] = {}
    /\ deleteCommunity(r)
    /\ awaited' = [awaited EXCEPT ![loop] = {r} \cap convoHub]

-----------------------------------------------------------------------------
(* What another device joined or left *)

\* handleCommunitiesUpdate, its beginning: what is in the wrapper and has no
\* active conversation is to be joined, what has one and is not in the wrapper is
\* to be left, ...
handleCommunitiesUpdate ==
    /\ Changed
    /\ toLeave = {} /\ toJoin = {} /\ awaited["update"] = {}
    /\ \E r \in Rooms : \E w \in {wrapper \cup {r}, wrapper \ {r}} \ {wrapper} :
         /\ wrapper' = w
         /\ toLeave' = convoHub \ (inactive \cup w)
         /\ toJoin' = w \ (convoHub \ inactive)
         /\ member' = IF r \in w THEN member \cup {r} ELSE member \ {r}
    /\ UNCHANGED <<server, table, cachedRooms, convoTable, convoHub, inactive, inbox, poller,
                   joining, leaving, isPolling, toClean, awaited, lost, doubled, orphans,
                   raced, faults>>

\* ... one room is left after the other, ...
LeaveListed(r) ==
    /\ r \in toLeave
    /\ LeaveAndWait("update", r)
    /\ toLeave' = toLeave \ {r}
    /\ UNCHANGED <<server, rooms, inbox, poller, joining, isPolling, toClean, toJoin,
                   history, changes, faults>>

\* ... and then all joins begin.
JoinListed ==
    /\ toLeave = {} /\ awaited["update"] = {} /\ toJoin # {}
    /\ attemptConnectionV2({r \in toJoin : MayJoin(r)})
    /\ toJoin' = {}
    /\ UNCHANGED <<server, convoTable, convoHub, inactive, inbox, roomIdsToPoll, leaving,
                   isPolling, toClean, toLeave, awaited, member, orphans, raced, changes,
                   faults>>

-----------------------------------------------------------------------------
(* The start *)

\* seeded fault: no row is taken for stale
StaleRooms_none == {}

\* getAllValidOpenGroupV2ConversationRoomInfos: what the wrapper does not have
\* when the clean-up begins
StaleRooms == {r \in Rooms : HasRow(r) /\ r \notin wrapper}

startPolling ==
    /\ isPolling = "no"
    /\ isPolling' = "cleaning"
    /\ toClean' = StaleRooms
    /\ UNCHANGED <<server, rooms, inbox, poller, joining, leaving, toLeave, toJoin, awaited,
                   history, changes, faults>>

\* One stale room after the other.  A join that saved its row before ends without one.
CleanRoom(r) ==
    /\ r \in toClean
    /\ LeaveAndWait("cleanup", r)
    /\ toClean' = toClean \ {r}
    /\ saveV2OpenGroupRoom(r, NoRow)
    /\ removeRoomFromPolledRooms(r)
    /\ raced' = IF joining[r] = "commit" THEN raced \cup {r} ELSE raced
    /\ UNCHANGED <<server, wrapper, convoTable, convoHub, inactive, inbox, joining, isPolling,
                   toLeave, toJoin, member, lost, doubled, orphans, changes, faults>>

\* Every room that has a row is polled, one that is being joined or left too.
addRoomToPolledRooms ==
    /\ isPolling = "cleaning" /\ toClean = {} /\ awaited["cleanup"] = {}
    /\ isPolling' = "yes"
    /\ LET found == {r \in Rooms : HasRow(r)}
       IN  /\ roomIdsToPoll' = roomIdsToPoll \cup found
           /\ doubled' = doubled \cup UnderWay(found \ roomIdsToPoll)
           /\ raced' = raced \cup {r \in found :
                joining[r] # "no" \/ leaving[r] # "no" \/ r \notin convoHub}
    /\ UNCHANGED <<server, rooms, inbox, polls, joining, leaving, loops, member, lost,
                   orphans, changes, faults>>

-----------------------------------------------------------------------------
(* The end of the process *)

\* It ends and starts again with what the database has.
Crash ==
    /\ Fault
    /\ cachedRooms' = table /\ convoHub' = convoTable
    /\ inactive' = {r \in convoTable : r \in inactive \/ joining[r] = "commit"}
    /\ pending' = [m \in Messages |-> 0]
    /\ roomIdsToPoll' = {} /\ polls' = [p \in Polls |-> Idle]
    /\ joining' = [r \in Rooms |-> "no"] /\ leaving' = [r \in Rooms |-> "no"]
    /\ isPolling' = "no" /\ toClean' = {} /\ toLeave' = {} /\ toJoin' = {}
    /\ awaited' = [l \in Loops |-> {}]
    /\ lost' = lost \cup {m \in Messages : pending[m] > 0}
    /\ orphans' = {r \in convoTable : table[r] = NoRow}
    /\ raced' = {r \in inactive' : table[r] # NoRow}
    /\ UNCHANGED <<server, wrapper, table, convoTable, stored, member, doubled, changes>>

-----------------------------------------------------------------------------

PollStep(p) ==
    \/ Reply(p) \/ handleSogsV3DeletedMessages(p) \/ handleMessagesResponseV4(p)
    \/ updateRoom(p)

JoinStep(r) == getOrCreateAndWait(r) \/ SaveJoinedRoom(r) \/ JoinEnds(r)

LeaveStep(r) ==
    \/ LeaveMessages(r) \/ removeCommunityFromWrappers(r) \/ removeConversation(r)
    \/ removeV2OpenGroupRoom(r) \/ LeaveEnds(r)

StartStep == startPolling \/ addRoomToPolledRooms \/ \E r \in Rooms : CleanRoom(r)

UpdateStep == JoinListed \/ \E r \in Rooms : LeaveListed(r)

Next ==
    \/ \E m \in Messages : DeletePost(m) \/ handleMessageJob(m)
    \/ compactPoll
    \/ \E p \in Polls : PollStep(p) \/ RequestFails(p) \/ MessagesFail(p)
    \/ \E r \in Rooms :
         \/ Post(r)
         \/ joinOpenGroupV2(r) \/ JoinStep(r) \/ JoinFails(r)
         \/ UserLeaves(r) \/ LeaveStep(r)
    \/ handleCommunitiesUpdate \/ UpdateStep
    \/ StartStep
    \/ Crash

Spec == Init /\ [][Next]_vars

\* The timer of the poller ticks, requests settle, queries are answered.
FairSpec ==
    /\ Spec
    /\ WF_vars(compactPoll)
    /\ \A p \in Polls : WF_vars(PollStep(p))
    /\ \A m \in Messages : WF_vars(handleMessageJob(m))
    /\ \A r \in Rooms : WF_vars(JoinStep(r)) /\ WF_vars(LeaveStep(r))
    /\ WF_vars(StartStep) /\ WF_vars(UpdateStep)

-----------------------------------------------------------------------------
(* Properties *)

Settled ==
    /\ isPolling = "yes" /\ toLeave = {}
    /\ \A r \in Rooms : joining[r] = "no" /\ leaving[r] = "no"

\* Once every join, leave and clean-up is over, the poller asks for exactly the
\* rooms that have a conversation and a row, and the user's devices have them
\* in their groups, however joins, failures, leaves, another device, the start
\* and ends of the process were ordered (attemptConnectionV2, deleteCommunity,
\* getAllValidOpenGroupV2ConversationRoomInfos).  Two kinds of rooms are
\* excepted.  An orphan has a conversation that is not polled: its row was
\* removed by a join that failed after it made the conversation, or by a
\* clean-up in which the process ended.  A raced room may be polled without a
\* conversation or a row: it was joined or left while the start polled it or
\* removed its row, or its join was cut short by an end of the process.
RoomsAgree ==
    Settled => \A r \in Rooms \ raced :
        /\ r \in roomIdsToPoll <=> r \in convoHub \ orphans
        /\ r \in roomIdsToPoll <=> HasRow(r)
        /\ r \in roomIdsToPoll => r \in wrapper

\* The number a row keeps only passes messages that were taken: what will not be
\* asked for again is stored, is a job of the conversation or was deleted,
\* unless a failure, an end of the process or the leave of the room dropped it
\* (handleMessagesResponseV4 saves the number and does not wait for the jobs).
PolledIsHeld ==
    \A m \in Messages : seqno[m] \in 1..cachedRooms[RoomOf[m]] =>
        stored[m] > 0 \/ pending[m] > 0 \/ m \in deleted \cup lost

\* A message is stored once, whatever polls repeat an answer after a failure or
\* an end of the process and whatever polls of a stopped poller still handle
\* (filterDuplicatesFromDbAndIncomingV4, which does not see queued jobs).  Excepted
\* is a message with a job or a poll under way at the moment from which its room
\* is asked for from an old number again: a join writes the row of the room, when
\* it begins and when it saves it, the start polls a room that was not polled,
\* or a poll that queued the job fails to save its number.
StoredOnce == \A m \in Messages : stored[m] + pending[m] <= 1 \/ m \in doubled


\* "We consider the wrapper to be our source-of-truth" (OpenGroupUtils.ts:137):
\* a room the user joined on a device and left on none is in the wrapper, or
\* being joined.
MemberStays == \A r \in member : r \in wrapper \/ joining[r] # "no"

-----------------------------------------------------------------------------
(* The inductive invariants *)

\* A poll keeps what it asked and got until it is over; only one that handles an
\* answer outlives its poller.  An update is out of date once its message was
\* deleted.
PollFacts(q) ==
    /\ q.phase = "idle" => q = Idle
    /\ q.phase = "request" => q.got = {} /\ q.left = {} /\ ~q.stopped
    /\ q.left \subseteq Asked(q) /\ IsFiniteSet(q.got)
    /\ q.phase \in {"store", "save"} => q.room \in q.left /\ GotFor(q, q.room) # {}
    /\ \A u \in q.got :
         /\ u.seqno \in 1..seqno[u.msg] /\ u.seqno > q.since[RoomOf[u.msg]]
         /\ u.deleted => u.msg \in deleted
         /\ u.msg \in deleted \/ u.seqno = seqno[u.msg]

PollInv == \A p \in Polls : PollFacts(polls[p])

Held(m) == stored[m] > 0 \/ pending[m] > 0 \/ m \in deleted \cup lost

\* n is a number the room had, and what it passes is held
HeldUpTo(r, n) ==
    /\ n > 0 => \E m \in In(r) : n <= seqno[m]
    /\ \A m \in In(r) : seqno[m] \in 1..n => Held(m)

\* Of a room that was not joined again since, a poll has all there is between the
\* number it asked for and the last one it got, and has it stored before it
\* saves that number.
HeldBy(q) ==
    /\ \A r \in Asked(q) \ q.stale : HeldUpTo(r, q.since[r])
    /\ \A r \in q.left \ q.stale : \A m \in In(r) : \A u \in GotFor(q, r) :
         seqno[m] \in (q.since[r] + 1)..u.seqno => m \in deleted \/ \E v \in q.got : v.msg = m
    /\ q.phase = "save" /\ q.room \notin q.stale =>
         \A u \in GotFor(q, q.room) : u.deleted \/ Held(u.msg)

HeldInv ==
    /\ \A r \in Rooms : HeldUpTo(r, table[r]) /\ HeldUpTo(r, cachedRooms[r])
    /\ \A p \in Polls : HeldBy(polls[p])

\* The clean-up has not looked at the room.
Untouched(r) == isPolling = "no" \/ r \in toClean

\* Where a room stands while it is joined, left or cleaned up.
RoomFacts(r) ==
    /\ r \in convoTable => r \in convoHub /\ leaving[r] \notin {"row", "hub"}
    /\ r \in convoHub \ orphans => r \in convoTable \/ leaving[r] \in {"row", "hub"}
    /\ leaving[r] # "no" => r \in convoHub /\ (joining[r] = "no" \/ leaving[r] = "messages")
    /\ joining[r] = "info" => r \notin convoHub
    /\ joining[r] \in {"create", "commit"} => r \in convoHub
    /\ joining[r] = "commit" =>
         /\ r \notin inactive
         /\ HasRow(r) \/ (r \in raced /\ leaving[r] # "no")
    /\ r \in inactive => joining[r] = "create" \/ r \in orphans \cup raced
    /\ r \in orphans => ~HasRow(r) /\ r \in convoHub /\ joining[r] = "no"
    /\ r \in convoHub \ orphans => HasRow(r) \/ leaving[r] # "no" \/ joining[r] # "no"
    /\ r \in roomIdsToPoll =>
         \/ r \in raced
         \/ HasRow(r) /\ r \in convoHub /\ joining[r] = "no" /\ leaving[r] \in {"no", "messages"}
    /\ Untouched(r) =>
         /\ r \in roomIdsToPoll =>
              HasRow(r) /\ r \in convoHub /\ joining[r] = "no" /\ leaving[r] \in {"no", "messages"}
         /\ joining[r] = "commit" => HasRow(r)
    /\ isPolling = "yes" /\ joining[r] = "no" /\ leaving[r] \in {"no", "messages"} /\ HasRow(r)
          => r \in roomIdsToPoll
    /\ r \in roomIdsToPoll /\ leaving[r] = "no" => r \in wrapper \cup toLeave \cup raced
    /\ isPolling = "cleaning" /\ HasRow(r) =>
          \/ r \in wrapper \cup toClean \cup toLeave \cup raced
          \/ joining[r] # "no" \/ leaving[r] # "no" \/ r \notin convoHub

RoomInv ==
    /\ toClean # {} => isPolling = "cleaning"
    /\ \A r \in Rooms : RoomFacts(r)

\* messages poll q may still give to the conversation
ToTake(q) ==
    {u.msg : u \in {v \in q.got : /\ ~v.deleted /\ RoomOf[v.msg] \in q.left
                                  /\ q.phase # "save" \/ RoomOf[v.msg] # q.room}}

\* messages whose room gets a number that is past them
ToPass(q) ==
    {u.msg : u \in {v \in q.got : ~v.deleted /\ RoomOf[v.msg] = q.room /\ q.phase = "save"}}

\* A room is only asked for by the poll that may still move its number, unless
\* the room was joined again meanwhile.
AskedOnce(r) ==
    \A p \in Polls : r \in Asked(polls[p]) =>
        /\ joining[r] = "no" \/ r \in roomIdsToPoll
        /\ polls[p].stopped => r \notin roomIdsToPoll
        /\ \A x \in Polls \ {p} : r \notin Asked(polls[x])
        /\ polls[p].phase = "request" \/ r \in polls[p].left =>
             ~HasRow(r) \/ cachedRooms[r] = polls[p].since[r]

\* A message with a job is not taken again, by the polls there are or by those
\* to come; a room without a row is asked for, but its answer is skipped.
TakenOnce(m) ==
    /\ stored[m] + pending[m] <= 1
    /\ pending[m] > 0 =>
         /\ seqno[m] > 0
         /\ joining[RoomOf[m]] = "no" \/ RoomOf[m] \in roomIdsToPoll
         /\ \A p \in Polls : m \in ToTake(polls[p]) =>
              ~HasRow(RoomOf[m]) /\ ~(polls[p].phase = "store" /\ polls[p].room = RoomOf[m])
         /\ \/ m \in deleted
            \/ ~HasRow(RoomOf[m])
            \/ /\ \A p \in Polls :
                    polls[p].phase = "request" /\ RoomOf[m] \in Asked(polls[p]) =>
                       seqno[m] <= polls[p].since[RoomOf[m]]
               /\ RoomOf[m] \in roomIdsToPoll =>
                    \/ seqno[m] <= cachedRooms[RoomOf[m]]
                    \/ \E p \in Polls : ~polls[p].stopped /\ m \in ToPass(polls[p])

OnceInv == \A m \in Messages \ doubled : AskedOnce(RoomOf[m]) /\ TakenOnce(m)
=============================================================================
