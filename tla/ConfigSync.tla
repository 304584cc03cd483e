----------------------------- MODULE ConfigSync -----------------------------
(***************************************************************************)
(* Configuration sync: UserSyncJob and GroupSyncJob                        *)
(* (session/utils/job_runners/jobs), LibSessionUtil's collecting of what   *)
(* to push and reading of the results, MessageSender's sequence requests,  *)
(* and the merge of what a poll fetched (receiver/configMessage.ts,        *)
(* SwarmPollingGroupConfig.ts).                                            *)
(*                                                                         *)
(* A push dumps the configurations, collects the ones that changed, sends  *)
(* one sequence of stores and then the deletion of the obsolete messages,  *)
(* pairs the results with what it sent, confirms and dumps again.  Every   *)
(* call of a worker or of the network is an await: the user changes a      *)
(* configuration, a poll merges one, and a second push runs in between (a  *)
(* job that timed out keeps running beside its retry; for a group, the     *)
(* invites and removals push on their own).                                *)
(* For the user each configuration has calls of its own; those of a group  *)
(* go through one object, so each of its steps takes all of them.          *)
(***************************************************************************)
EXTENDS Libsession

CONSTANTS
    Kinds,          \* what is pushed: a subset of {"user", "group"}
    UserConfigs,    \* namespaces of the user's configurations, in their order
    OurChanges,     \* bound: changes made on this device
    TheirChanges,   \* bound: changes made on another device
    Pushes,         \* bound: pushes that overlap
    MaxGen,         \* bound: generations of a group's keys
    WithHistory,    \* whether members are added with supplemental keys
    MaxFaults       \* bound: failed requests and writes, ends of the process

ASSUME ConfigSyncAssumption ==
    /\ Kinds \subseteq {"user", "group"}
    /\ UserConfigs \in Seq(STRING) /\ UserConfigs # <<>>
    /\ \A i, j \in DOMAIN UserConfigs : UserConfigs[i] = UserConfigs[j] => i = j
    /\ ToSet(UserConfigs) \cap {"GroupKeys", "delete"} = {}
    /\ OurChanges \cap TheirChanges = {}
    /\ MaxGen \in Nat /\ MaxFaults \in Nat
    /\ WithHistory \in BOOLEAN

VARIABLES
    kind,         \* whose configurations they are
    config,       \* the configurations in the library's memory
    keys,         \* a group's keys: generation, and whether it is to be pushed
    undumped,     \* configurations whose needsDump is true
    disk,         \* the dumps in the database: [config, keys]
    polled,       \* configurations a poll has merged and not dumped yet
    swarm,        \* config messages the swarm has
    push,         \* the pushes under way
    stray,        \* requests whose sender gave up, that may still be served
    made,         \* changes made so far
    faults        \* failures so far

memory == <<config, keys, undumped>>
bounds == <<made, faults>>
vars == <<kind, memory, disk, polled, swarm, push, stray, bounds>>

GroupConfigs == <<"GroupInfo", "GroupMember">>
Order == IF kind = "user" THEN UserConfigs ELSE GroupConfigs
Configs == ToSet(Order)

\* a configuration of the user has calls of its own, a group's share them; the
\* i-th call of a phase is about the configurations in Chunk(i)
Calls == IF kind = "user" THEN Len(Order) ELSE 1
Object(w) == IF kind = "user" THEN {w} ELSE Configs
Chunk(i) == Object(Order[i])

KeysMessage(gen) ==
    [ns |-> "GroupKeys", seqno |-> gen, changes |-> {}, gen |-> gen, part |-> 1]

\* a message that gives new members the keys so far
SupplementalKeys(gen) ==
    [ns |-> "GroupKeys", seqno |-> gen, changes |-> {}, gen |-> gen, part |-> 2]

DeleteHashes(old) == [ns |-> "delete", hashes |-> old]

Idle == [phase |-> "idle", at |-> 1, sent |-> <<>>, old |-> {}, extra |-> <<>>, ok |-> 0, results |-> 0]

Hashes(ns) ==
    [ns : {ns}, seqno : Nat, changes : SUBSET (OurChanges \cup TheirChanges),
     gen : 0..MaxGen, part : 1..Parts]

TypeOK ==
    /\ kind \in Kinds
    /\ \A w \in Configs :
         /\ config[w].state \in {"clean", "dirty", "waiting"}
         /\ config[w].state # "clean" => config[w].hashes = {}
         /\ \A m \in config[w].hashes \cup config[w].old : m \in Hashes(w)
    /\ undumped \subseteq Configs /\ polled \subseteq Configs
    /\ keys.gen \in 0..MaxGen
    /\ \A p \in Pushes : push[p].results \in 0..Len(push[p].sent) + 2

Init ==
    /\ kind \in Kinds
    /\ config = [w \in Configs |-> Empty]
    /\ keys = [gen |-> 0, pending |-> FALSE]
    /\ undumped = {}
    /\ disk = [config |-> config, keys |-> keys]
    /\ polled = {} /\ swarm = {KeysMessage(0)} /\ stray = {}
    /\ push = [p \in Pushes |-> Idle]
    /\ made = {} /\ faults = 0

Fault == faults < MaxFaults /\ faults' = faults + 1

-----------------------------------------------------------------------------
(* What changes the configurations *)

\* the user changes a setting, a contact, the name of a group, a member
Change(w, c) ==
    /\ c \notin made
    /\ made' = made \cup {c}
    /\ config' = [config EXCEPT ![w] = set(@, c)]
    /\ undumped' = undumped \cup Object(w)
    /\ UNCHANGED <<kind, keys, disk, polled, swarm, push, stray, faults>>

\* keyRekey: new keys, and everything is to be encrypted and pushed again
keyRekey ==
    /\ keys' = [gen |-> keys.gen + 1, pending |-> TRUE]
    /\ config' = [w \in Configs |-> MarkDirty(config[w])]
    /\ undumped' = Configs

-----------------------------------------------------------------------------
(* A push *)

In(p, phase) == push[p].phase = phase

\* the next call of the phase, or the next phase
Step(p, phase) ==
    IF push[p].at < Calls
    THEN push' = [push EXCEPT ![p].at = @ + 1]
    ELSE push' = [push EXCEPT ![p] =
            IF phase = "idle" THEN Idle ELSE [@ EXCEPT !.at = 1, !.phase = phase]]

End(p) == push' = [push EXCEPT ![p] = Idle]

\* seeded fault: nothing to dump is taken for nothing to push
StartPush_ifUndumped(p) ==
    /\ In(p, "idle")
    /\ push' = [push EXCEPT ![p] = IF undumped = {} THEN @ ELSE [Idle EXCEPT !.phase = "dump"]]
    /\ UNCHANGED <<kind, memory, disk, polled, swarm, stray, bounds>>

\* a job runs: every five seconds for the user, after a merge for a group
StartPush(p) ==
    /\ In(p, "idle")
    /\ push' = [push EXCEPT ![p] = [Idle EXCEPT !.phase = "dump"]]
    /\ UNCHANGED <<kind, memory, disk, polled, swarm, stray, bounds>>

\* handleMemberAddedFromUI: the group gets new keys, and those who are added
\* withHistory the old ones, in front of the same push
handleMemberAddedFromUI(p) ==
    /\ kind = "group" /\ keys.gen < MaxGen
    /\ In(p, "idle")
    /\ push' = [push EXCEPT ![p] =
         [Idle EXCEPT !.phase = "dump",
                      !.extra = IF WithHistory THEN <<SupplementalKeys(keys.gen)>> ELSE <<>>]]
    /\ keyRekey
    /\ UNCHANGED <<kind, disk, polled, swarm, stray, bounds>>

\* the dump of the configurations in ws that need one; keys go with a group's
Dump(ws) ==
    /\ undumped' = undumped \ ws
    /\ disk' = [config |-> [w \in Configs |->
                              IF w \in ws \cap undumped THEN config[w] ELSE disk.config[w]],
                keys |-> IF ws \cap undumped = {} THEN disk.keys ELSE keys]

\* saveDumpsToDb, before the push and after its confirmation
saveDumpsToDb(p, phase, next) ==
    /\ In(p, phase)
    /\ Dump(Chunk(push[p].at))
    /\ Step(p, next)
    /\ UNCHANGED <<kind, config, keys, polled, swarm, stray, bounds>>

\* The write is rejected: the library thinks it was dumped.  The job of the
\* user fails; the error of a group's is caught.
DumpFails(p) ==
    /\ Fault
    /\ push[p].phase \in {"dump", "save"}
    /\ Chunk(push[p].at) \cap undumped # {}
    /\ undumped' = undumped \ Chunk(push[p].at)
    /\ IF kind = "user" THEN End(p)
       ELSE Step(p, IF In(p, "dump") THEN "collect" ELSE "idle")
    /\ UNCHANGED <<kind, config, keys, disk, polled, swarm, stray, made>>

Obsolete(ws) == UNION {config[w].old : w \in ws}

\* the messages to store for a configuration that changed
Changed(w, gen) ==
    IF needsPush(config[w]) THEN Content(w, config[w].seqno, config[w].changes, gen) ELSE <<>>

PendingKeys == IF keys.pending THEN <<KeysMessage(keys.gen)>> ELSE <<>>

\* seeded fault: a group's keys last
Collected_keysLast(i) ==
    IF kind = "user" THEN Changed(Order[i], 0)
    ELSE Changed("GroupInfo", keys.gen) \o Changed("GroupMember", keys.gen) \o PendingKeys

\* what the i-th call collects: the keys of a group come first
Collected(i) ==
    IF kind = "user" THEN Changed(Order[i], 0)
    ELSE PendingKeys \o Changed("GroupInfo", keys.gen) \o Changed("GroupMember", keys.gen)

\* pendingChangesForUs, pendingChangesForGroup; nothing to push ends it
PendingChanges(p) ==
    /\ In(p, "collect")
    /\ LET r == push[p]
           ws == {w \in Chunk(r.at) : needsPush(config[w])}
           sent == r.sent \o Collected(r.at)
           last == r.at = Calls
       IN  /\ config' = [w \in Configs |-> IF w \in ws THEN Pushed(config[w]) ELSE config[w]]
           /\ undumped' = undumped \cup UNION {Object(w) : w \in {u \in ws : config[u].state = "dirty"}}
           /\ push' = [push EXCEPT ![p] =
                IF last /\ sent = <<>> /\ r.extra = <<>> THEN Idle
                ELSE [r EXCEPT !.sent = sent, !.old = r.old \cup Obsolete(ws),
                               !.at = IF last THEN 1 ELSE r.at + 1,
                               !.phase = IF last THEN "request" ELSE "collect"]]
    /\ UNCHANGED <<kind, keys, disk, polled, swarm, stray, bounds>>

\* seeded fault: the deletion goes first
SortedSubRequests_deleteFirst(r) ==
    (IF r.old = {} THEN <<>> ELSE <<DeleteHashes(r.old)>>) \o r.extra \o r.sent

\* the sequence that is sent
SortedSubRequests(r) ==
    r.extra \o r.sent \o (IF r.old = {} THEN <<>> ELSE <<DeleteHashes(r.old)>>)

\* the swarm once the requests were served, one after the other: the messages
\* that were there or were stored, and not deleted after
Served(messages, requests) ==
    LET Stores == {i \in DOMAIN requests : requests[i].ns # "delete"}
        DeletedAfter(m, i) == \E j \in DOMAIN requests \ Stores : j > i /\ m \in requests[j].hashes
    IN  {m \in messages : ~DeletedAfter(m, 0)}
            \cup {requests[i] : i \in {k \in Stores : ~DeletedAfter(requests[k], k)}}

\* The service node runs the sequence: all of it, or up to the first request
\* that fails, whose result is the last.  When the first one fails the code
\* throws, which is RequestFails.
ServeRequest(p) ==
    /\ In(p, "request")
    /\ LET requests == SortedSubRequests(push[p])
       IN  \E ok \in 1..Len(requests) :
             /\ IF ok = Len(requests) THEN UNCHANGED faults ELSE Fault
             /\ swarm' = Served(swarm, SubSeq(requests, 1, ok))
             /\ push' = [push EXCEPT ![p].phase = "reply", ![p].ok = ok,
                           ![p].results = IF ok = Len(requests) THEN ok ELSE ok + 1]
    /\ UNCHANGED <<kind, memory, disk, polled, stray, made>>

\* No answer, or an error: sent again, or given up after three times, which
\* ends this run of the job.  The request may be served all the same, later.
RequestFails(p) ==
    /\ Fault
    /\ In(p, "request")
    /\ UNCHANGED push \/ End(p)
    /\ stray' \in {stray, stray \cup {SortedSubRequests(push[p])}}
    /\ UNCHANGED <<kind, memory, disk, polled, swarm, made>>

ServeStray ==
    /\ \E requests \in stray :
         /\ swarm' = Served(swarm, requests)
         /\ stray' = stray \ {requests}
    /\ UNCHANGED <<kind, memory, disk, polled, push, bounds>>

ExpectedReplyLength(r) == Len(SortedSubRequests(r))

\* seeded fault: the code of a result is not looked at
ResultHash_anyCode(r, i) ==
    IF SortedSubRequests(r)[i].ns # "delete" THEN {SortedSubRequests(r)[i]} ELSE {}

\* seeded fault: the results are counted from one more
ResultHash_next(r, i) ==
    IF i + 1 <= r.ok /\ SortedSubRequests(r)[i + 1].ns # "delete"
    THEN {SortedSubRequests(r)[i + 1]} ELSE {}

\* hashOfResultShouldBeIncluded: the i-th message sent is paired with the i-th
\* result, which has a hash when it is the one of a store that succeeded
ResultHash(r, i) ==
    IF i <= r.ok /\ SortedSubRequests(r)[i].ns # "delete" THEN {SortedSubRequests(r)[i]} ELSE {}

Indexes(r, ns) == {i \in 1..Len(r.sent) : r.sent[i].ns = ns}

\* seeded fault: some of the parts are enough
ConfirmedHashes_some(r, ns) == UNION {ResultHash(r, i) : i \in Indexes(r, ns)}

\* ...MultiPartDetailsToConfirmPushed: all the parts of a namespace, or none
ConfirmedHashes(r, ns) ==
    LET hashes == UNION {ResultHash(r, i) : i \in Indexes(r, ns)}
    IN  IF Cardinality(hashes) = Cardinality(Indexes(r, ns)) THEN hashes ELSE {}

\* batchResultsTo...SuccessfulChange
HandleReply(p) ==
    /\ In(p, "reply")
    /\ LET r == push[p]
           confirmed == UNION {ConfirmedHashes(r, ns) : ns \in Configs \cup {"GroupKeys"}}
       IN  IF \/ r.results < ExpectedReplyLength(r)
              \/ (r.sent # <<>> \/ r.old # {}) /\ confirmed = {}
           THEN End(p)
           ELSE push' = [push EXCEPT ![p].phase = "confirm"]
    /\ UNCHANGED <<kind, memory, disk, polled, swarm, stray, bounds>>

PushedSeqno(r, w) == r.sent[Min(Indexes(r, w))].seqno

\* confirmPushedAndDump: the keys of a group are confirmed when they are fetched
confirm(p) ==
    /\ In(p, "confirm")
    /\ LET r == push[p]
           ws == {w \in Chunk(r.at) : ConfirmedHashes(r, w) # {}}
       IN  /\ config' = [w \in Configs |->
                IF w \in ws THEN confirmPushed(config[w], PushedSeqno(r, w), ConfirmedHashes(r, w))
                ELSE config[w]]
           /\ undumped' = undumped \cup UNION {Object(w) : w \in {u \in ws : config'[u] # config[u]}}
    /\ Step(p, "save")
    /\ UNCHANGED <<kind, keys, disk, polled, swarm, stray, bounds>>

-----------------------------------------------------------------------------
(* Other devices, and what a poll fetches from the swarm *)

\* the versions of a configuration all parts of which are among messages
Versions(w, messages) ==
    {v \in {[seqno |-> m.seqno, changes |-> m.changes,
             hashes |-> ToSet(Content(w, m.seqno, m.changes, m.gen))] :
                m \in {m \in messages : m.ns = w}} :
        v.hashes \subseteq messages}

\* messages of keys a device that polls may have fetched
KeysOnSwarm == {m \in swarm : m.ns = "GroupKeys"}

\* Another device has merged some of the versions, at any time before, and
\* pushes its change: it stores the new version and deletes those it merged.
OtherDevice(w, c) ==
    /\ c \notin made
    /\ made' = made \cup {c}
    /\ \E merged \in SUBSET Versions(w, swarm) : \E k \in KeysOnSwarm :
         LET seqno == Max({0} \cup {v.seqno : v \in merged}) + 1
             changes == {c} \cup UNION {v.changes : v \in merged}
         IN  swarm' = (swarm \cup ToSet(Content(w, seqno, changes, k.gen)))
                          \ UNION {v.hashes : v \in merged}
    /\ UNCHANGED <<kind, memory, disk, polled, push, stray, faults>>

\* what a poll has fetched that ours does not know
Fetched(w) ==
    {v \in Versions(w, swarm) :
        /\ ~(v.hashes \subseteq config[w].hashes \cup config[w].old)
        /\ ~(v.seqno = config[w].seqno /\ v.changes = config[w].changes)}

\* mergeUserConfigsWithIncomingUpdates, metaMerge: what a poll fetched goes into
\* the library; the keys of a group that come back are confirmed.
Merge(w) ==
    LET ws == Object(w)
        newer == {k \in KeysOnSwarm : k.gen >= keys.gen}
    IN  /\ IF newer = {} THEN keys' = keys
           ELSE \E k \in newer : keys' = [gen |-> k.gen, pending |-> FALSE]
        /\ (\E u \in ws : Fetched(u) # {}) \/ keys' # keys
        /\ config' = [u \in Configs |->
             IF u \in ws /\ Fetched(u) # {} THEN merge(config[u], Fetched(u)) ELSE config[u]]
        /\ undumped' = undumped \cup ws
        /\ polled' = polled \cup ws
        /\ UNCHANGED <<kind, disk, swarm, push, stray, bounds>>

\* processUserMergingResults, handleMetaMergeResults
DumpMerged(w) ==
    /\ w \in polled
    /\ Dump(Object(w))
    /\ polled' = polled \ Object(w)
    /\ UNCHANGED <<kind, config, keys, swarm, push, stray, bounds>>

\* The process ends: the library is loaded from the dumps.
Crash ==
    /\ Fault
    /\ config' = disk.config /\ keys' = disk.keys
    /\ undumped' = {} /\ polled' = {}
    /\ push' = [p \in Pushes |-> Idle]
    /\ stray' \in {stray} \cup {stray \cup {SortedSubRequests(push[p])} :
                                   p \in {q \in Pushes : In(q, "request")}}
    /\ UNCHANGED <<kind, disk, swarm, made>>

-----------------------------------------------------------------------------

PushStep(p) ==
    \/ saveDumpsToDb(p, "dump", "collect") \/ PendingChanges(p)
    \/ ServeRequest(p) \/ HandleReply(p)
    \/ confirm(p) \/ saveDumpsToDb(p, "save", "idle")

Next ==
    \/ \E w \in Configs : \E c \in OurChanges : Change(w, c)
    \/ \E w \in Configs : \E c \in TheirChanges : OtherDevice(w, c)
    \/ \E w \in Configs : Merge(w) \/ DumpMerged(w)
    \/ \E p \in Pushes :
         \/ StartPush(p) \/ handleMemberAddedFromUI(p) \/ PushStep(p)
         \/ DumpFails(p) \/ RequestFails(p)
    \/ ServeStray
    \/ Crash

Spec == Init /\ [][Next]_vars

\* The job of the user is queued every five seconds, requests and writes settle.
FairSpec ==
    /\ Spec
    /\ \A p \in Pushes :
         /\ WF_vars(kind = "user" /\ StartPush(p))
         /\ WF_vars(PushStep(p))

-----------------------------------------------------------------------------
(* Properties *)

\* the changes the swarm has, all parts of a version being there
Stored(w) == UNION {v.changes : v \in Versions(w, swarm)}

\* A configuration that is taken to be pushed, in memory or in the dump the
\* next start loads, is on the swarm with all its changes, whatever changed,
\* was merged or pushed between the request and its confirmation
\* (confirmPushedAndDump).
CleanIsStored ==
    \A w \in Configs : \A c \in {config[w], disk.config[w]} :
        c.state = "clean" => c.changes \subseteq Stored(w)

\* A change the swarm once had is never deleted from it: the obsolete messages
\* go after what replaces them is stored (the sequence of a push), also when a
\* request is served after its sender gave up.
ChangesStay == [][\A w \in Configs : Stored(w) \subseteq Stored(w)']_vars

\* "We need the keys to be pushed first to avoid a race condition"
\* (libsession_utils.ts:208): a message of a group's configuration is never on
\* the swarm without the keys it is encrypted with.
KeysFirst ==
    \A m \in swarm : m.ns # "GroupKeys" /\ kind = "group" => KeysMessage(m.gen) \in swarm

\* A change of one of the user's configurations reaches the swarm, unless the
\* process ends before it was dumped, whatever requests fail.
EveryChangeArrives ==
    \A c \in OurChanges : \A w \in ToSet(UserConfigs) :
        kind = "user" /\ c \in config[w].changes
            ~> c \in Stored(w) \/ c \notin config[w].changes

-----------------------------------------------------------------------------
(* The inductive invariant, when no member is added with history *)

Messages ==
    [ns : Configs \cup {"GroupKeys"}, seqno : Nat,
     changes : SUBSET (OurChanges \cup TheirChanges), gen : 0..MaxGen, part : 1..Parts]

Requests == Messages \cup [ns : {"delete"}, hashes : SUBSET Messages]

Configuration ==
    [seqno : Nat, changes : SUBSET (OurChanges \cup TheirChanges),
     state : {"clean", "dirty", "waiting"},
     hashes : SUBSET Messages, old : SUBSET Messages]

GroupKeys == [gen : 0..MaxGen, pending : BOOLEAN]

Push ==
    [phase : {"idle", "dump", "collect", "request", "reply", "confirm", "save"}, at : Nat \ {0},
     sent : Seq(Messages), old : SUBSET Messages, extra : {<<>>}, ok : Nat, results : Nat]

\* the message and the other parts of its version
Version(m) == ToSet(Content(m.ns, m.seqno, m.changes, m.gen))

\* what a configuration keeps of its own messages and of those it replaced
ConfigInv(w, c) ==
    /\ c.state # "clean" => c.hashes = {}
    /\ \A m \in c.hashes : m.ns = w /\ m.seqno = c.seqno /\ m.changes = c.changes
    /\ \A m \in c.old : m.ns = w /\ m.seqno < c.seqno /\ m.changes \subseteq c.changes

\* what a deletion removes is part of what the same requests store
Replaced(m, requests) ==
    /\ m.ns \in Configs
    /\ \E i \in DOMAIN requests : requests[i].ns = m.ns
    /\ \A i \in DOMAIN requests : requests[i].ns = m.ns =>
         m.seqno < requests[i].seqno /\ m.changes \subseteq requests[i].changes

\* A request for a configuration comes with the other parts of its version, and
\* with no other version; a deletion comes last.
Orderly(requests) ==
    \A i \in DOMAIN requests :
        /\ requests[i].ns \in Configs =>
             /\ Version(requests[i]) \subseteq ToSet(requests)
             /\ \A j \in DOMAIN requests :
                  requests[j].ns = requests[i].ns => requests[j] \in Version(requests[i])
        /\ requests[i].ns = "GroupKeys" => requests[i] = KeysMessage(requests[i].gen)
        /\ requests[i].ns = "delete" =>
             i = Len(requests) /\ \A m \in requests[i].hashes : Replaced(m, requests)

\* what is encrypted follows its keys
KeysLead(requests) ==
    \A i \in DOMAIN requests : requests[i].ns \in Configs =>
        \/ KeysMessage(requests[i].gen) \in swarm
        \/ \E j \in 1..(i - 1) : requests[j] = KeysMessage(requests[i].gen)

\* what can be sent, whenever it is served
Sendable(requests) == requests \in Seq(Requests) /\ Orderly(requests) /\ KeysLead(requests)

SwarmInv ==
    /\ IsFiniteSet(swarm) /\ swarm \subseteq Messages
    /\ KeysMessage(0) \in swarm
    /\ \A m \in swarm :
         /\ KeysMessage(m.gen) \in swarm
         /\ m.ns = "GroupKeys" => m = KeysMessage(m.gen)

\* Configurations and keys, in memory or in the dumps, that can be loaded: what
\* they take to be pushed is on the swarm.
Backed(configs, group) ==
    /\ configs \in [Configs -> Configuration] /\ group \in GroupKeys
    /\ \A w \in Configs :
         /\ ConfigInv(w, configs[w])
         /\ configs[w].state = "clean" => configs[w].changes \subseteq Stored(w)
    /\ ~group.pending => KeysMessage(group.gen) \in swarm

\* A push still has to collect what its calls to come are about, and then it has
\* as many results as the node gave.
PushInv(r) ==
    /\ r.at <= Calls
    /\ r.results <= Len(r.sent) + 1
    /\ r.phase \in {"idle", "dump"} => r.sent = <<>> /\ r.old = {}
    /\ r.phase = "collect" =>
         /\ r.at = 1 => r.sent = <<>> /\ r.old = {}
         /\ \A i \in DOMAIN r.sent : \A j \in r.at..Calls : r.sent[i].ns \notin Chunk(j)

\* m is an older version, or the one c has
Known(m, c) ==
    \/ m.seqno < c.seqno
    \/ m.seqno = c.seqno /\ m.changes = c.changes /\ c.state # "dirty"

SentIsKnown(r) ==
    \A i \in DOMAIN r.sent : r.sent[i].ns \in Configs => Known(r.sent[i], config[r.sent[i].ns])

\* what was served whole is on the swarm, or in what replaced it
ServedIsStored(r) ==
    r.phase \in {"reply", "confirm"} =>
        \A w \in Configs : (\A i \in Indexes(r, w) : i <= r.ok) =>
            \A i \in Indexes(r, w) : r.sent[i].changes \subseteq Stored(w)

GoesOn(r) ==
    /\ r \in Push /\ PushInv(r) /\ SentIsKnown(r) /\ ServedIsStored(r)
    /\ Sendable(SortedSubRequests(r))

SyncInv ==
    /\ kind \in Kinds /\ made \subseteq OurChanges \cup TheirChanges
    /\ undumped \subseteq Configs /\ polled \subseteq Configs
    /\ Backed(config, keys)
    /\ disk = [config |-> disk.config, keys |-> disk.keys] /\ Backed(disk.config, disk.keys)
    /\ SwarmInv
    /\ push = [p \in Pushes |-> push[p]] /\ \A p \in Pushes : GoesOn(push[p])
    /\ \A q \in stray : Sendable(q)
=============================================================================
