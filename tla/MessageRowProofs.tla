-------------------------- MODULE MessageRowProofs --------------------------
(***************************************************************************)
(* What holds of the row of a message for every number of attempts,        *)
(* retries, attachments and failures: that a message shown as sent was     *)
(* stored for its recipient, that one which reached nobody does not        *)
(* disappear, and how many downloads run at a time.                        *)
(***************************************************************************)
EXTENDS MessageRow, SequenceTheorems, FiniteSetTheorems, TLAPS

-----------------------------------------------------------------------------
(* Statements *)

LEMMA Issued ==
    ASSUME NEW S, ipc \in Seq(S), NEW new \in Seq(S)
    PROVE  /\ Issue(new) => ipc' \in Seq(S)
           /\ ipc # <<>> /\ IssueAfterHead(new) => ipc' \in Seq(S)
<1>1. ipc \o new \in Seq(S)
    BY ConcatProperties
<1>2. ipc # <<>> => Tail(ipc) \in Seq(S)
    BY HeadTailProperties
<1>3. ipc # <<>> => Tail(ipc) \o new \in Seq(S)
    BY <1>2, ConcatProperties
<1>4. QED
    BY <1>1, <1>3 DEF Issue, IssueAfterHead

LEMMA StatementTypes ==
    ASSUME NEW rows, NEW by \in Issuers
    PROVE  /\ Read(by) \in Statements(rows)
           /\ Delete(by) \in Statements(rows)
           /\ \A r \in rows : Save(by, r) \in Statements(rows)
           /\ <<Read(by)>> \in Seq(Statements(rows))
           /\ <<Delete(by)>> \in Seq(Statements(rows))
           /\ \A r \in rows : <<Save(by, r)>> \in Seq(Statements(rows))
<1>1. /\ Read(by) \in Statements(rows) /\ Delete(by) \in Statements(rows)
      /\ \A r \in rows : Save(by, r) \in Statements(rows)
    BY DEF Statements, Read, Delete, Save, Statement
<1>2. \A s \in Statements(rows) : <<s>> \in Seq(Statements(rows))
    OBVIOUS
<1>3. QED
    BY <1>1, <1>2

\* what the statement that is run next was issued with
LEMMA TurnTaken ==
    ASSUME NEW rows, RowsIn(rows), NEW by, NEW op, Turn(by, op)
    PROVE  /\ ipc # <<>> /\ ipc \in Seq(Statements(rows))
           /\ Tail(ipc) \in Seq(Statements(rows))
           /\ by \in Issuers
           /\ op = "save" => Head(ipc).arg \in rows
           /\ op \in {"addJob", "setPending", "saveJob", "removeJob"} =>
                Head(ipc).arg \in [a : Attachments, job : Jobs]
<1>1. ipc # <<>> /\ ipc \in Seq(Statements(rows)) /\ Head(ipc).by = by /\ Head(ipc).op = op
    BY DEF RowsIn, Turn
<1>2. Head(ipc) \in Statements(rows) /\ Tail(ipc) \in Seq(Statements(rows))
    BY <1>1, HeadTailProperties
<1>3. \A s \in Statements(rows) :
        /\ s.by \in Issuers
        /\ s.op = "save" => s.arg \in rows
        /\ s.op \in {"addJob", "setPending", "saveJob", "removeJob"} =>
             s.arg \in [a : Attachments, job : Jobs]
    BY DEF Statements, Issuers
<1>4. QED
    BY <1>1, <1>2, <1>3

LEMMA RowsGrow ==
    ASSUME NEW rows, NEW bigger, rows \subseteq bigger
    PROVE  Seq(Statements(rows)) \subseteq Seq(Statements(bigger))
<1>1. Statements(rows) \subseteq Statements(bigger)
    BY DEF Statements
<1> HIDE DEF Statements
<1>2. QED
    BY <1>1

\* the users of the table: the row, the expiry, and what a constructor saves
LEMMA TableKeepsRows ==
    ASSUME NEW rows, RowsIn(rows), TableNext
    PROVE  row' \in rows \cup {NoRow} /\ ipc' \in Seq(Statements(rows))
<1>1. /\ row \in rows \cup {NoRow} /\ ipc \in Seq(Statements(rows))
      /\ <<>> \in Seq(Statements(rows))
    BY DEF RowsIn
<1>2. /\ <<Delete("user")>> \in Seq(Statements(rows))
      /\ <<Delete("expiry")>> \in Seq(Statements(rows))
      /\ <<Read("expiry")>> \in Seq(Statements(rows))
  <2>1. "user" \in Issuers /\ "expiry" \in Issuers
    BY DEF Issuers
  <2>2. QED
    BY <2>1, StatementTypes
<1>3. CASE ModelSaved
    BY <1>1, <1>3, TurnTaken, Issued DEF ModelSaved, saveMessage
<1>4. CASE Removed
    BY <1>1, <1>4, TurnTaken, Issued DEF Removed
<1>5. CASE checkExpiringMessages
    BY <1>1, <1>5 DEF checkExpiringMessages
<1>6. CASE destroyExpiredMessages
    BY <1>1, <1>2, <1>6, Issued DEF destroyExpiredMessages
<1>7. CASE CleanedUp
    BY <1>1, <1>2, <1>7, TurnTaken, Issued DEF CleanedUp
<1>8. CASE Destroyed
    BY <1>1, <1>8, TurnTaken, Issued DEF Destroyed
<1>9. CASE removeMessage
    BY <1>1, <1>2, <1>9, Issued DEF removeMessage
<1>10. CASE DestroyFails
    BY <1>1, <1>10, TurnTaken, Issued DEF DestroyFails
<1>11. QED
    BY <1>3, <1>4, <1>5, <1>6, <1>7, <1>8, <1>9, <1>10 DEF TableNext, TableStep, ExpiryStep

LEMMA FaultsBounded ==
    ASSUME faults \in 0..MaxFaults, Fault \/ UNCHANGED faults
    PROVE  faults' \in 0..MaxFaults
    BY FaultsAssumption DEF Fault

\* what the constructor of a message saves is a row as good as the one it read
LEMMA ModelSaves ==
    ASSUME NEW rows, RowsIn(rows), \A r \in rows : Model(r) \in rows
    PROVE  SavedByModel(row) \in Seq(Statements(rows))
<1>1. "model" \in Issuers
    BY DEF Issuers
<1>2. CASE row \in rows
  <2>1. Save("model", Model(row)) \in Statements(rows)
    BY <1>1, <1>2, StatementTypes
  <2>2. QED
    BY <2>1 DEF SavedByModel
<1>3. CASE row = NoRow
    BY <1>3 DEF SavedByModel, Exists, NoRow
<1>4. QED
    BY <1>2, <1>3 DEF RowsIn

\* a save by who read the row, behind the one of the constructor
LEMMA SavesBehindModel ==
    ASSUME NEW rows, RowsIn(rows), \A r \in rows : Model(r) \in rows,
           NEW new \in Seq(Statements(rows)), ipc # <<>>
    PROVE  /\ SavedByModel(row) \o new \in Seq(Statements(rows))
           /\ IssueAfterHead(SavedByModel(row) \o new) => ipc' \in Seq(Statements(rows))
<1>1. SavedByModel(row) \o new \in Seq(Statements(rows))
  <2>1. SavedByModel(row) \in Seq(Statements(rows))
    BY ModelSaves
  <2> HIDE DEF SavedByModel
  <2>2. QED
    BY <2>1
<1>2. QED
    BY <1>1, Issued DEF RowsIn

-----------------------------------------------------------------------------
(* Rows of a message we send *)

LEMMA TruthfulRows ==
    ASSUME NEW st, NEW r \in Truthful(st)
    PROVE  /\ Exists(r) /\ r # NoRow /\ r.kind = "outgoing"
           /\ r \in OutgoingRow
           /\ Model(r) \in Truthful(st)
           /\ Cleared(r) \in Truthful(st)
           /\ [r EXCEPT !.errors = TRUE] \in Truthful(st)
           /\ [r EXCEPT !.sentSync = TRUE] \in Truthful(st)
<1>1. r \in OutgoingRow /\ Exists(r) /\ r # NoRow /\ r.kind = "outgoing"
    BY DEF Truthful, OutgoingRow, Exists, NoRow
<1>2. Model(r) \in Truthful(st)
    BY <1>1 DEF Truthful, OutgoingRow, Model
<1>3. Cleared(r) \in Truthful(st)
    BY <1>1 DEF Truthful, OutgoingRow, Cleared
<1>4. [r EXCEPT !.errors = TRUE] \in Truthful(st)
    BY <1>1 DEF Truthful, OutgoingRow
<1>5. [r EXCEPT !.sentSync = TRUE] \in Truthful(st)
    BY <1>1 DEF Truthful, OutgoingRow
<1>6. QED
    BY <1>1, <1>2, <1>3, <1>4, <1>5

\* once the recipient has it, the message may be shown as sent
LEMMA SentToIsTruthful ==
    ASSUME NEW st, NEW r \in Truthful(st), NEW d \in Sends, "them" \in st
    PROVE  SentTo(r, d) \in Truthful(st)
    BY DEF Truthful, OutgoingRow, SentTo, Sends

\* one with an error is not shown as sent
LEMMA NotSentIsTruthful ==
    ASSUME NEW st, NEW r \in Truthful(st), r.errors, NEW d \in Sends
    PROVE  NotSent(r, d) \in Truthful(st)
    BY DEF Truthful, OutgoingRow, NotSent, Sends

LEMMA TruthfulGrows ==
    ASSUME NEW st, NEW more, st \subseteq more
    PROVE  Truthful(st) \subseteq Truthful(more)
    BY DEF Truthful

-----------------------------------------------------------------------------
(* The steps of a send *)

\* w goes on at pc, and keeps its copy
LEMMA Goes ==
    ASSUME SentTypes, NEW w \in Writers, NEW pc \in Places, Goto(w, pc)
    PROVE  /\ writer' \in [Writers -> Writer(Truthful(stored))]
           /\ writer'[w].pc = pc /\ writer'[w].copy = writer[w].copy
           /\ \A v \in Writers \ {w} : writer'[v] = writer[v]
    BY DEF SentTypes, Goto, Writer

\* w goes on at pc with r, which it has issued the save of
LEMMA Commits ==
    ASSUME SentTypes, NEW w \in Writers, NEW r \in Truthful(stored), NEW pc \in Places,
           ipc # <<>>, Commit(w, r, pc)
    PROVE  /\ writer' \in [Writers -> Writer(Truthful(stored))]
           /\ writer'[w].pc = pc /\ writer'[w].copy = r
           /\ \A v \in Writers \ {w} : writer'[v] = writer[v]
           /\ ipc' \in Seq(Statements(Truthful(stored)))
<1>1. writer' = [writer EXCEPT ![w].pc = pc, ![w].copy = r]
    BY DEF Commit
<1>2. /\ writer' \in [Writers -> Writer(Truthful(stored))]
      /\ writer'[w].pc = pc /\ writer'[w].copy = r
      /\ \A v \in Writers \ {w} : writer'[v] = writer[v]
    BY <1>1 DEF SentTypes, Writer
<1>3. ipc' \in Seq(Statements(Truthful(stored)))
  <2>1. w \in Issuers
    BY DEF Writers, Issuers
  <2>2. <<Save(w, r)>> \in Seq(Statements(Truthful(stored)))
    BY <2>1, StatementTypes
  <2>3. \A x \in Truthful(stored) : Model(x) \in Truthful(stored)
    BY TruthfulRows
  <2>4. IssueAfterHead(SavedByModel(row) \o <<Save(w, r)>>)
    BY DEF Commit
  <2>5. QED
    BY <2>2, <2>3, <2>4, SavesBehindModel DEF SentTypes
<1>4. QED
    BY <1>2, <1>3

\* the save w waits for is done, and w goes on
LEMMA CommitIsTrue ==
    ASSUME SentTypes, NEW w \in Writers, NEW pc, Committed(w, pc),
           NEW new \in Seq(Statements(Truthful(stored))), IssueAfterHead(new)
    PROVE  row' \in Truthful(stored) /\ ipc' \in Seq(Statements(Truthful(stored)))
<1>1. RowsIn(Truthful(stored)) /\ Turn(w, "save") /\ row' = Head(ipc).arg
    BY DEF SentTypes, Committed, saveMessage
<1>2. /\ ipc # <<>> /\ ipc \in Seq(Statements(Truthful(stored)))
      /\ Head(ipc).arg \in Truthful(stored)
    BY <1>1, TurnTaken
<1>3. QED
    BY <1>1, <1>2, Issued

\* A step of w leaves what the others claim right: what was stored stays so.
LEMMA OthersAreJustified ==
    ASSUME SentInv, NEW w \in Writers, stored \subseteq stored',
           \A v \in Writers \ {w} : writer'[v] = writer[v],
           Justified(w, writer'[w], stored')
    PROVE  \A v \in Writers : Justified(v, writer'[v], stored')
<1> SUFFICES ASSUME NEW v \in Writers, v # w
             PROVE  Justified(v, writer'[v], stored')
    OBVIOUS
<1>1. Justified(v, writer[v], stored) /\ writer'[v] = writer[v]
    BY DEF SentInv
<1>2. QED
    BY <1>1 DEF Justified, At

\* what a step that stores nothing has to show
LEMMA StepOfWriter ==
    ASSUME SentInv, NEW w \in Writers, UNCHANGED stored,
           row' \in Truthful(stored) \cup {NoRow}, ipc' \in Seq(Statements(Truthful(stored))),
           queued' \subseteq Sends, "us" \in queued' => "them" \in stored,
           writer' \in [Writers -> Writer(Truthful(stored))],
           \A v \in Writers \ {w} : writer'[v] = writer[v],
           Justified(w, writer'[w], stored')
    PROVE  SentInv'
<1>1. SentTypes'
    BY DEF SentInv, SentTypes, RowsIn
<1>2. \A v \in Writers : Justified(v, writer'[v], stored')
    BY OthersAreJustified
<1>3. QED
    BY <1>1, <1>2 DEF SentInv

\* a step that saves nothing and stores nothing: w goes on, with its copy
LEMMA GoesOn ==
    ASSUME SentInv, NEW w \in Writers, NEW pc \in Places, Goto(w, pc),
           UNCHANGED <<row, queued, stored>>, ipc' \in Seq(Statements(Truthful(stored))),
           writer'[w].pc = pc /\ writer'[w].copy = writer[w].copy => Justified(w, writer'[w], stored')
    PROVE  SentInv'
<1>1. /\ SentTypes /\ row' \in Truthful(stored) \cup {NoRow} /\ UNCHANGED stored
      /\ queued' \subseteq Sends
      /\ "us" \in queued' => "them" \in stored
    BY DEF SentInv, SentTypes, RowsIn
<1>2. /\ writer' \in [Writers -> Writer(Truthful(stored))]
      /\ writer'[w].pc = pc /\ writer'[w].copy = writer[w].copy
      /\ \A v \in Writers \ {w} : writer'[v] = writer[v]
    BY <1>1, Goes
<1>3. QED
    BY <1>1, <1>2, StepOfWriter

\* the save w waited for is done, and w goes on
LEMMA SavedGoesOn ==
    ASSUME SentInv, NEW w \in Writers, NEW old, NEW pc \in Places, Committed(w, old),
           Goto(w, pc), IssueAfterHead(<<>>), UNCHANGED <<queued, stored>>,
           writer'[w].pc = pc /\ writer'[w].copy = writer[w].copy => Justified(w, writer'[w], stored')
    PROVE  SentInv'
<1>1. /\ SentTypes /\ <<>> \in Seq(Statements(Truthful(stored)))
      /\ queued' \subseteq Sends
      /\ "us" \in queued' => "them" \in stored
    BY DEF SentInv, SentTypes
<1>2. /\ writer' \in [Writers -> Writer(Truthful(stored))]
      /\ writer'[w].pc = pc /\ writer'[w].copy = writer[w].copy
      /\ \A v \in Writers \ {w} : writer'[v] = writer[v]
    BY <1>1, Goes
<1>3. row' \in Truthful(stored) \cup {NoRow} /\ ipc' \in Seq(Statements(Truthful(stored)))
    BY <1>1, CommitIsTrue
<1>4. Justified(w, writer'[w], stored')
    BY <1>2
<1>5. UNCHANGED stored
    OBVIOUS
<1>6. QED
    BY <1>1, <1>2, <1>3, <1>4, <1>5, StepOfWriter

\* what was read is saved again with a change: w has it as its copy
LEMMA CommitsOn ==
    ASSUME SentInv, NEW w \in Writers, NEW r \in Truthful(stored), NEW pc \in Places,
           ipc # <<>>, Commit(w, r, pc), UNCHANGED <<row, queued, stored>>,
           writer'[w].pc = pc /\ writer'[w].copy = r => Justified(w, writer'[w], stored')
    PROVE  SentInv'
<1>1. /\ SentTypes /\ row \in Truthful(stored) \cup {NoRow}
      /\ queued' \subseteq Sends
      /\ "us" \in queued' => "them" \in stored
    BY DEF SentInv, SentTypes, RowsIn
<1>2. /\ writer' \in [Writers -> Writer(Truthful(stored))]
      /\ writer'[w].pc = pc /\ writer'[w].copy = r
      /\ \A v \in Writers \ {w} : writer'[v] = writer[v]
      /\ ipc' \in Seq(Statements(Truthful(stored)))
    BY <1>1, Commits
<1>3. Justified(w, writer'[w], stored') /\ UNCHANGED stored /\ row' \in Truthful(stored) \cup {NoRow}
    BY <1>1, <1>2
<1>4. QED
    BY <1>1, <1>2, <1>3, StepOfWriter

LEMMA UserKeepsSent ==
    ASSUME SentInv, UserStep \/ resendMessage \/ UploadFails
    PROVE  SentInv'
<1>1. /\ SentTypes /\ "user" \in Writers /\ "user" \in Issuers /\ Justified("user", writer["user"], stored)
      /\ row \in Truthful(stored) \cup {NoRow} /\ ipc \in Seq(Statements(Truthful(stored))) /\ <<>> \in Seq(Statements(Truthful(stored)))
      /\ queued \subseteq Sends
      /\ "us" \in queued => "them" \in stored
      /\ writer["user"].copy \in Truthful(stored) \cup {NoRow}
    BY DEF SentInv, SentTypes, RowsIn, Writers, Issuers, Writer
<1>3. CASE resendMessage
  <2>1. Goto("user", "found") /\ Issue(<<Read("user")>>) /\ UNCHANGED <<row, queued, stored>>
    BY <1>3 DEF resendMessage
  <2>2. ipc' \in Seq(Statements(Truthful(stored)))
    BY <1>1, <2>1, StatementTypes, Issued
  <2>3. writer'["user"].pc = "found" /\ writer'["user"].copy = writer["user"].copy => Justified("user", writer'["user"], stored')
    BY <2>1, <2>2 DEF Justified, At, Writers
  <2>4. QED
    BY <1>1, <2>1, <2>2, <2>3, GoesOn DEF Places
<1>4. CASE retrySend
  <2>1. /\ ipc # <<>> /\ UNCHANGED <<row, queued, stored>>
        /\ \/ Exists(row) /\ Commit("user", Cleared(Model(row)), "cleared")
           \/ Goto("user", "idle") /\ IssueAfterHead(<<>>)
    BY <1>4 DEF retrySend, Turn
  <2>2. CASE Exists(row) /\ Commit("user", Cleared(Model(row)), "cleared")
    <3>1. row \in Truthful(stored)
      BY <1>1, <2>2 DEF Exists, NoRow
    <3>2. Cleared(Model(row)) \in Truthful(stored) /\ Cleared(Model(row)) # NoRow
      BY <3>1, TruthfulRows
    <3>3. writer'["user"].pc = "cleared" /\ writer'["user"].copy = Cleared(Model(row)) => Justified("user", writer'["user"], stored')
      BY <2>1, <2>2, <3>2 DEF Justified, At, Writers
    <3>4. QED
      BY <1>1, <2>1, <2>2, <3>2, <3>3, CommitsOn DEF Places
  <2>3. CASE Goto("user", "idle") /\ IssueAfterHead(<<>>)
    <3>1. ipc' \in Seq(Statements(Truthful(stored)))
      BY <1>1, <2>1, <2>3, Issued
    <3>2. writer'["user"].pc = "idle" /\ writer'["user"].copy = writer["user"].copy => Justified("user", writer'["user"], stored')
      BY <2>1, <2>3, <3>1 DEF Justified, At, Writers
    <3>3. QED
      BY <1>1, <2>1, <2>3, <3>1, <3>2, GoesOn DEF Places
  <2>4. QED
    BY <2>1, <2>2, <2>3
<1>5. CASE RetrySaved
  <2>1. writer["user"].copy # NoRow
    BY <1>1, <1>5 DEF RetrySaved, Committed, Justified, At
  <2>2. writer'["user"].pc = "load" /\ writer'["user"].copy = writer["user"].copy => Justified("user", writer'["user"], stored')
    BY <2>1 DEF Justified, At, Writers
  <2>3. QED
    BY <1>1, <1>5, <2>1, <2>2, SavedGoesOn DEF Places, RetrySaved
<1>6. CASE uploadData
  <2>1. /\ At("user", "load") /\ Goto("user", "loaded") /\ UNCHANGED <<row, queued, stored>>
        /\ Issue(<<Save("user", writer["user"].copy)>>)
    BY <1>6 DEF uploadData
  <2>2. writer["user"].copy # NoRow /\ writer["user"].copy \in Truthful(stored)
    BY <1>1, <2>1 DEF Justified, At
  <2>3. ipc' \in Seq(Statements(Truthful(stored)))
    BY <1>1, <2>1, <2>2, StatementTypes, Issued
  <2>4. writer'["user"].pc = "loaded" /\ writer'["user"].copy = writer["user"].copy => Justified("user", writer'["user"], stored')
    BY <2>1, <2>2, <2>3 DEF Justified, At, Writers
  <2>5. QED
    BY <1>1, <2>1, <2>2, <2>3, <2>4, GoesOn DEF Places
<1>7. CASE LoadedSaved
  <2>1. writer["user"].copy # NoRow
    BY <1>1, <1>7 DEF LoadedSaved, Committed, Justified, At
  <2>2. writer'["user"].pc = "upload" /\ writer'["user"].copy = writer["user"].copy => Justified("user", writer'["user"], stored')
    BY <2>1 DEF Justified, At, Writers
  <2>3. QED
    BY <1>1, <1>7, <2>1, <2>2, SavedGoesOn DEF Places, LoadedSaved
<1>8. CASE Uploaded
  <2>1. /\ Goto("user", "idle") /\ UNCHANGED <<row, ipc, stored>>
        /\ queued' = queued \cup {"them"}
    BY <1>8 DEF Uploaded, table
  <2>2. queued' \subseteq Sends /\ ("us" \in queued' => "them" \in stored)
    BY <1>1, <2>1 DEF Sends
  <2>3. /\ writer' \in [Writers -> Writer(Truthful(stored))] /\ writer'["user"].pc = "idle"
        /\ \A v \in Writers \ {"user"} : writer'[v] = writer[v]
    BY <1>1, <2>1, Goes DEF Places
  <2>4. Justified("user", writer'["user"], stored')
    BY <2>3 DEF Justified, At
  <2>5. ipc' \in Seq(Statements(Truthful(stored))) /\ row' \in Truthful(stored) \cup {NoRow} /\ UNCHANGED stored
    BY <1>1, <2>1
  <2>6. QED
    BY <1>1, <2>2, <2>3, <2>4, <2>5, StepOfWriter
<1>9. CASE ErrorSaved
  <2>1. writer'["user"].pc = "idle" /\ writer'["user"].copy = writer["user"].copy => Justified("user", writer'["user"], stored')
    BY <1>1 DEF Justified, At, Writers
  <2>2. QED
    BY <1>1, <1>9, <2>1, SavedGoesOn DEF Places, ErrorSaved
<1>10. CASE UploadFails
  <2> DEFINE r == [writer["user"].copy EXCEPT !.errors = TRUE]
  <2>1. /\ At("user", "upload") /\ Goto("user", "notUploaded") /\ UNCHANGED <<row, queued, stored>>
        /\ Issue(<<Save("user", r)>>)
    BY <1>10 DEF UploadFails
  <2>2. r \in Truthful(stored)
    BY <1>1, <2>1, TruthfulRows DEF Justified, At
  <2> HIDE DEF r
  <2>3. ipc' \in Seq(Statements(Truthful(stored)))
    BY <1>1, <2>1, <2>2, StatementTypes, Issued
  <2>4. writer'["user"].pc = "notUploaded" /\ writer'["user"].copy = writer["user"].copy => Justified("user", writer'["user"], stored')
    BY <2>1, <2>3 DEF Justified, At, Writers
  <2>5. QED
    BY <1>1, <2>1, <2>3, <2>4, GoesOn DEF Places
<1>11. QED
    BY <1>3, <1>4, <1>5, <1>6, <1>7, <1>8, <1>9, <1>10 DEF UserStep

\* what a step that stores has to show
LEMMA StoresOn ==
    ASSUME SentInv, NEW d \in Sends, stored' \in {stored, stored \cup {d}}, UNCHANGED <<row, queued>>,
           ipc' \in Seq(Statements(Truthful(stored))),
           writer' \in [Writers -> Writer(Truthful(stored))],
           \A v \in Writers \ {d} : writer'[v] = writer[v],
           Justified(d, writer'[d], stored')
    PROVE  SentInv'
<1>1. /\ d \in Writers /\ stored \subseteq stored' /\ stored' \subseteq Sends
      /\ row \in Truthful(stored) \cup {NoRow} /\ queued \subseteq Sends
      /\ "us" \in queued => "them" \in stored
    BY DEF SentInv, SentTypes, RowsIn, Writers
<1>2. Truthful(stored) \subseteq Truthful(stored')
    BY <1>1, TruthfulGrows
<1>3. ipc' \in Seq(Statements(Truthful(stored')))
    BY <1>2, RowsGrow
<1>4. Writer(Truthful(stored)) \subseteq Writer(Truthful(stored'))
    BY <1>2 DEF Writer
<1>5. writer' \in [Writers -> Writer(Truthful(stored'))]
    BY <1>4
<1>6. SentTypes'
    BY <1>1, <1>2, <1>3, <1>5 DEF SentTypes, RowsIn
<1>7. \A v \in Writers : Justified(v, writer'[v], stored')
    BY <1>1, OthersAreJustified
<1>8. QED
    BY <1>1, <1>6, <1>7 DEF SentInv

LEMMA SendKeepsSent ==
    ASSUME SentInv, NEW d \in Sends, SendStep(d) \/ StoreRefused(d) \/ StoreFails(d)
    PROVE  SentInv'
<1>1. /\ SentTypes /\ d \in Writers /\ d \in Issuers /\ Justified(d, writer[d], stored)
      /\ row \in Truthful(stored) \cup {NoRow} /\ ipc \in Seq(Statements(Truthful(stored)))
      /\ <<>> \in Seq(Statements(Truthful(stored))) /\ queued \subseteq Sends
      /\ "us" \in queued => "them" \in stored
      /\ writer \in [Writers -> Writer(Truthful(stored))]
      /\ writer[d].copy \in Truthful(stored) \cup {NoRow}
    BY DEF SentInv, SentTypes, RowsIn, Writers, Issuers, Writer
<1>2. Exists(row) => row \in Truthful(stored) /\ Model(row) \in Truthful(stored)
  <2>1. Exists(row) => row \in Truthful(stored)
    BY <1>1 DEF Exists, NoRow
  <2>2. QED
    BY <2>1, TruthfulRows
<1>3. SavedByModel(row) \in Seq(Statements(Truthful(stored)))
    BY <1>1, TruthfulRows, ModelSaves DEF SentTypes
<1>4. d = "us" /\ writer[d].pc # "idle" => "them" \in stored
    BY <1>1 DEF Justified
<1>5. CASE StartSend(d)
  <2>1. /\ At(d, "idle") /\ d \in queued /\ writer' = [writer EXCEPT ![d] = [Idle EXCEPT !.pc = "found"]]
        /\ Issue(<<Read(d)>>) /\ UNCHANGED <<row, queued, stored>>
    BY <1>5 DEF StartSend
  <2>2. ipc' \in Seq(Statements(Truthful(stored)))
    BY <1>1, <2>1, StatementTypes, Issued
  <2>3. [Idle EXCEPT !.pc = "found"] \in Writer(Truthful(stored))
    BY DEF Idle, Writer, Places
  <2>4. /\ writer' \in [Writers -> Writer(Truthful(stored))] /\ writer'[d].pc = "found"
        /\ \A v \in Writers \ {d} : writer'[v] = writer[v]
    BY <1>1, <2>1, <2>3 DEF Idle
  <2>5. Justified(d, writer'[d], stored')
    BY <1>1, <2>1, <2>4 DEF Justified
  <2>6. QED
    BY <1>1, <2>1, <2>2, <2>4, <2>5, StepOfWriter
<1>6. CASE SetSentAt(d)
  <2>1. /\ ipc # <<>> /\ writer[d].pc = "found" /\ UNCHANGED <<row, queued, stored>>
        /\ \/ Exists(row) /\ Commit(d, Model(row), "stamped")
           \/ Goto(d, "request") /\ IssueAfterHead(SavedByModel(row))
    BY <1>6 DEF SetSentAt, Turn, At
  <2>2. CASE Exists(row) /\ Commit(d, Model(row), "stamped")
    <3>1. writer'[d].pc = "stamped" /\ writer'[d].copy = Model(row) => Justified(d, writer'[d], stored')
      BY <1>4, <2>1 DEF Justified
    <3>2. QED
      BY <1>1, <1>2, <2>1, <2>2, <3>1, CommitsOn DEF Places
  <2>3. CASE Goto(d, "request") /\ IssueAfterHead(SavedByModel(row))
    <3>1. ipc' \in Seq(Statements(Truthful(stored)))
      BY <1>1, <1>3, <2>1, <2>3, Issued
    <3>2. writer'[d].pc = "request" /\ writer'[d].copy = writer[d].copy => Justified(d, writer'[d], stored')
      BY <1>4, <2>1 DEF Justified
    <3>3. QED
      BY <1>1, <2>1, <2>3, <3>1, <3>2, GoesOn DEF Places
  <2>4. QED
    BY <2>1, <2>2, <2>3
<1>7. CASE SentAtSaved(d)
  <2>1. writer[d].pc = "stamped" /\ UNCHANGED stored
    BY <1>7 DEF SentAtSaved, Committed, At
  <2>2. writer'[d].pc = "request" /\ writer'[d].copy = writer[d].copy => Justified(d, writer'[d], stored')
    BY <1>4, <2>1 DEF Justified
  <2>3. QED
    BY <1>1, <1>7, <2>2, SavedGoesOn DEF SentAtSaved, Places
<1>8. CASE StoreSucceeds(d)
  <2>1. /\ At(d, "request") /\ Goto(d, "success") /\ Issue(<<Read(d)>>)
        /\ stored' = stored \cup {d} /\ UNCHANGED <<row, queued>>
    BY <1>8 DEF StoreSucceeds
  <2>2. ipc' \in Seq(Statements(Truthful(stored)))
    BY <1>1, <2>1, StatementTypes, Issued
  <2>3. /\ writer' \in [Writers -> Writer(Truthful(stored))] /\ writer'[d].pc = "success"
        /\ \A v \in Writers \ {d} : writer'[v] = writer[v]
    BY <1>1, <2>1, Goes DEF Places
  <2>4. Justified(d, writer'[d], stored')
    BY <1>4, <2>1, <2>3 DEF Justified, At
  <2>5. QED
    BY <2>1, <2>2, <2>3, <2>4, StoresOn
<1>9. CASE StoreRefused(d)
  <2>1. /\ At(d, "request") /\ Goto(d, "ended") /\ UNCHANGED <<row, ipc, queued, stored>>
    BY <1>9 DEF StoreRefused
  <2>2. writer'[d].pc = "ended" /\ writer'[d].copy = writer[d].copy => Justified(d, writer'[d], stored')
    BY <1>4, <2>1 DEF Justified, At
  <2>3. QED
    BY <1>1, <2>1, <2>2, GoesOn DEF Places
<1>10. CASE StoreFails(d)
  <2> DEFINE next == IF writer[d].failed + 1 < Attempts THEN "found" ELSE "failure"
  <2>1. /\ At(d, "request") /\ Issue(<<Read(d)>>)
        /\ writer' = [writer EXCEPT ![d].failed = @ + 1, ![d].pc = next]
        /\ stored' \in {stored, stored \cup {d}} /\ UNCHANGED <<row, queued>>
    BY <1>10 DEF StoreFails
  <2>2. ipc' \in Seq(Statements(Truthful(stored)))
    BY <1>1, <2>1, StatementTypes, Issued
  <2>3. next \in {"found", "failure"}
    OBVIOUS
  <2> HIDE DEF next
  <2>4. /\ writer' \in [Writers -> Writer(Truthful(stored))] /\ writer'[d].pc = next
        /\ \A v \in Writers \ {d} : writer'[v] = writer[v]
    <3> DEFINE more == writer[d].failed + 1
    <3>1. writer' = [writer EXCEPT ![d].failed = more, ![d].pc = next]
      BY <1>1, <2>1
    <3>2. more \in Nat
      BY <1>1 DEF Writer
    <3> HIDE DEF more
    <3>3. QED
      BY <1>1, <2>3, <3>1, <3>2 DEF Writer, Places
  <2>5. Justified(d, writer'[d], stored')
    BY <1>4, <2>1, <2>3, <2>4 DEF Justified, At
  <2>6. QED
    BY <2>1, <2>2, <2>4, <2>5, StoresOn
<1>11. CASE handleSwarmMessageSentSuccess(d)
  <2>1. /\ ipc # <<>> /\ At(d, "success") /\ UNCHANGED <<row, queued, stored>>
        /\ \/ Goto(d, "ended") /\ IssueAfterHead(<<>>)
           \/ /\ Exists(row) /\ shouldTriggerSyncMessage(row, d)
              /\ writer' = [writer EXCEPT ![d].pc = "sync", ![d].copy = Model(row)]
              /\ IssueAfterHead(SavedByModel(row))
           \/ Exists(row) /\ Commit(d, SentTo(Model(row), d), "saving")
    BY <1>11 DEF handleSwarmMessageSentSuccess, Turn
  <2>2. d \in stored /\ "them" \in stored
    BY <1>1, <1>4, <2>1 DEF Justified, At, Sends
  <2>3. CASE Goto(d, "ended") /\ IssueAfterHead(<<>>)
    <3>1. ipc' \in Seq(Statements(Truthful(stored)))
      BY <1>1, <2>1, <2>3, Issued
    <3>2. writer'[d].pc = "ended" /\ writer'[d].copy = writer[d].copy => Justified(d, writer'[d], stored')
      BY <2>1, <2>2 DEF Justified
    <3>3. QED
      BY <1>1, <2>1, <2>3, <3>1, <3>2, GoesOn DEF Places
  <2>4. CASE /\ Exists(row) /\ shouldTriggerSyncMessage(row, d)
             /\ writer' = [writer EXCEPT ![d].pc = "sync", ![d].copy = Model(row)]
             /\ IssueAfterHead(SavedByModel(row))
    <3>1. ipc' \in Seq(Statements(Truthful(stored)))
      BY <1>1, <1>3, <2>1, <2>4, Issued
    <3>2. Model(row) \in Truthful(stored) /\ Model(row) # NoRow
      BY <1>2, <2>4, TruthfulRows
    <3>3. /\ writer' \in [Writers -> Writer(Truthful(stored))]
          /\ writer'[d].pc = "sync" /\ writer'[d].copy = Model(row)
          /\ \A v \in Writers \ {d} : writer'[v] = writer[v]
      BY <1>1, <2>4, <3>2 DEF Writer, Places
    <3>4. Justified(d, writer'[d], stored')
      BY <2>1, <2>2, <3>2, <3>3 DEF Justified
    <3>5. QED
      BY <1>1, <2>1, <3>1, <3>3, <3>4, StepOfWriter
  <2>5. CASE Exists(row) /\ Commit(d, SentTo(Model(row), d), "saving")
    <3>1. SentTo(Model(row), d) \in Truthful(stored)
      BY <1>2, <2>2, <2>5, SentToIsTruthful
    <3>2. writer'[d].pc = "saving" /\ writer'[d].copy = SentTo(Model(row), d) =>
            Justified(d, writer'[d], stored')
      BY <2>1, <2>2 DEF Justified
    <3>3. QED
      BY <1>1, <2>1, <2>5, <3>1, <3>2, CommitsOn DEF Places
  <2>6. QED
    BY <2>1, <2>3, <2>4, <2>5
<1>12. CASE handleSwarmMessageSentFailure(d)
  <2> DEFINE r == [Model(row) EXCEPT !.errors = TRUE]
  <2>1. /\ ipc # <<>> /\ writer[d].pc = "failure" /\ UNCHANGED <<row, queued, stored>>
        /\ \/ Exists(row) /\ Commit(d, r, "failed")
           \/ Goto(d, "ended") /\ IssueAfterHead(<<>>)
    BY <1>12 DEF handleSwarmMessageSentFailure, Turn, At
  <2>2. CASE Exists(row) /\ Commit(d, r, "failed")
    <3>1. r \in Truthful(stored) /\ r # NoRow
      BY <1>2, <2>2, TruthfulRows
    <3>2. r.errors
      BY <1>2, <2>2 DEF Truthful, OutgoingRow
    <3> HIDE DEF r
    <3>3. writer'[d].pc = "failed" /\ writer'[d].copy = r => Justified(d, writer'[d], stored')
      BY <1>4, <2>1, <3>1, <3>2 DEF Justified
    <3>4. QED
      BY <1>1, <2>1, <2>2, <3>1, <3>3, CommitsOn DEF Places
  <2>3. CASE Goto(d, "ended") /\ IssueAfterHead(<<>>)
    <3>1. ipc' \in Seq(Statements(Truthful(stored)))
      BY <1>1, <2>1, <2>3, Issued
    <3>2. writer'[d].pc = "ended" /\ writer'[d].copy = writer[d].copy => Justified(d, writer'[d], stored')
      BY <1>4, <2>1 DEF Justified
    <3>3. QED
      BY <1>1, <2>1, <2>3, <3>1, <3>2, GoesOn DEF Places
  <2>4. QED
    BY <2>1, <2>2, <2>3
<1>13. CASE FailureSaved(d)
  <2> DEFINE r == NotSent(writer[d].copy, d)
  <2>1. /\ Committed(d, "failed") /\ writer[d].pc = "failed" /\ Goto(d, "saving")
        /\ IssueAfterHead(<<Save(d, r)>>) /\ UNCHANGED <<queued, stored>>
    BY <1>13 DEF FailureSaved, Committed, At
  <2>2. writer[d].copy \in Truthful(stored) /\ writer[d].copy.errors
    BY <1>1, <2>1 DEF Justified
  <2>3. r \in Truthful(stored)
    BY <2>2, NotSentIsTruthful
  <2> HIDE DEF r
  <2>4. <<Save(d, r)>> \in Seq(Statements(Truthful(stored)))
    BY <1>1, <2>3, StatementTypes
  <2>5. row' \in Truthful(stored) /\ ipc' \in Seq(Statements(Truthful(stored)))
    BY <1>1, <2>1, <2>4, CommitIsTrue
  <2>6. /\ writer' \in [Writers -> Writer(Truthful(stored))] /\ writer'[d].pc = "saving"
        /\ \A v \in Writers \ {d} : writer'[v] = writer[v]
    BY <1>1, <2>1, Goes DEF Places
  <2>7. Justified(d, writer'[d], stored')
    BY <1>4, <2>1, <2>6 DEF Justified
  <2>8. row' \in Truthful(stored) \cup {NoRow} /\ queued' \subseteq Sends
        /\ ("us" \in queued' => "them" \in stored) /\ UNCHANGED stored
    BY <1>1, <2>1, <2>5
  <2>9. QED
    BY <1>1, <2>5, <2>6, <2>7, <2>8, StepOfWriter
<1>14. CASE Saved(d)
  <2>1. writer[d].pc = "saving" /\ UNCHANGED stored
    BY <1>14 DEF Saved, Committed, At
  <2>2. writer'[d].pc = "ended" /\ writer'[d].copy = writer[d].copy => Justified(d, writer'[d], stored')
    BY <1>4, <2>1 DEF Justified
  <2>3. QED
    BY <1>1, <1>14, <2>2, SavedGoesOn DEF Saved, Places
<1>15. CASE EndSend(d)
  <2>1. /\ queued' = queued \ {d} /\ writer' = [writer EXCEPT ![d] = Idle]
        /\ UNCHANGED <<row, ipc, stored>>
    BY <1>15 DEF EndSend, table
  <2>2. Idle \in Writer(Truthful(stored)) /\ Idle.pc = "idle"
    BY DEF Idle, Writer, Places
  <2>3. /\ writer' \in [Writers -> Writer(Truthful(stored))] /\ writer'[d] = Idle
        /\ \A v \in Writers \ {d} : writer'[v] = writer[v]
    BY <1>1, <2>1, <2>2
  <2>4. Justified(d, writer'[d], stored')
    BY <2>2, <2>3 DEF Justified
  <2>5. row' \in Truthful(stored) \cup {NoRow} /\ queued' \subseteq Sends
        /\ ("us" \in queued' => "them" \in stored) /\ UNCHANGED stored
        /\ ipc' \in Seq(Statements(Truthful(stored)))
    BY <1>1, <2>1
  <2>6. QED
    BY <1>1, <2>3, <2>4, <2>5, StepOfWriter
<1>16. QED
    BY <1>5, <1>6, <1>7, <1>8, <1>9, <1>10, <1>11, <1>12, <1>13, <1>14, <1>15 DEF SendStep

\* The copy is synced, and only of a message its recipient has.
LEMMA SyncKeepsSent ==
    ASSUME SentInv, sendSyncMessage \/ SyncSaved \/ FetchedAgain
    PROVE  SentInv'
<1>1. /\ SentTypes /\ "them" \in Writers /\ "them" \in Issuers /\ "them" \in Sends
      /\ Justified("them", writer["them"], stored)
      /\ row \in Truthful(stored) \cup {NoRow} /\ ipc \in Seq(Statements(Truthful(stored)))
      /\ <<>> \in Seq(Statements(Truthful(stored))) /\ queued \subseteq Sends
      /\ "us" \in queued => "them" \in stored
      /\ writer["them"].copy \in Truthful(stored) \cup {NoRow}
    BY DEF SentInv, SentTypes, RowsIn, Writers, Issuers, Writer, Sends
<1>2. CASE sendSyncMessage
  <2> DEFINE r == [writer["them"].copy EXCEPT !.sentSync = TRUE]
  <2>1. /\ writer["them"].pc = "sync" /\ Goto("them", "synced") /\ Issue(<<Save("them", r)>>)
        /\ queued' = queued \cup {"us"} /\ UNCHANGED <<row, stored>>
    BY <1>2 DEF sendSyncMessage, At
  <2>2. "them" \in stored /\ writer["them"].copy \in Truthful(stored)
    BY <1>1, <2>1 DEF Justified
  <2>3. r \in Truthful(stored)
    BY <2>2, TruthfulRows
  <2> HIDE DEF r
  <2>4. ipc' \in Seq(Statements(Truthful(stored)))
    BY <1>1, <2>1, <2>3, StatementTypes, Issued
  <2>5. /\ writer' \in [Writers -> Writer(Truthful(stored))] /\ writer'["them"].pc = "synced"
        /\ \A v \in Writers \ {"them"} : writer'[v] = writer[v]
    BY <1>1, <2>1, Goes DEF Places
  <2>6. Justified("them", writer'["them"], stored')
    BY <2>1, <2>2, <2>5 DEF Justified
  <2>7. row' \in Truthful(stored) \cup {NoRow} /\ queued' \subseteq Sends
        /\ ("us" \in queued' => "them" \in stored) /\ UNCHANGED stored
    BY <1>1, <2>1, <2>2 DEF Sends
  <2>8. QED
    BY <1>1, <2>4, <2>5, <2>6, <2>7, StepOfWriter
<1>3. CASE SyncSaved
  <2>1. /\ Committed("them", "synced") /\ writer["them"].pc = "synced" /\ Goto("them", "again")
        /\ IssueAfterHead(<<Read("them")>>) /\ UNCHANGED <<queued, stored>>
    BY <1>3 DEF SyncSaved, Committed, At
  <2>2. "them" \in stored
    BY <1>1, <2>1 DEF Justified
  <2>3. row' \in Truthful(stored) /\ ipc' \in Seq(Statements(Truthful(stored)))
    BY <1>1, <2>1, StatementTypes, CommitIsTrue
  <2>4. /\ writer' \in [Writers -> Writer(Truthful(stored))] /\ writer'["them"].pc = "again"
        /\ \A v \in Writers \ {"them"} : writer'[v] = writer[v]
    BY <1>1, <2>1, Goes DEF Places
  <2>5. Justified("them", writer'["them"], stored')
    BY <2>1, <2>2, <2>4 DEF Justified
  <2>6. row' \in Truthful(stored) \cup {NoRow} /\ queued' \subseteq Sends
        /\ ("us" \in queued' => "them" \in stored) /\ UNCHANGED stored
    BY <1>1, <2>1, <2>3
  <2>7. QED
    BY <1>1, <2>3, <2>4, <2>5, <2>6, StepOfWriter
<1>4. CASE FetchedAgain
  <2>1. /\ ipc # <<>> /\ writer["them"].pc = "again" /\ UNCHANGED <<row, queued, stored>>
        /\ \/ Exists(row) /\ Commit("them", SentTo(Model(row), "them"), "saving")
           \/ Goto("them", "ended") /\ IssueAfterHead(<<>>)
    BY <1>4 DEF FetchedAgain, Turn, At
  <2>2. "them" \in stored
    BY <1>1, <2>1 DEF Justified
  <2>3. CASE Exists(row) /\ Commit("them", SentTo(Model(row), "them"), "saving")
    <3>1. row \in Truthful(stored)
      BY <1>1, <2>3 DEF Exists, NoRow
    <3>2. Model(row) \in Truthful(stored)
      BY <3>1, TruthfulRows
    <3>3. SentTo(Model(row), "them") \in Truthful(stored)
      BY <1>1, <2>2, <3>2, SentToIsTruthful
    <3>4. writer'["them"].pc = "saving" /\ writer'["them"].copy = SentTo(Model(row), "them") =>
            Justified("them", writer'["them"], stored')
      BY <2>1, <2>2 DEF Justified
    <3>5. QED
      BY <1>1, <2>1, <2>3, <3>3, <3>4, CommitsOn DEF Places
  <2>4. CASE Goto("them", "ended") /\ IssueAfterHead(<<>>)
    <3>1. ipc' \in Seq(Statements(Truthful(stored)))
      BY <1>1, <2>1, <2>4, Issued
    <3>2. writer'["them"].pc = "ended" /\ writer'["them"].copy = writer["them"].copy =>
            Justified("them", writer'["them"], stored')
      BY <2>1, <2>2 DEF Justified
    <3>3. QED
      BY <1>1, <2>1, <2>4, <3>1, <3>2, GoesOn DEF Places
  <2>5. QED
    BY <2>1, <2>3, <2>4
<1>5. QED
    BY <1>2, <1>3, <1>4

\* The process ends: what was under way is forgotten, the row is kept or deleted.
LEMMA RestartKeepsSent ==
    ASSUME SentInv, Restart
    PROVE  SentInv'
<1>1. /\ row' \in {row, NoRow} /\ ipc' = <<>> /\ writer' = [w \in DOMAIN writer |-> Idle]
      /\ UNCHANGED <<queued, stored>>
    BY DEF Restart
<1>2. /\ row \in Truthful(stored) \cup {NoRow} /\ queued \subseteq Sends /\ stored \subseteq Sends
      /\ "us" \in queued => "them" \in stored
      /\ DOMAIN writer = Writers
    BY DEF SentInv, SentTypes, RowsIn
<1>3. Idle \in Writer(Truthful(stored)) /\ Idle.pc = "idle"
    BY DEF Idle, Writer, Places
<1>4. writer' \in [Writers -> Writer(Truthful(stored))] /\ \A w \in Writers : writer'[w] = Idle
    BY <1>1, <1>2, <1>3
<1>5. SentTypes'
    BY <1>1, <1>2, <1>4 DEF SentTypes, RowsIn
<1>6. \A w \in Writers : Justified(w, writer'[w], stored')
    BY <1>3, <1>4 DEF Justified
<1>7. QED
    BY <1>1, <1>2, <1>5, <1>6 DEF SentInv

LEMMA SentStep ==
    ASSUME SentInv, SentNext
    PROVE  SentInv'
<1>1. CASE TableNext /\ UNCHANGED sending
  <2>1. RowsIn(Truthful(stored)) /\ UNCHANGED <<queued, stored, writer>>
    BY <1>1 DEF SentInv, SentTypes, sending
  <2>2. row' \in Truthful(stored) \cup {NoRow} /\ ipc' \in Seq(Statements(Truthful(stored)))
    BY <1>1, <2>1, TableKeepsRows
  <2>3. SentTypes'
    BY <2>1, <2>2 DEF SentInv, SentTypes, RowsIn
  <2>4. QED
    BY <2>1, <2>3 DEF SentInv
<1>2. CASE UserStep \/ resendMessage \/ UploadFails
    BY <1>2, UserKeepsSent
<1>3. CASE \E d \in Sends : SendStep(d) \/ StoreRefused(d) \/ StoreFails(d)
    BY <1>3, SendKeepsSent
<1>4. CASE sendSyncMessage \/ SyncSaved \/ FetchedAgain
    BY <1>4, SyncKeepsSent
<1>5. CASE Restart
    BY <1>5, RestartKeepsSent
<1>6. QED
    BY <1>1, <1>2, <1>3, <1>4, <1>5 DEF SentNext

-----------------------------------------------------------------------------
(* Sets as sequences, and the places of the downloads *)

LEMMA SetToSeqType ==
    ASSUME NEW S, IsFiniteSet(S)
    PROVE  SetToSeq(S) \in Seq(S)
<1>1. Cardinality(S) \in Nat /\ ExistsBijection(1..Cardinality(S), S)
    BY FS_CardinalityType
<1>2. PICK f \in [1..Cardinality(S) -> S] : IsInjective(f)
    BY <1>1 DEF ExistsBijection, Bijection, Injection, IsInjective
<1>3. SetToSeq(S) \in [1..Cardinality(S) -> S]
    BY <1>2 DEF SetToSeq
<1>4. QED
    BY <1>1, <1>3

\* one read for each of the downloads that start
LEMMA ReadsOfStarts ==
    ASSUME NEW rows, NEW starts \in SUBSET Attachments
    PROVE  SetToSeq({Read(a) : a \in starts}) \in Seq(Statements(rows))
<1> DEFINE reads == {Read(a) : a \in starts}
           f == [a \in starts |-> Read(a)]
<1>1. IsFiniteSet(starts)
    BY FS_Subset, DownloadsAssumption
<1>2. f \in Surjection(starts, reads)
    BY DEF Surjection
<1>3. IsFiniteSet(reads)
    BY <1>1, <1>2, FS_Surjection
<1>4. SetToSeq(reads) \in Seq(reads)
    BY <1>3, SetToSeqType
<1>5. reads \subseteq Statements(rows)
    BY StatementTypes DEF Issuers
<1> HIDE DEF reads, f
<1>6. Seq(reads) \subseteq Seq(Statements(rows))
    BY <1>5
<1>7. QED
    BY <1>4, <1>6 DEF reads

LEMMA LargestOf ==
    ASSUME NEW n \in Int
    PROVE  Max({0, n}) \in {0, n} /\ (n >= 0 => Max({0, n}) = n)
    BY DEF Max

LEMMA SmallestOf ==
    ASSUME NEW m \in Int, NEW n \in Int
    PROVE  Min({m, n}) \in {m, n} /\ Min({m, n}) <= m /\ Min({m, n}) <= n
    BY DEF Min

\* No more downloads start than there are places: they are counted after the
\* query, with the downloads other queries have started.
LEMMA StartsFit ==
    ASSUME NEW busy \in SUBSET Attachments, Cardinality(busy) <= MAX_ATTACHMENT_JOB_PARALLELISM,
           NEW free \in SUBSET Attachments, NEW limit,
           NEW starts \in kSubset(Min({Max({0, Needed(limit, busy)}), Cardinality(free)}), free)
    PROVE  /\ starts \subseteq Attachments
           /\ Cardinality(busy \cup starts) <= MAX_ATTACHMENT_JOB_PARALLELISM
<1>1. IsFiniteSet(busy) /\ IsFiniteSet(free)
    BY FS_Subset, DownloadsAssumption
<1>2. Cardinality(busy) \in Nat /\ Cardinality(free) \in Nat
    BY <1>1, FS_CardinalityType
<1>3. Limit(busy) \in Nat /\ Limit(busy) = MAX_ATTACHMENT_JOB_PARALLELISM - Cardinality(busy)
    BY <1>2, DownloadsAssumption DEF Limit
<1>4. Max({0, Needed(limit, busy)}) = Limit(busy)
    BY <1>3, LargestOf DEF Needed
<1>5. starts \subseteq free /\ Cardinality(starts) <= Limit(busy)
  <2>1. starts \subseteq free /\ Cardinality(starts) = Min({Limit(busy), Cardinality(free)})
    BY <1>4 DEF kSubset
  <2>2. QED
    BY <1>2, <1>3, <2>1, SmallestOf
<1>6. IsFiniteSet(starts)
    BY <1>1, <1>5, FS_Subset
<1>7. Cardinality(starts) \in Nat /\ IsFiniteSet(busy \cap starts)
    BY <1>1, <1>6, FS_CardinalityType, FS_Subset
<1>8. /\ Cardinality(busy \cap starts) \in Nat
      /\ Cardinality(busy \cup starts) =
           Cardinality(busy) + Cardinality(starts) - Cardinality(busy \cap starts)
    BY <1>1, <1>6, <1>7, FS_CardinalityType, FS_Union
<1>9. QED
    BY <1>2, <1>3, <1>5, <1>7, <1>8, DownloadsAssumption

LEMMA FewerFit ==
    ASSUME NEW busy \in SUBSET Attachments, Cardinality(busy) <= MAX_ATTACHMENT_JOB_PARALLELISM,
           NEW less \in SUBSET busy
    PROVE  less \subseteq Attachments /\ Cardinality(less) <= MAX_ATTACHMENT_JOB_PARALLELISM
<1>1. IsFiniteSet(busy)
    BY FS_Subset, DownloadsAssumption
<1>2. Cardinality(busy) \in Nat /\ IsFiniteSet(less) /\ Cardinality(less) <= Cardinality(busy)
    BY <1>1, FS_CardinalityType, FS_Subset
<1>3. Cardinality(less) \in Nat
    BY <1>2, FS_CardinalityType
<1>4. QED
    BY <1>2, <1>3, DownloadsAssumption

LEMMA StartQueryType ==
    ASSUME NEW rows, NEW busy \in SUBSET Attachments
    PROVE  StartQuery(busy) \in Seq(Statements(rows))
<1>1. Statement("starter", "nextJobs", Limit(busy)) \in Statements(rows)
    BY DEF Statement, Statements
<1>2. QED
    BY <1>1 DEF StartQuery

LEMMA JobStatementType ==
    ASSUME NEW rows, NEW by \in Issuers, NEW a \in Attachments, NEW job \in Jobs,
           NEW op \in {"addJob", "setPending", "saveJob", "removeJob"}
    PROVE  JobStatement(by, op, a, job) \in Statements(rows)
    BY DEF JobStatement, Statement, Statements

LEMMA JobTypes ==
    /\ NoJob \in Jobs /\ [NoJob EXCEPT !.attempts = 0] \in Jobs
    /\ \A job \in Jobs :
         /\ [job EXCEPT !.pending = TRUE] \in Jobs
         /\ [job EXCEPT !.due = TRUE] \in Jobs
         /\ Reset(job) \in Jobs
         /\ ~LastAttempt(job) => Failed(job) \in Jobs
<1>1. NoJob \in Jobs /\ [NoJob EXCEPT !.attempts = 0] \in Jobs
  <2>1. MaxAttempts \in Nat \ {0}
    BY DownloadsAssumption
  <2>2. -1 \in -1..MaxAttempts - 1 /\ 0 \in -1..MaxAttempts - 1
    BY <2>1
  <2>3. NoJob \in Jobs
    BY <2>2 DEF NoJob, Jobs
  <2>4. \A job \in Jobs : [job EXCEPT !.attempts = 0] \in Jobs
    BY <2>2 DEF Jobs
  <2>5. QED
    BY <2>3, <2>4
<1>2. ASSUME NEW job \in Jobs
      PROVE  /\ [job EXCEPT !.pending = TRUE] \in Jobs
             /\ [job EXCEPT !.due = TRUE] \in Jobs
             /\ Reset(job) \in Jobs
    BY <1>2 DEF Jobs, Reset
<1>3. ASSUME NEW job \in Jobs, ~LastAttempt(job)
      PROVE  Failed(job) \in Jobs
    BY <1>3, DownloadsAssumption DEF Jobs, Failed, LastAttempt
<1>4. QED
    BY <1>1, <1>2, <1>3

LEMMA IncomingRows ==
    ASSUME NEW r \in IncomingRow
    PROVE  /\ Exists(r) /\ r # NoRow /\ r.kind = "incoming"
           /\ Model(r) \in IncomingRow
           /\ [r EXCEPT !.unread = FALSE] \in IncomingRow
           /\ \A a \in Attachments : \A result \in {"done", "error"} :
                [r EXCEPT !.att[a] = result] \in IncomingRow
<1>1. Exists(r) /\ r # NoRow /\ r.kind = "incoming"
    BY DEF IncomingRow, Exists, NoRow
<1>2. Model(r) \in IncomingRow
    BY <1>1 DEF IncomingRow, Model
<1>3. [r EXCEPT !.unread = FALSE] \in IncomingRow
    BY DEF IncomingRow
<1>4. ASSUME NEW a \in Attachments, NEW result \in {"done", "error"}
      PROVE  [r EXCEPT !.att[a] = result] \in IncomingRow
  <2> DEFINE att == [r.att EXCEPT ![a] = result]
  <2>1. att \in [Attachments -> {"new", "pending", "done", "error"}]
    BY <1>4 DEF IncomingRow
  <2>2. [r EXCEPT !.att[a] = result] = [r EXCEPT !.att = att]
    BY DEF IncomingRow
  <2> HIDE DEF att
  <2>3. [r EXCEPT !.att = att] \in IncomingRow
    BY <2>1 DEF IncomingRow
  <2>4. QED
    BY <2>2, <2>3
<1>5. QED
    BY <1>1, <1>2, <1>3, <1>4

-----------------------------------------------------------------------------
(* The steps of the downloads *)

\* what every step of the downloads has to show
LEMMA DownloadsKept ==
    ASSUME row' \in IncomingRow \cup {NoRow}, ipc' \in Seq(Statements(IncomingRow)),
           jobs' \in [Attachments -> Jobs], active' \subseteq Attachments,
           Cardinality(active') <= MAX_ATTACHMENT_JOB_PARALLELISM,
           run' \in [Attachments -> Runs]
    PROVE  DownloadsInv'
    BY DEF DownloadsInv, RowsIn

LEMMA GoesOnRun ==
    ASSUME run \in [Attachments -> Runs], NEW a \in Attachments, NEW pc \in Runs, GotoRun(a, pc)
    PROVE  run' \in [Attachments -> Runs]
    BY DEF GotoRun

\* the receiver, the reader and the queries
LEMMA MessageKeepsDownloads ==
    ASSUME DownloadsInv,
           \/ queueAttachmentDownloads \/ _tick \/ markRead \/ JobAdded \/ PendingSaved
           \/ _maybeStartJob \/ MarkedRead \/ ReadSaved \/ RestartDownloads
    PROVE  DownloadsInv'
<1> DEFINE S == Statements(IncomingRow)
<1>1. /\ RowsIn(IncomingRow) /\ row \in IncomingRow \cup {NoRow} /\ ipc \in Seq(S) /\ <<>> \in Seq(S)
      /\ jobs \in [Attachments -> Jobs] /\ active \in SUBSET Attachments
      /\ Cardinality(active) <= MAX_ATTACHMENT_JOB_PARALLELISM
      /\ run \in [Attachments -> Runs]
    BY DEF DownloadsInv, RowsIn
<1>2. \A r \in IncomingRow : Model(r) \in IncomingRow
    BY IncomingRows
<1>3. /\ "receiver" \in Issuers /\ "reader" \in Issuers
      /\ <<Read("reader")>> \in Seq(S)
      /\ \A r \in IncomingRow : <<Save("reader", r)>> \in Seq(S) /\ <<Save("receiver", r)>> \in Seq(S)
  <2>1. "receiver" \in Issuers /\ "reader" \in Issuers
    BY DEF Issuers
  <2>2. QED
    BY <2>1, StatementTypes
<1> HIDE DEF S
<1>4. CASE queueAttachmentDownloads
  <2> DEFINE order == SetToSeq(Attachments)
             new == [i \in DOMAIN order |->
                       JobStatement("receiver", "addJob", order[i], [NoJob EXCEPT !.attempts = 0])]
  <2>1. Issue(new) /\ UNCHANGED <<row, jobs, active, run>>
    BY <1>4 DEF queueAttachmentDownloads
  <2>2. order \in Seq(Attachments)
    BY SetToSeqType, DownloadsAssumption
  <2>3. \A i \in DOMAIN order :
          JobStatement("receiver", "addJob", order[i], [NoJob EXCEPT !.attempts = 0]) \in S
    BY <1>3, <2>2, JobTypes, JobStatementType DEF S
  <2>4. new \in Seq(S)
    <3> HIDE DEF order
    <3>1. QED
      BY <2>2, <2>3
  <2> HIDE DEF new
  <2>5. ipc' \in Seq(S)
    BY <1>1, <2>1, <2>4, Issued
  <2>6. QED
    BY <1>1, <2>1, <2>5, DownloadsKept DEF S
<1>5. CASE _tick
  <2>1. Issue(StartQuery(active)) /\ UNCHANGED <<row, jobs, active, run>>
    BY <1>5 DEF _tick
  <2>2. StartQuery(active) \in Seq(S)
    BY <1>1, StartQueryType DEF S
  <2>3. ipc' \in Seq(S)
    BY <1>1, <2>1, <2>2, Issued
  <2>4. QED
    BY <1>1, <2>1, <2>3, DownloadsKept DEF S
<1>6. CASE markRead
  <2>1. Issue(<<Read("reader")>>) /\ UNCHANGED <<row, jobs, active, run>>
    BY <1>6 DEF markRead
  <2>2. ipc' \in Seq(S)
    BY <1>1, <1>3, <2>1, Issued
  <2>3. QED
    BY <1>1, <2>1, <2>2, DownloadsKept DEF S
<1>7. CASE JobAdded
  <2> DEFINE s == Head(ipc).arg
             last == \A i \in DOMAIN Tail(ipc) : Tail(ipc)[i].op # "addJob"
             pending == [Received EXCEPT !.att = [a \in Attachments |-> "pending"]]
             save == IF last THEN <<Save("receiver", pending)>> ELSE <<>>
  <2>1. /\ Turn("receiver", "addJob") /\ jobs' = [jobs EXCEPT ![s.a] = s.job]
        /\ IssueAfterHead(StartQuery(active) \o save) /\ UNCHANGED <<row, active, run>>
    BY <1>7 DEF JobAdded
  <2>2. ipc # <<>> /\ s \in [a : Attachments, job : Jobs]
    BY <1>1, <2>1, TurnTaken
  <2>3. pending \in IncomingRow
    BY DEF Received, IncomingRow
  <2>4. save \in Seq(S)
    <3> HIDE DEF pending, last
    <3>1. QED
      BY <1>1, <1>3, <2>3
  <2>5. StartQuery(active) \in Seq(S)
    BY <1>1, StartQueryType DEF S
  <2> HIDE DEF save, s
  <2>6. StartQuery(active) \o save \in Seq(S)
    BY <2>4, <2>5, ConcatProperties
  <2>7. ipc' \in Seq(S)
    BY <1>1, <2>1, <2>2, <2>6, Issued
  <2>8. jobs' \in [Attachments -> Jobs]
    BY <1>1, <2>1, <2>2
  <2>9. QED
    BY <1>1, <2>1, <2>7, <2>8, DownloadsKept DEF S
<1>8. CASE PendingSaved
  <2>1. /\ Turn("receiver", "save") /\ row' = Head(ipc).arg /\ IssueAfterHead(<<>>)
        /\ UNCHANGED <<jobs, active, run>>
    BY <1>8 DEF PendingSaved, saveMessage
  <2>2. ipc # <<>> /\ row' \in IncomingRow
    BY <1>1, <2>1, TurnTaken
  <2>3. ipc' \in Seq(S)
    BY <1>1, <2>1, <2>2, Issued
  <2>4. QED
    BY <1>1, <2>1, <2>2, <2>3, DownloadsKept DEF S
<1>9. CASE _maybeStartJob
  <2>1. PICK found \in NextJobs(Head(ipc).arg) :
          \E starts \in kSubset(Min({Max({0, Needed(Head(ipc).arg, active)}),
                                      Cardinality(NotRunning(found, active))}),
                                 NotRunning(found, active)) :
            /\ active' = active \cup starts
            /\ run' = [a \in Attachments |-> IF a \in starts THEN "check" ELSE run[a]]
            /\ IssueAfterHead(SetToSeq({Read(a) : a \in starts}))
    BY <1>9 DEF _maybeStartJob
  <2>2. PICK starts \in kSubset(Min({Max({0, Needed(Head(ipc).arg, active)}),
                                     Cardinality(NotRunning(found, active))}),
                                NotRunning(found, active)) :
            /\ active' = active \cup starts
            /\ run' = [a \in Attachments |-> IF a \in starts THEN "check" ELSE run[a]]
            /\ IssueAfterHead(SetToSeq({Read(a) : a \in starts}))
    BY <2>1
  <2>3. ipc # <<>> /\ UNCHANGED <<row, jobs>>
    BY <1>9 DEF _maybeStartJob, Turn
  <2>4. NotRunning(found, active) \in SUBSET Attachments
    BY <2>1 DEF NotRunning, NextJobs, kSubset, Ready
  <2>5. starts \subseteq Attachments /\ Cardinality(active') <= MAX_ATTACHMENT_JOB_PARALLELISM
    BY <1>1, <2>2, <2>4, StartsFit
  <2>6. SetToSeq({Read(a) : a \in starts}) \in Seq(S)
    BY <2>5, ReadsOfStarts DEF S
  <2>7. ipc' \in Seq(S)
    BY <1>1, <2>2, <2>3, <2>6, Issued
  <2>8. active' \subseteq Attachments
    BY <1>1, <2>2, <2>5
  <2>9. run' \in [Attachments -> Runs]
    BY <1>1, <2>2 DEF Runs
  <2>10. QED
    BY <1>1, <2>3, <2>5, <2>7, <2>8, <2>9, DownloadsKept DEF S
<1>10. CASE MarkedRead
  <2> DEFINE r == [Model(row) EXCEPT !.unread = FALSE]
  <2>1. /\ ipc # <<>> /\ UNCHANGED <<row, jobs, active, run>>
        /\ \/ Exists(row) /\ IssueAfterHead(SavedByModel(row) \o <<Save("reader", r)>>)
           \/ IssueAfterHead(<<>>)
    BY <1>10 DEF MarkedRead, Turn
  <2>2. CASE Exists(row) /\ IssueAfterHead(SavedByModel(row) \o <<Save("reader", r)>>)
    <3>1. row \in IncomingRow
      BY <1>1, <2>2 DEF Exists, NoRow
    <3>2. r \in IncomingRow
      BY <3>1, IncomingRows
    <3> HIDE DEF r
    <3>3. <<Save("reader", r)>> \in Seq(S)
      BY <1>3, <3>2
    <3>4. ipc' \in Seq(S)
      BY <1>1, <1>2, <2>1, <2>2, <3>3, SavesBehindModel DEF S
    <3>5. QED
      BY <1>1, <2>1, <3>4, DownloadsKept DEF S
  <2>3. CASE IssueAfterHead(<<>>)
    <3>1. ipc' \in Seq(S)
      BY <1>1, <2>1, <2>3, Issued
    <3>2. QED
      BY <1>1, <2>1, <3>1, DownloadsKept DEF S
  <2>4. QED
    BY <2>1, <2>2, <2>3
<1>11. CASE ReadSaved
  <2>1. /\ Turn("reader", "save") /\ row' = Head(ipc).arg /\ IssueAfterHead(<<>>)
        /\ UNCHANGED <<jobs, active, run>>
    BY <1>11 DEF ReadSaved
  <2>2. ipc # <<>> /\ row' \in IncomingRow
    BY <1>1, <2>1, TurnTaken
  <2>3. ipc' \in Seq(S)
    BY <1>1, <2>1, <2>2, Issued
  <2>4. QED
    BY <1>1, <2>1, <2>2, <2>3, DownloadsKept DEF S
<1>12. CASE RestartDownloads
  <2>1. /\ jobs' = [a \in Attachments |-> Reset(jobs[a])]
        /\ active' = {} /\ run' = [a \in Attachments |-> "idle"] /\ ipc' = <<>> /\ UNCHANGED row
    BY <1>12 DEF RestartDownloads
  <2>2. jobs' \in [Attachments -> Jobs]
    BY <1>1, <2>1, JobTypes
  <2>3. active' \subseteq Attachments /\ Cardinality(active') <= MAX_ATTACHMENT_JOB_PARALLELISM
    BY <2>1, FS_EmptySet, DownloadsAssumption
  <2>4. run' \in [Attachments -> Runs]
    BY <2>1 DEF Runs
  <2>5. QED
    BY <1>1, <2>1, <2>2, <2>3, <2>4, DownloadsKept DEF S
<1>13. QED
    BY <1>4, <1>5, <1>6, <1>7, <1>8, <1>9, <1>10, <1>11, <1>12

\* the run of the download of a
LEMMA RunKeepsDownloads ==
    ASSUME DownloadsInv, NEW a \in Attachments,
           RunStep(a) \/ BackoffEnds(a) \/ Downloaded(a) \/ DownloadFails(a)
    PROVE  DownloadsInv'
<1> DEFINE S == Statements(IncomingRow)
<1>1. /\ RowsIn(IncomingRow) /\ row \in IncomingRow \cup {NoRow} /\ ipc \in Seq(S) /\ <<>> \in Seq(S)
      /\ jobs \in [Attachments -> Jobs] /\ active \in SUBSET Attachments
      /\ Cardinality(active) <= MAX_ATTACHMENT_JOB_PARALLELISM
      /\ run \in [Attachments -> Runs] /\ a \in Issuers /\ jobs[a] \in Jobs
    BY DEF DownloadsInv, RowsIn, Issuers
<1>2. \A r \in IncomingRow : Model(r) \in IncomingRow
    BY IncomingRows
<1>3. <<Read(a)>> \in Seq(S) /\ \A r \in IncomingRow : <<Save(a, r)>> \in Seq(S)
    BY <1>1, StatementTypes
<1>4. /\ <<JobStatement(a, "setPending", a, NoJob)>> \in Seq(S)
      /\ <<JobStatement(a, "removeJob", a, NoJob)>> \in Seq(S)
      /\ ~LastAttempt(jobs[a]) => <<JobStatement(a, "saveJob", a, Failed(jobs[a]))>> \in Seq(S)
  <2>1. NoJob \in Jobs /\ (~LastAttempt(jobs[a]) => Failed(jobs[a]) \in Jobs)
    BY <1>1, JobTypes
  <2>2. /\ JobStatement(a, "setPending", a, NoJob) \in S
        /\ JobStatement(a, "removeJob", a, NoJob) \in S
        /\ ~LastAttempt(jobs[a]) => JobStatement(a, "saveJob", a, Failed(jobs[a])) \in S
    BY <1>1, <2>1, JobStatementType
  <2> HIDE DEF S
  <2>3. \A s \in S : <<s>> \in Seq(S)
    OBVIOUS
  <2>4. QED
    BY <2>2, <2>3
<1> HIDE DEF S
<1>5. CASE BackoffEnds(a)
  <2>1. jobs' = [jobs EXCEPT ![a].due = TRUE] /\ UNCHANGED <<row, ipc, active, run>>
    BY <1>5 DEF BackoffEnds, table
  <2>2. [jobs[a] EXCEPT !.due = TRUE] \in Jobs
    BY <1>1, JobTypes
  <2>3. jobs' \in [Attachments -> Jobs]
    BY <1>1, <2>1, <2>2
  <2>4. QED
    BY <1>1, <2>1, <2>3, DownloadsKept DEF S
<1>6. CASE Downloaded(a)
  <2>1. PICK result \in {"done", "error"} : GotoRun(a, result)
    BY <1>6 DEF Downloaded
  <2>2. Issue(<<Read(a)>>) /\ UNCHANGED <<row, jobs, active>>
    BY <1>6 DEF Downloaded
  <2>3. ipc' \in Seq(S)
    BY <1>1, <1>3, <2>2, Issued
  <2>4. run' \in [Attachments -> Runs]
    BY <1>1, <2>1, GoesOnRun DEF Runs
  <2>5. QED
    BY <1>1, <2>2, <2>3, <2>4, DownloadsKept DEF S
<1>7. CASE DownloadFails(a)
  <2>1. /\ UNCHANGED <<row, jobs, active>>
        /\ \/ GotoRun(a, "error") /\ Issue(<<Read(a)>>)
           \/ /\ ~LastAttempt(jobs[a]) /\ GotoRun(a, "retry")
              /\ Issue(<<JobStatement(a, "saveJob", a, Failed(jobs[a]))>>)
    BY <1>7 DEF DownloadFails
  <2>2. ipc' \in Seq(S)
    BY <1>1, <1>3, <1>4, <2>1, Issued
  <2>3. run' \in [Attachments -> Runs]
    BY <1>1, <2>1, GoesOnRun DEF Runs
  <2>4. QED
    BY <1>1, <2>1, <2>2, <2>3, DownloadsKept DEF S
<1>8. CASE FoundMessage(a)
  <2>1. /\ ipc # <<>> /\ UNCHANGED <<row, jobs, active>>
        /\ \/ /\ GotoRun(a, "mark")
              /\ IssueAfterHead(SavedByModel(row) \o <<JobStatement(a, "setPending", a, NoJob)>>)
           \/ GotoRun(a, "remove") /\ IssueAfterHead(<<JobStatement(a, "removeJob", a, NoJob)>>)
    BY <1>8 DEF FoundMessage, Turn
  <2>2. IssueAfterHead(SavedByModel(row) \o <<JobStatement(a, "setPending", a, NoJob)>>) =>
          ipc' \in Seq(S)
    BY <1>1, <1>2, <1>4, <2>1, SavesBehindModel DEF S
  <2>3. IssueAfterHead(<<JobStatement(a, "removeJob", a, NoJob)>>) => ipc' \in Seq(S)
    BY <1>1, <1>4, <2>1, Issued
  <2>4. run' \in [Attachments -> Runs]
    BY <1>1, <2>1, GoesOnRun DEF Runs
  <2>5. QED
    BY <1>1, <2>1, <2>2, <2>3, <2>4, DownloadsKept DEF S
<1>9. CASE MarkedPending(a)
  <2>1. /\ ipc # <<>> /\ GotoRun(a, "download") /\ IssueAfterHead(<<>>)
        /\ jobs' = [jobs EXCEPT ![a] = IF @ = NoJob THEN NoJob ELSE [@ EXCEPT !.pending = TRUE]]
        /\ UNCHANGED <<row, active>>
    BY <1>9 DEF MarkedPending, Turn
  <2>2. NoJob \in Jobs /\ [jobs[a] EXCEPT !.pending = TRUE] \in Jobs
    BY <1>1, JobTypes
  <2>3. jobs' \in [Attachments -> Jobs]
    BY <1>1, <2>1, <2>2
  <2>4. ipc' \in Seq(S)
    BY <1>1, <2>1, Issued
  <2>5. run' \in [Attachments -> Runs]
    BY <1>1, <2>1, GoesOnRun DEF Runs
  <2>6. QED
    BY <1>1, <2>1, <2>3, <2>4, <2>5, DownloadsKept DEF S
<1>10. CASE AddAttachmentToMessage(a)
  <2> DEFINE r == [Model(row) EXCEPT !.att[a] = run[a]]
  <2>1. /\ ipc # <<>> /\ run[a] \in {"done", "error"} /\ UNCHANGED <<row, jobs, active>>
        /\ \/ Exists(row) /\ GotoRun(a, "save") /\ IssueAfterHead(SavedByModel(row) \o <<Save(a, r)>>)
           \/ GotoRun(a, "remove") /\ IssueAfterHead(<<JobStatement(a, "removeJob", a, NoJob)>>)
    BY <1>10 DEF AddAttachmentToMessage, Turn
  <2>2. Exists(row) => r \in IncomingRow
    <3>1. Exists(row) => row \in IncomingRow
      BY <1>1 DEF Exists, NoRow
    <3>2. Exists(row) => Model(row) \in IncomingRow
      BY <1>2, <3>1
    <3>3. QED
      BY <2>1, <3>2, IncomingRows
  <2> HIDE DEF r
  <2>3. Exists(row) /\ IssueAfterHead(SavedByModel(row) \o <<Save(a, r)>>) => ipc' \in Seq(S)
    BY <1>1, <1>2, <1>3, <2>1, <2>2, SavesBehindModel DEF S
  <2>4. IssueAfterHead(<<JobStatement(a, "removeJob", a, NoJob)>>) => ipc' \in Seq(S)
    BY <1>1, <1>4, <2>1, Issued
  <2>5. run' \in [Attachments -> Runs]
    BY <1>1, <2>1, GoesOnRun DEF Runs
  <2>6. QED
    BY <1>1, <2>1, <2>3, <2>4, <2>5, DownloadsKept DEF S
<1>11. CASE FinishJob(a)
  <2>1. /\ Turn(a, "save") /\ row' = Head(ipc).arg /\ GotoRun(a, "remove")
        /\ IssueAfterHead(<<JobStatement(a, "removeJob", a, NoJob)>>) /\ UNCHANGED <<jobs, active>>
    BY <1>11 DEF FinishJob, saveMessage
  <2>2. ipc # <<>> /\ row' \in IncomingRow
    BY <1>1, <2>1, TurnTaken
  <2>3. ipc' \in Seq(S)
    BY <1>1, <1>4, <2>1, <2>2, Issued
  <2>4. run' \in [Attachments -> Runs]
    BY <1>1, <2>1, GoesOnRun DEF Runs
  <2>5. QED
    BY <1>1, <2>1, <2>2, <2>3, <2>4, DownloadsKept DEF S
<1>12. CASE RunEnds(a)
  <2> DEFINE s == Head(ipc).arg
  <2>1. /\ Turn(a, "removeJob") \/ Turn(a, "saveJob")
        /\ jobs' = [jobs EXCEPT ![a] = s.job] /\ active' = active \ {a}
        /\ GotoRun(a, "idle") /\ IssueAfterHead(StartQuery(active \ {a})) /\ UNCHANGED row
    BY <1>12 DEF RunEnds
  <2>2. ipc # <<>> /\ s \in [a : Attachments, job : Jobs]
    BY <1>1, <2>1, TurnTaken
  <2> HIDE DEF s
  <2>3. jobs' \in [Attachments -> Jobs]
    BY <1>1, <2>1, <2>2
  <2>4. active' \subseteq Attachments /\ Cardinality(active') <= MAX_ATTACHMENT_JOB_PARALLELISM
    BY <1>1, <2>1, FewerFit
  <2>5. StartQuery(active \ {a}) \in Seq(S)
    BY <1>1, StartQueryType DEF S
  <2>6. ipc' \in Seq(S)
    BY <1>1, <2>1, <2>2, <2>5, Issued
  <2>7. run' \in [Attachments -> Runs]
    BY <1>1, <2>1, GoesOnRun DEF Runs
  <2>8. QED
    BY <1>1, <2>1, <2>3, <2>4, <2>6, <2>7, DownloadsKept DEF S
<1>13. QED
    BY <1>5, <1>6, <1>7, <1>8, <1>9, <1>10, <1>11, <1>12 DEF RunStep

LEMMA DownloadsStepKeeps ==
    ASSUME DownloadsInv, DownloadsNext
    PROVE  DownloadsInv'
<1>1. CASE TableNext /\ UNCHANGED downloads
  <2>1. RowsIn(IncomingRow) /\ UNCHANGED <<jobs, active, run>>
    BY <1>1 DEF DownloadsInv, downloads
  <2>2. row' \in IncomingRow \cup {NoRow} /\ ipc' \in Seq(Statements(IncomingRow))
    BY <1>1, <2>1, TableKeepsRows
  <2>3. QED
    BY <2>1, <2>2 DEF DownloadsInv, RowsIn
<1>2. CASE queueAttachmentDownloads \/ _tick \/ markRead \/ DownloadsStep \/ RestartDownloads
    BY <1>2, MessageKeepsDownloads, RunKeepsDownloads DEF DownloadsStep
<1>3. CASE \E a \in Attachments : BackoffEnds(a) \/ Downloaded(a) \/ DownloadFails(a)
    BY <1>3, RunKeepsDownloads
<1>4. QED
    BY <1>1, <1>2, <1>3 DEF DownloadsNext

-----------------------------------------------------------------------------
(* The theorems *)

LEMMA FaultsStay ==
    ASSUME faults \in 0..MaxFaults, SentNext \/ DownloadsNext
    PROVE  faults' \in 0..MaxFaults
<1>1. Fault \/ UNCHANGED faults
  <2>1. CASE TableNext
      BY <2>1 DEF TableNext, TableStep, ExpiryStep, ModelSaved, Removed, checkExpiringMessages,
          destroyExpiredMessages, CleanedUp, Destroyed, removeMessage, DestroyFails
  <2>2. CASE UserStep \/ resendMessage \/ UploadFails
      BY <2>2 DEF UserStep, resendMessage, UploadFails, retrySend, RetrySaved, uploadData,
          LoadedSaved, Uploaded, ErrorSaved, table
  <2>3. ASSUME NEW d \in Sends, SendStep(d) \/ StoreRefused(d) \/ StoreFails(d)
        PROVE  Fault \/ UNCHANGED faults
      BY <2>3 DEF SendStep, StoreRefused, StoreFails, StartSend, SetSentAt, SentAtSaved,
          StoreSucceeds, handleSwarmMessageSentSuccess, handleSwarmMessageSentFailure,
          FailureSaved, Saved, EndSend, table
  <2>4. CASE sendSyncMessage \/ SyncSaved \/ FetchedAgain \/ Restart
      BY <2>4 DEF sendSyncMessage, SyncSaved, FetchedAgain, Restart
  <2>5. CASE \/ queueAttachmentDownloads \/ _tick \/ markRead \/ JobAdded \/ PendingSaved
             \/ _maybeStartJob \/ MarkedRead \/ ReadSaved \/ RestartDownloads
      BY <2>5 DEF queueAttachmentDownloads, _tick, markRead, JobAdded, PendingSaved,
          _maybeStartJob, MarkedRead, ReadSaved, RestartDownloads
  <2>6. ASSUME NEW a \in Attachments,
               RunStep(a) \/ BackoffEnds(a) \/ Downloaded(a) \/ DownloadFails(a)
        PROVE  Fault \/ UNCHANGED faults
      BY <2>6 DEF RunStep, BackoffEnds, Downloaded, DownloadFails, FoundMessage, MarkedPending,
          AddAttachmentToMessage, FinishJob, RunEnds, table
  <2>7. QED
      BY <2>1, <2>2, <2>3, <2>4, <2>5, <2>6 DEF SentNext, DownloadsNext, DownloadsStep
<1>2. QED
    BY <1>1, FaultsBounded

LEMMA RowInit == Init => RowInv
<1> SUFFICES ASSUME Init
             PROVE  RowInv
    OBVIOUS
<1>1. kind \in Kinds /\ faults \in 0..MaxFaults
    BY FaultsAssumption DEF Init, SentInit, DownloadsInit, TableInit
<1>2. ASSUME kind = "outgoing"
      PROVE  SentInv /\ NotDownloading
  <2>1. SentInit /\ NotDownloading
    BY <1>2 DEF Init
  <2>2. PICK timer \in BOOLEAN : row = Unsent(timer) /\ ipc = <<>>
    BY <2>1 DEF SentInit, TableInit
  <2>3. row \in Truthful({}) /\ row # NoRow
    BY <2>2 DEF Unsent, Truthful, OutgoingRow, NoRow
  <2>4. /\ queued = {} /\ stored = {}
        /\ writer = [w \in Writers |->
                       IF w = "user" THEN [Idle EXCEPT !.pc = "load", !.copy = row] ELSE Idle]
    BY <2>1 DEF SentInit, Writers
  <2>5. Idle \in Writer(Truthful({})) /\ Idle.pc = "idle"
    BY DEF Idle, Writer, Places
  <2>6. /\ [Idle EXCEPT !.pc = "load", !.copy = row] \in Writer(Truthful({}))
        /\ [Idle EXCEPT !.pc = "load", !.copy = row].pc = "load"
        /\ [Idle EXCEPT !.pc = "load", !.copy = row].copy = row
    BY <2>3 DEF Idle, Writer, Places
  <2>7. SentTypes
    BY <2>2, <2>3, <2>4, <2>5, <2>6 DEF SentTypes, RowsIn
  <2>8. \A w \in Writers : Justified(w, writer[w], stored)
    BY <2>3, <2>4, <2>5, <2>6 DEF Justified
  <2>9. QED
    BY <2>1, <2>4, <2>7, <2>8 DEF SentInv
<1>3. ASSUME kind = "incoming"
      PROVE  DownloadsInv /\ queued = {} /\ stored = {}
  <2>1. DownloadsInit /\ NotSending
    BY <1>3 DEF Init
  <2>2. row \in IncomingRow /\ ipc = <<>>
    BY <2>1 DEF DownloadsInit, TableInit, Received, IncomingRow
  <2>3. jobs \in [Attachments -> Jobs]
    BY <2>1, JobTypes DEF DownloadsInit
  <2>4. active \subseteq Attachments /\ Cardinality(active) <= MAX_ATTACHMENT_JOB_PARALLELISM
    BY <2>1, FS_EmptySet, DownloadsAssumption DEF DownloadsInit
  <2>5. run \in [Attachments -> Runs]
    BY <2>1 DEF DownloadsInit, Runs
  <2>6. QED
    BY <2>1, <2>2, <2>3, <2>4, <2>5 DEF NotSending, DownloadsInv, RowsIn
<1>4. QED
    BY <1>1, <1>2, <1>3 DEF RowInv

LEMMA RowStep == RowInv /\ [Next]_vars => RowInv'
<1> SUFFICES ASSUME RowInv, [Next]_vars
             PROVE  RowInv'
    OBVIOUS
<1>1. CASE UNCHANGED vars
  <2>1. /\ UNCHANGED <<kind, row, ipc, faults, queued, stored, writer, jobs, active, run, handler>>
    BY <1>1 DEF vars, table, sending, downloads
  <2>2. UNCHANGED <<SentTypes, DownloadsInv, NotDownloading>>
    BY <2>1 DEF SentTypes, DownloadsInv, NotDownloading, RowsIn
  <2>3. SentInv => SentInv'
    BY <2>1, <2>2 DEF SentInv
  <2>4. QED
    BY <2>1, <2>2, <2>3 DEF RowInv
<1>2. CASE kind = "outgoing" /\ SentNext /\ UNCHANGED <<kind, downloads>>
  <2>1. SentInv' /\ faults' \in 0..MaxFaults
    BY <1>2, SentStep, FaultsStay DEF RowInv
  <2>2. NotDownloading'
    BY <1>2 DEF RowInv, NotDownloading, downloads
  <2>3. QED
    BY <1>2, <2>1, <2>2 DEF RowInv
<1>3. CASE kind = "incoming" /\ DownloadsNext /\ UNCHANGED <<kind, sending>>
  <2>1. DownloadsInv' /\ faults' \in 0..MaxFaults
    BY <1>3, DownloadsStepKeeps, FaultsStay DEF RowInv
  <2>2. queued' = {} /\ stored' = {}
    BY <1>3 DEF RowInv, sending
  <2>3. QED
    BY <1>3, <2>1, <2>2 DEF RowInv
<1>4. QED
    BY <1>1, <1>2, <1>3 DEF Next

\* Every row of the message there is, in the table, on its way to it or with who
\* is about to write it, claims no more than the swarms have.  It is inductive,
\* and SentIsStored is not: whoever writes the row writes the whole row it read.
THEOREM RowsAreTrue == Spec => []RowInv
    BY RowInit, RowStep, PTL DEF Spec

LEMMA SavesAreRows ==
    ASSUME NEW rows, RowsIn(rows), NEW i \in DOMAIN ipc, ipc[i].op = "save"
    PROVE  ipc[i].arg \in rows
<1>1. ipc[i] \in Statements(rows)
    BY DEF RowsIn
<1>2. \A s \in Statements(rows) : s.op = "save" => s.arg \in rows
    BY DEF Statements
<1>3. QED
    BY <1>1, <1>2

\* A save is of a row of the message it is about, and no more than
\* MAX_ATTACHMENT_JOB_PARALLELISM downloads run at a time, however many queries
\* of _maybeStartJob are under way at once.
THEOREM TypeCorrect == Spec => []TypeOK
<1>1. RowInv => TypeOK
  <2> SUFFICES ASSUME RowInv
               PROVE  TypeOK
    OBVIOUS
  <2>1. kind \in Kinds /\ faults \in 0..MaxFaults /\ kind \in {"outgoing", "incoming"}
    BY KindsAssumption DEF RowInv
  <2>2. CASE kind = "outgoing"
    <3>1. SentTypes /\ NotDownloading /\ RowsIn(Truthful(stored))
      BY <2>2 DEF RowInv, SentInv, SentTypes
    <3>2. \A r \in Truthful(stored) : r.kind = "outgoing"
      BY TruthfulRows
    <3>3. row.kind \in {kind, "none"}
      BY <2>2, <3>1, <3>2 DEF RowsIn, NoRow
    <3>4. \A i \in DOMAIN ipc : ipc[i].op = "save" => ipc[i].arg.kind = kind
      BY <2>2, <3>1, <3>2, SavesAreRows
    <3>5. active \subseteq Attachments /\ Cardinality(active) <= MAX_ATTACHMENT_JOB_PARALLELISM
      BY <3>1, FS_EmptySet, DownloadsAssumption DEF NotDownloading
    <3>6. \A a \in Attachments : jobs[a].attempts \in -1..MaxAttempts - 1
      <4>1. \A a \in Attachments : jobs[a] = NoJob
        BY <3>1 DEF NotDownloading
      <4>2. NoJob \in Jobs
        BY JobTypes
      <4>3. QED
        BY <4>1, <4>2 DEF Jobs
    <3>7. QED
      BY <2>1, <3>1, <3>3, <3>4, <3>5, <3>6 DEF TypeOK, SentTypes
  <2>3. CASE kind = "incoming"
    <3>1. DownloadsInv /\ queued = {} /\ stored = {} /\ RowsIn(IncomingRow)
      BY <2>3 DEF RowInv, DownloadsInv
    <3>2. \A r \in IncomingRow : r.kind = "incoming"
      BY IncomingRows
    <3>3. row.kind \in {kind, "none"}
      BY <2>3, <3>1, <3>2 DEF RowsIn, NoRow
    <3>4. \A i \in DOMAIN ipc : ipc[i].op = "save" => ipc[i].arg.kind = kind
      BY <2>3, <3>1, <3>2, SavesAreRows
    <3>5. \A a \in Attachments : jobs[a].attempts \in -1..MaxAttempts - 1
      BY <3>1 DEF DownloadsInv, Jobs
    <3>6. QED
      BY <2>1, <3>1, <3>3, <3>4, <3>5 DEF TypeOK, DownloadsInv
  <2>4. QED
    BY <2>1, <2>2, <2>3
<1>2. QED
    BY <1>1, RowsAreTrue, PTL

LEMMA OutgoingIsTruthful ==
    ASSUME RowInv, Outgoing
    PROVE  row \in Truthful(stored)
<1>1. CASE kind = "outgoing"
    BY <1>1 DEF RowInv, SentInv, SentTypes, RowsIn, Outgoing, NoRow
<1>2. CASE kind = "incoming"
  <2>1. row \in IncomingRow \cup {NoRow}
    BY <1>2 DEF RowInv, DownloadsInv, RowsIn
  <2>2. row.kind # "outgoing"
    <3>1. CASE row \in IncomingRow
      BY <3>1, IncomingRows
    <3>2. CASE row = NoRow
      BY <3>2 DEF NoRow
    <3>3. QED
      BY <2>1, <3>1, <3>2
  <2>3. QED
    BY <2>2 DEF Outgoing
<1>3. QED
    BY <1>1, <1>2, KindsAssumption DEF RowInv

\* A message that getMessagePropStatus shows as sent was stored for its recipient,
\* for every number of attempts and of retries of the user, and wherever the
\* process ends.
THEOREM SentMeansStored == Spec => []SentIsStored
<1>1. RowInv => SentIsStored
    BY OutgoingIsTruthful DEF SentIsStored, Truthful, Outgoing
<1>2. QED
    BY <1>1, RowsAreTrue, PTL

\* A message that reached nobody has no time to expire at: neither
\* checkForExpiringOutgoingMessage nor a constructor that read an older row gives
\* it one.
THEOREM UnsentStays == Spec => []UnsentIsKept
<1>1. RowInv => UnsentIsKept
    BY OutgoingIsTruthful DEF UnsentIsKept, Truthful, Outgoing
<1>2. QED
    BY <1>1, RowsAreTrue, PTL
=============================================================================
