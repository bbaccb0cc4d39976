--------------------------- MODULE MailboxProofs ---------------------------
(***************************************************************************)
(* Proofs about MailboxSystem for every number of messages, rows, tasks    *)
(* and processes.                                                          *)
(***************************************************************************)
EXTENDS MailboxSystem, FiniteSetTheorems, TLAPS

----------------------------------------------------------------------------
(* Lemmas about the operators of MailboxState.                             *)

\* Renumbering gives every message a UID.
LEMMA RenumberedType ==
    ASSUME uid \in [Msgs -> Nat], NEW moved \in SUBSET Msgs, NEW first \in Nat
    PROVE  Renumbered(moved, first) \in [Msgs -> Nat]
<1>1. \A m \in Msgs : Cardinality({n \in moved : uid[n] < uid[m]}) \in Nat
  BY MailboxAssumption, FS_Subset, FS_CardinalityType DEF MailboxAssumption
<1> QED BY <1>1 DEF Renumbered

\* A relink keeps the RawEmail table well-typed.
LEMMA RelinkedType ==
    ASSUME raws \in [RawIds -> Raw], NEW raw \in RawIds \cup {None}, NEW u \in Nat, NEW v \in Nat
    PROVE  Relinked(raw, u, v) \in [RawIds -> Raw]
BY DEF Relinked, Raw

\* Updates of a row that keep it a row.
LEMMA RowUpdates ==
    ASSUME NEW row \in Row
    PROVE  /\ \A h \in Msgs \cup {None} : [row EXCEPT !.hit = h] \in Row
           /\ \A s \in Status : [row EXCEPT !.status = s] \in Row
           /\ [row EXCEPT !.old = TRUE] \in Row
           /\ \A s \in Status, u \in Nat, v \in Nat :
                 [row EXCEPT !.status = s, !.destUid = u, !.destVal = v] \in Row
           /\ \A s \in Status, o \in Nat : [row EXCEPT !.status = s, !.undoOf = o] \in Row
BY DEF Row

\* A UID MOVE keeps the folders and the rows well-typed.
LEMMA UidMoveType ==
    ASSUME TypeOK, NEW held, NEW from \in Folders, NEW to \in Folders,
           NEW moved \in SUBSET Msgs, NEW answer \in Answer,
           UidMove(held, from, to, moved, answer)
    PROVE  /\ box' \in [Msgs -> Folders \cup {"none", "gone"}]
           /\ uid' \in [Msgs -> Nat]
           /\ nextUid' \in [Folders -> Nat] /\ validity' \in [Folders -> Nat]
           /\ rows' \in [RowIds -> Row]
<1>1. Cardinality(moved) \in Nat
  BY MailboxAssumption, FS_Subset, FS_CardinalityType DEF MailboxAssumption
<1>2. nextUid[to] \in Nat
  BY DEF TypeOK
<1>3. uid' \in [Msgs -> Nat]
  BY <1>2, RenumberedType DEF UidMove, TypeOK
<1>4. \A r \in RowIds : rows'[r] \in Row
  <2> SUFFICES ASSUME NEW r \in RowIds PROVE rows'[r] \in Row
    OBVIOUS
  <2>1. CASE r \in held /\ \E m \in moved : uid[m] = rows[r].srcUid
    <3> DEFINE h == CHOOSE m \in moved : uid[m] = rows[r].srcUid
    <3>1. h \in Msgs
      BY <2>1
    <3>2. rows'[r] = [rows[r] EXCEPT !.hit = h]
      BY <2>1 DEF UidMove
    <3>3. rows[r] \in Row
      BY DEF TypeOK
    <3> HIDE DEF h
    <3> QED BY <3>1, <3>2, <3>3, RowUpdates
  <2>2. CASE ~(r \in held /\ \E m \in moved : uid[m] = rows[r].srcUid)
    <3>1. rows'[r] = rows[r]
      BY <2>2 DEF UidMove
    <3> QED BY <3>1 DEF TypeOK
  <2> QED BY <2>1, <2>2
<1>5. rows' \in [RowIds -> Row]
  BY <1>4 DEF UidMove
<1> QED BY <1>1, <1>2, <1>3, <1>5 DEF UidMove, TypeOK

\* COPYUID names a UID or nothing.
LEMMA CopyUidType ==
    ASSUME TypeOK, NEW r, NEW held, NEW to \in Folders, NEW moved \in SUBSET Msgs, NEW answer
    PROVE  CopyUid(r, held, to, moved, answer) \in Nat
<1>1. Renumbered(moved, nextUid[to]) \in [Msgs -> Nat]
  BY RenumberedType DEF TypeOK
<1> QED BY <1>1 DEF CopyUid

----------------------------------------------------------------------------
(* Type correctness: one lemma for each action.                            *)

\* The set of Message-IDs that an envelope may hold.
LEMMA EnvelopeType ==
    ASSUME NEW f, NEW u, Present(f, u)
    PROVE  EnvelopeMid(f, u) \in MessageIds
<1> DEFINE m == CHOOSE n \in Msgs : box[n] = f /\ uid[n] = u
<1>1. m \in Msgs
  BY DEF Present, MsgsAt
<1> HIDE DEF m
<1>2. Mid[m] \in MessageIds
  BY <1>1 DEF MessageIds
<1> QED BY <1>2 DEF EnvelopeMid, m

LEMMA StoredMidType ==
    ASSUME NEW m \in Msgs
    PROVE  StoredMid(m) \in MessageIds
BY DEF StoredMid, MessageIds

\* Leaving drops the locals, and lets no task get a wrong label.
LEMMA ForgetType ==
    ASSUME TypeOK, NEW t \in Tasks, Forget(t)
    PROVE  /\ pc' \in [Tasks -> {"idle"} \cup MovePcs \cup UndoPcs \cup RecPcs]
           /\ mv' \in [MoveTasks -> MoveJob]
           /\ rs' \in [UndoTasks -> UndoJob]
           /\ rc' \in [RecTasks -> RecJob]
<1>1. NoMoveJob \in MoveJob
  BY DEF NoMoveJob, MoveJob, Answer
<1>2. NoUndoJob \in UndoJob
  BY DEF NoUndoJob, UndoJob, Answer
<1>3. NoRecJob \in RecJob
  BY DEF NoRecJob, RecJob, NoProbe, Probe, FreeRow, Row, Status, MessageIds
<1>4. pc' \in [Tasks -> {"idle"} \cup MovePcs \cup UndoPcs \cup RecPcs]
  BY DEF Forget, TypeOK
<1>5. mv' \in [MoveTasks -> MoveJob]
  BY <1>1 DEF Forget, TypeOK
<1>6. rs' \in [UndoTasks -> UndoJob]
  BY <1>2 DEF Forget, TypeOK
<1>7. rc' \in [RecTasks -> RecJob]
  BY <1>3 DEF Forget, TypeOK
<1> QED BY <1>4, <1>5, <1>6, <1>7

\* A job that goes on at a label of its own keeps the labels well-typed.
LEMMA GotoType ==
    ASSUME TypeOK, NEW t \in Tasks, NEW label \in {"idle"} \cup MovePcs \cup UndoPcs \cup RecPcs,
           Goto(t, label)
    PROVE  pc' \in [Tasks -> {"idle"} \cup MovePcs \cup UndoPcs \cup RecPcs]
BY DEF Goto, TypeOK

\* The empty jobs are jobs.
LEMMA EmptyJobs ==
    /\ NoMoveJob \in MoveJob
    /\ NoUndoJob \in UndoJob
    /\ NoRecJob \in RecJob
    /\ FreeRow \in Row
BY DEF NoMoveJob, MoveJob, NoUndoJob, UndoJob, Answer, NoRecJob, RecJob, NoProbe, Probe,
       FreeRow, Row, Status, MessageIds

\* Updates of a job that keep it a job.
LEMMA MoveJobUpdates ==
    ASSUME NEW j \in MoveJob
    PROVE  /\ \A a \in SUBSET RawIds, b \in SUBSET MessageIds :
                 [j EXCEPT !.undone = a, !.seen = b] \in MoveJob
           /\ \A v \in Nat : [j EXCEPT !.val = v] \in MoveJob
           /\ \A a \in SUBSET Target, b \in SUBSET Target, c \in SUBSET RawIds :
                 [j EXCEPT !.todo = a, !.batch = b, !.skip = c] \in MoveJob
           /\ \A b \in SUBSET Target, c \in SUBSET RawIds :
                 [j EXCEPT !.batch = b, !.skip = c] \in MoveJob
           /\ \A b \in SUBSET Target, h \in SUBSET RowIds :
                 [j EXCEPT !.batch = b, !.held = h] \in MoveJob
           /\ \A b \in SUBSET Target : [j EXCEPT !.batch = b] \in MoveJob
           /\ \A a \in Answer, d \in [RowIds -> Nat], v \in Nat :
                 [j EXCEPT !.answer = a, !.destVal = v, !.dest = d] \in MoveJob
           /\ \A o \in [RowIds -> {"succeeded", "failed", "unknown"}] :
                 [j EXCEPT !.out = o] \in MoveJob
BY DEF MoveJob

LEMMA ReadTrashedType ==
    ASSUME TypeOK, NEW t \in MoveTasks, ReadTrashed(t)
    PROVE  TypeOK'
<1> DEFINE und == {rows[r].raw : r \in {q \in RowIds : rows[q].action = "move" /\ rows[q].status = "undone"}} \ {None}
           mids == {rows[r].mid : r \in {q \in RowIds : Trashed(q)}} \ {None}
<1>1. und \in SUBSET RawIds
  BY DEF TypeOK, Row
<1>2. mids \in SUBSET MessageIds
  BY DEF TypeOK, Row
<1>3. mv' = [mv EXCEPT ![t].undone = und, ![t].seen = mids]
  BY DEF ReadTrashed
<1> HIDE DEF und, mids
<1>4. mv' \in [MoveTasks -> MoveJob]
  <2>1. mv[t] \in MoveJob
    BY DEF TypeOK
  <2>2. [mv[t] EXCEPT !.undone = und, !.seen = mids] \in MoveJob
    BY <1>1, <1>2, <2>1, MoveJobUpdates
  <2> QED BY <1>3, <2>2 DEF TypeOK
<1>5. pc' \in [Tasks -> {"idle"} \cup MovePcs \cup UndoPcs \cup RecPcs]
  BY GotoType DEF ReadTrashed, Tasks, MovePcs
<1> QED BY <1>4, <1>5 DEF TypeOK, ReadTrashed, server, db

LEMMA ScanType ==
    ASSUME TypeOK, NEW t \in MoveTasks, Scan(t)
    PROVE  TypeOK'
<1>1. \A i \in RawIds : raws[i].msg # None => TargetOf(i) \in Target
  BY StoredMidType DEF TargetOf, Target, TypeOK, Raw
<1>2. CASE \E chosen \in (SUBSET Eligible(t)) \ {{}} :
            /\ mv' = [mv EXCEPT ![t] = [NoMoveJob EXCEPT !.todo = {TargetOf(i) : i \in chosen}]]
            /\ Goto(t, "m_acquire") /\ UNCHANGED <<rs, rc>>
  <2>1. PICK chosen \in SUBSET Eligible(t) :
            mv' = [mv EXCEPT ![t] = [NoMoveJob EXCEPT !.todo = {TargetOf(i) : i \in chosen}]]
    BY <1>2
  <2>2. {TargetOf(i) : i \in chosen} \in SUBSET Target
    BY <1>1 DEF Eligible
  <2>3. [NoMoveJob EXCEPT !.todo = {TargetOf(i) : i \in chosen}] \in MoveJob
    BY <2>2, EmptyJobs DEF MoveJob
  <2>4. mv' \in [MoveTasks -> MoveJob]
    BY <2>1, <2>3 DEF TypeOK
  <2>5. pc' \in [Tasks -> {"idle"} \cup MovePcs \cup UndoPcs \cup RecPcs]
    BY <1>2, GotoType DEF Tasks, MovePcs
  <2> QED BY <1>2, <2>4, <2>5 DEF TypeOK, Scan, server, db
<1>3. CASE Forget(t)
  BY <1>3, ForgetType DEF Scan, TypeOK, server, db, Tasks
<1> QED BY <1>2, <1>3 DEF Scan

LEMMA MoveAcquireType ==
    ASSUME TypeOK, NEW t \in MoveTasks, MoveAcquire(t)
    PROVE  TypeOK'
<1>1. CASE busy' = busy \cup {ProcOf[t]} /\ Goto(t, "m_connect") /\ UNCHANGED <<mv, rs, rc>>
  <2>1. pc' \in [Tasks -> {"idle"} \cup MovePcs \cup UndoPcs \cup RecPcs]
    BY <1>1, GotoType DEF Tasks, MovePcs
  <2>2. ProcOf[t] \in Procs
    BY MailboxAssumption DEF MailboxAssumption, Tasks
  <2> QED BY <1>1, <2>1, <2>2 DEF MoveAcquire, TypeOK, server, db
<1>2. CASE Forget(t) /\ busy' = busy
  BY <1>2, ForgetType DEF MoveAcquire, TypeOK, server, db, Tasks
<1> QED BY <1>1, <1>2 DEF MoveAcquire

\* A request that ends keeps every variable it may touch well-typed.
LEMMA LeaveType ==
    ASSUME TypeOK, NEW t \in Tasks, Leave(t)
    PROVE  /\ busy' \subseteq Procs
           /\ pc' \in [Tasks -> {"idle"} \cup MovePcs \cup UndoPcs \cup RecPcs]
           /\ mv' \in [MoveTasks -> MoveJob]
           /\ rs' \in [UndoTasks -> UndoJob]
           /\ rc' \in [RecTasks -> RecJob]
BY ForgetType DEF Leave, TypeOK

LEMMA MoveConnectType ==
    ASSUME TypeOK, NEW t \in MoveTasks, MoveConnect(t)
    PROVE  TypeOK'
<1>1. CASE mv' = [mv EXCEPT ![t].val = validity["INBOX"]] /\ Goto(t, "m_fetch") /\ UNCHANGED <<busy, rs, rc>>
  <2>1. pc' \in [Tasks -> {"idle"} \cup MovePcs \cup UndoPcs \cup RecPcs]
    BY <1>1, GotoType DEF Tasks, MovePcs
  <2>2. mv' \in [MoveTasks -> MoveJob]
    <3>1. mv[t] \in MoveJob /\ validity["INBOX"] \in Nat
      BY DEF TypeOK, Folders
    <3>2. [mv[t] EXCEPT !.val = validity["INBOX"]] \in MoveJob
      BY <3>1, MoveJobUpdates
    <3> QED BY <1>1, <3>2 DEF TypeOK
  <2> QED BY <1>1, <2>1, <2>2 DEF MoveConnect, TypeOK, server, db
<1>2. CASE Leave(t)
  BY <1>2, LeaveType DEF MoveConnect, TypeOK, server, db, Tasks
<1> QED BY <1>1, <1>2 DEF MoveConnect

\* The next chunk starts from an empty job that keeps the rest of the targets.
LEMMA NextChunkType ==
    ASSUME TypeOK, NEW t \in MoveTasks, NEW j \in MoveJob, NextChunk(t, j)
    PROVE  /\ busy' \subseteq Procs
           /\ pc' \in [Tasks -> {"idle"} \cup MovePcs \cup UndoPcs \cup RecPcs]
           /\ mv' \in [MoveTasks -> MoveJob]
           /\ rs' \in [UndoTasks -> UndoJob]
           /\ rc' \in [RecTasks -> RecJob]
<1>1. CASE Leave(t)
  BY <1>1, LeaveType DEF Tasks
<1>2. CASE /\ Goto(t, "m_fetch")
           /\ mv' = [mv EXCEPT ![t] = [NoMoveJob EXCEPT !.todo = j.todo, !.val = j.val]]
           /\ UNCHANGED <<busy, rs, rc>>
  <2>1. pc' \in [Tasks -> {"idle"} \cup MovePcs \cup UndoPcs \cup RecPcs]
    BY <1>2, GotoType DEF Tasks, MovePcs
  <2>2. [NoMoveJob EXCEPT !.todo = j.todo, !.val = j.val] \in MoveJob
    BY EmptyJobs DEF MoveJob
  <2>3. mv' \in [MoveTasks -> MoveJob]
    BY <1>2, <2>2 DEF TypeOK
  <2> QED BY <1>2, <2>1, <2>3 DEF TypeOK
<1> QED BY <1>1, <1>2 DEF NextChunk

LEMMA MoveFetchType ==
    ASSUME TypeOK, NEW t \in MoveTasks, MoveFetch(t)
    PROVE  TypeOK'
<1>1. CASE \E b \in SUBSET mv[t].todo :
            /\ LET ok == {x \in b : Confirmed(x, mv[t].val)}
               IN mv' = [mv EXCEPT ![t].todo = @ \ b,
                                   ![t].batch = {WithMid(x) : x \in ok},
                                   ![t].skip = {x.raw : x \in b \ ok}]
            /\ Goto(t, "m_history") /\ UNCHANGED <<busy, rs, rc>>
  <2>1. PICK b \in SUBSET mv[t].todo :
            LET ok == {x \in b : Confirmed(x, mv[t].val)}
            IN mv' = [mv EXCEPT ![t].todo = @ \ b,
                                ![t].batch = {WithMid(x) : x \in ok},
                                ![t].skip = {x.raw : x \in b \ ok}]
    BY <1>1
  <2> DEFINE ok == {x \in b : Confirmed(x, mv[t].val)}
             batch == {WithMid(x) : x \in ok}
             skip == {x.raw : x \in b \ ok}
             todo == mv[t].todo \ b
  <2>2. mv[t] \in MoveJob /\ b \in SUBSET Target /\ todo \in SUBSET Target
    BY DEF TypeOK, MoveJob
  <2>3. \A x \in ok : WithMid(x) \in Target
    <3> SUFFICES ASSUME NEW x \in ok PROVE WithMid(x) \in Target
      OBVIOUS
    <3>1. x \in Target /\ Present("INBOX", x.uid)
      BY <2>2 DEF Confirmed
    <3>2. EnvelopeMid("INBOX", x.uid) \in MessageIds
      BY <3>1, EnvelopeType
    <3>3. \A y \in MessageIds : [x EXCEPT !.mid = y] \in Target
      BY <3>1 DEF Target
    <3>4. x.mid \in MessageIds
      BY <3>1 DEF Target
    <3> QED BY <3>2, <3>3, <3>4 DEF WithMid
  <2>4. batch \in SUBSET Target
    BY <2>3
  <2>5. skip \in SUBSET RawIds
    BY <2>2 DEF Target
  <2>6. mv' = [mv EXCEPT ![t].todo = todo, ![t].batch = batch, ![t].skip = skip]
    BY <2>1
  <2> HIDE DEF batch, skip, todo, ok
  <2>7. [mv[t] EXCEPT !.todo = todo, !.batch = batch, !.skip = skip] \in MoveJob
    BY <2>2, <2>4, <2>5, MoveJobUpdates
  <2>8. mv' \in [MoveTasks -> MoveJob]
    BY <2>6, <2>7 DEF TypeOK
  <2>9. pc' \in [Tasks -> {"idle"} \cup MovePcs \cup UndoPcs \cup RecPcs]
    BY <1>1, GotoType DEF Tasks, MovePcs
  <2> QED BY <1>1, <2>8, <2>9 DEF MoveFetch, TypeOK, server, db
<1>2. CASE Leave(t)
  BY <1>2, LeaveType DEF MoveFetch, TypeOK, server, db, Tasks
<1> QED BY <1>1, <1>2 DEF MoveFetch

LEMMA MoveHistoryType ==
    ASSUME TypeOK, NEW t \in MoveTasks, MoveHistory(t)
    PROVE  TypeOK'
<1> DEFINE j == mv[t]
           free == {x \in j.batch : ~ActiveMoveOf(x.raw, x.uid, j.val)}
           again == {x \in free : PreviouslyTrashed(x)}
           rest == free \ again
<1>1. j \in MoveJob
  BY DEF TypeOK
<1>2. rest \in SUBSET Target /\ again \in SUBSET Target /\ j.skip \in SUBSET RawIds
  BY <1>1 DEF MoveJob
<1>3. {x.raw : x \in again} \subseteq RawIds
  BY <1>2 DEF Target
<1>4. skipped' \subseteq RawIds
  <2>1. skipped' = skipped \cup j.skip \cup {x.raw : x \in again} \/ skipped' = skipped
    BY DEF MoveHistory
  <2> QED BY <2>1, <1>2, <1>3 DEF TypeOK
<1>5. CASE NextChunk(t, j)
  BY <1>1, <1>4, <1>5, NextChunkType DEF MoveHistory, TypeOK, server
<1>6. CASE /\ mv' = [mv EXCEPT ![t].batch = rest, ![t].skip = {}]
           /\ Goto(t, "m_insert") /\ UNCHANGED <<busy, rs, rc>>
  <2> HIDE DEF rest
  <2>1. [mv[t] EXCEPT !.batch = rest, !.skip = {}] \in MoveJob
    BY <1>1, <1>2, MoveJobUpdates
  <2>2. mv' \in [MoveTasks -> MoveJob]
    BY <1>6, <2>1 DEF TypeOK
  <2>3. pc' \in [Tasks -> {"idle"} \cup MovePcs \cup UndoPcs \cup RecPcs]
    BY <1>6, GotoType DEF Tasks, MovePcs
  <2> QED BY <1>4, <1>6, <2>2, <2>3 DEF MoveHistory, TypeOK, server
<1>7. CASE Leave(t)
  BY <1>4, <1>7, LeaveType DEF MoveHistory, TypeOK, server, Tasks
<1> QED BY <1>5, <1>6, <1>7 DEF MoveHistory

\* The row that an insert fills in is a row.
LEMMA NewMoveRowType ==
    ASSUME NEW x \in Target, NEW v \in Nat
    PROVE  [FreeRow EXCEPT !.status = "pending", !.raw = x.raw,
                !.srcUid = x.uid, !.srcVal = v, !.mid = x.mid] \in Row
<1>1. x.raw \in RawIds /\ x.uid \in Nat /\ x.mid \in MessageIds
  BY DEF Target
<1> QED BY <1>1, EmptyJobs DEF Row, Status

LEMMA MoveInsertType ==
    ASSUME TypeOK, NEW t \in MoveTasks, MoveInsert(t)
    PROVE  TypeOK'
<1>1. mv[t] \in MoveJob
  BY DEF TypeOK
<1>2. PICK x \in mv[t].batch :
         LET left == mv[t].batch \ {x} IN
         \/ /\ ~ActiveMoveOf(x.raw, x.uid, mv[t].val)
            /\ \E r \in RowIds :
                 /\ NextRow(r)
                 /\ rows' = [rows EXCEPT ![r] = [FreeRow EXCEPT !.status = "pending", !.raw = x.raw,
                        !.srcUid = x.uid, !.srcVal = mv[t].val, !.mid = x.mid]]
                 /\ mv' = [mv EXCEPT ![t].batch = left, ![t].held = @ \cup {r}]
            /\ Goto(t, IF left = {} THEN "m_send" ELSE "m_insert")
            /\ UNCHANGED <<busy, rs, rc>>
         \/ /\ ActiveMoveOf(x.raw, x.uid, mv[t].val) /\ UNCHANGED rows
            /\ IF left = {} /\ mv[t].held = {} THEN NextChunk(t, mv[t])
               ELSE /\ mv' = [mv EXCEPT ![t].batch = left]
                    /\ Goto(t, IF left = {} THEN "m_send" ELSE "m_insert")
                    /\ UNCHANGED <<busy, rs, rc>>
  BY DEF MoveInsert
<1> DEFINE left == mv[t].batch \ {x}
<1>3. x \in Target /\ left \in SUBSET Target /\ mv[t].val \in Nat /\ mv[t].held \in SUBSET RowIds
  BY <1>1 DEF MoveJob
<1>4. Goto(t, IF left = {} THEN "m_send" ELSE "m_insert")
         => pc' \in [Tasks -> {"idle"} \cup MovePcs \cup UndoPcs \cup RecPcs]
  BY GotoType DEF Tasks, MovePcs
<1>5. ASSUME NEW r \in RowIds,
             rows' = [rows EXCEPT ![r] = [FreeRow EXCEPT !.status = "pending", !.raw = x.raw,
                        !.srcUid = x.uid, !.srcVal = mv[t].val, !.mid = x.mid]],
             mv' = [mv EXCEPT ![t].batch = left, ![t].held = @ \cup {r}],
             Goto(t, IF left = {} THEN "m_send" ELSE "m_insert"),
             UNCHANGED <<busy, rs, rc>>
      PROVE  TypeOK'
  <2>1. rows' \in [RowIds -> Row]
    BY <1>3, <1>5, NewMoveRowType DEF TypeOK
  <2> DEFINE held == mv[t].held \cup {r}
  <2>2. held \in SUBSET RowIds /\ mv' = [mv EXCEPT ![t].batch = left, ![t].held = held]
    BY <1>3, <1>5
  <2> HIDE DEF held, left
  <2>3. [mv[t] EXCEPT !.batch = left, !.held = held] \in MoveJob
    BY <1>1, <1>3, <2>2, MoveJobUpdates
  <2>4. mv' \in [MoveTasks -> MoveJob]
    BY <2>2, <2>3 DEF TypeOK
  <2> QED BY <1>4, <1>5, <2>1, <2>4 DEF MoveInsert, TypeOK, server
<1>6. CASE UNCHANGED rows /\ NextChunk(t, mv[t])
  BY <1>1, <1>6, NextChunkType DEF MoveInsert, TypeOK, server
<1>7. CASE /\ UNCHANGED rows
           /\ mv' = [mv EXCEPT ![t].batch = left]
           /\ Goto(t, IF left = {} THEN "m_send" ELSE "m_insert")
           /\ UNCHANGED <<busy, rs, rc>>
  <2> HIDE DEF left
  <2>1. [mv[t] EXCEPT !.batch = left] \in MoveJob
    BY <1>1, <1>3, MoveJobUpdates
  <2>2. mv' \in [MoveTasks -> MoveJob]
    BY <1>7, <2>1 DEF TypeOK
  <2> QED BY <1>4, <1>7, <2>2 DEF MoveInsert, TypeOK, server
<1> QED BY <1>2, <1>5, <1>6, <1>7

LEMMA MoveInsertFailsType ==
    ASSUME TypeOK, NEW t \in MoveTasks, MoveInsertFails(t)
    PROVE  TypeOK'
<1>1. \A r \in RowIds : rows[r] \in Row /\ [rows[r] EXCEPT !.status = "failed"] \in Row
  BY RowUpdates DEF TypeOK, Status
<1>2. rows' \in [RowIds -> Row]
  BY <1>1 DEF MoveInsertFails, TypeOK
<1>3. Leave(t)
  BY DEF MoveInsertFails
<1> QED BY <1>2, <1>3, LeaveType DEF MoveInsertFails, TypeOK, server, Tasks

LEMMA MoveSendType ==
    ASSUME TypeOK, NEW t \in MoveTasks, MoveSend(t)
    PROVE  TypeOK'
<1>1. mv[t] \in MoveJob /\ mv[t].held \in SUBSET RowIds /\ validity["Trash"] \in Nat
  BY DEF TypeOK, MoveJob, Folders
<1>2. PICK moved \in SUBSET Named(mv[t].held, "INBOX"), answer \in Answer \ {"none"} :
         /\ UidMove(mv[t].held, "INBOX", "Trash", moved, answer)
         /\ mv' = [mv EXCEPT ![t].answer = answer, ![t].destVal = validity["Trash"],
                ![t].dest = [r \in RowIds |-> CopyUid(r, mv[t].held, "Trash", moved, answer)]]
  BY DEF MoveSend
<1>3. moved \in SUBSET Msgs /\ answer \in Answer
  BY DEF Named
<1> DEFINE dest == [r \in RowIds |-> CopyUid(r, mv[t].held, "Trash", moved, answer)]
<1>4. dest \in [RowIds -> Nat]
  BY <1>3, CopyUidType DEF Folders
<1> HIDE DEF dest
<1>5. [mv[t] EXCEPT !.answer = answer, !.destVal = validity["Trash"], !.dest = dest] \in MoveJob
  BY <1>1, <1>3, <1>4, MoveJobUpdates
<1>6. mv' \in [MoveTasks -> MoveJob]
  BY <1>2, <1>5 DEF TypeOK, dest
<1>7. /\ box' \in [Msgs -> Folders \cup {"none", "gone"}]
      /\ uid' \in [Msgs -> Nat]
      /\ nextUid' \in [Folders -> Nat] /\ validity' \in [Folders -> Nat]
      /\ rows' \in [RowIds -> Row]
  BY <1>1, <1>2, <1>3, UidMoveType DEF Folders
<1>8. pc' \in [Tasks -> {"idle"} \cup MovePcs \cup UndoPcs \cup RecPcs]
  BY GotoType DEF MoveSend, Tasks, MovePcs
<1> QED BY <1>6, <1>7, <1>8 DEF MoveSend, TypeOK

LEMMA MoveJudgeType ==
    ASSUME TypeOK, NEW t \in MoveTasks, MoveJudge(t)
    PROVE  TypeOK'
<1> DEFINE Outcomes == [RowIds -> {"succeeded", "failed", "unknown"}]
<1>1. \A r \in RowIds : Outcome(mv[t], r) \in {"succeeded", "failed", "unknown"}
  BY DEF Outcome
<1>2. PICK o \in Outcomes : mv' = [mv EXCEPT ![t].out = o]
  <2>1. [r \in RowIds |-> Outcome(mv[t], r)] \in Outcomes
    BY <1>1
  <2>2. [r \in RowIds |-> "unknown"] \in Outcomes
    OBVIOUS
  <2> QED BY <2>1, <2>2 DEF MoveJudge
<1>3. mv[t] \in MoveJob
  BY DEF TypeOK
<1>4. [mv[t] EXCEPT !.out = o] \in MoveJob
  BY <1>2, <1>3, MoveJobUpdates
<1>5. mv' \in [MoveTasks -> MoveJob]
  BY <1>2, <1>4 DEF TypeOK
<1>6. pc' \in [Tasks -> {"idle"} \cup MovePcs \cup UndoPcs \cup RecPcs]
  BY GotoType DEF MoveJudge, Tasks, MovePcs
<1> QED BY <1>5, <1>6 DEF MoveJudge, TypeOK, server, db

LEMMA MoveRecordType ==
    ASSUME TypeOK, NEW t \in MoveTasks, MoveRecord(t)
    PROVE  TypeOK'
<1> DEFINE j == mv[t]
           After(r) == IF r \notin j.held THEN rows[r]
                       ELSE IF j.out[r] = "succeeded"
                       THEN [rows[r] EXCEPT !.status = "succeeded", !.destUid = j.dest[r],
                                !.destVal = IF j.dest[r] # 0 THEN j.destVal ELSE 0]
                       ELSE [rows[r] EXCEPT !.status = j.out[r]]
<1>1. j \in MoveJob
  BY DEF TypeOK
<1>2. \A r \in RowIds : After(r) \in Row
  <2> SUFFICES ASSUME NEW r \in RowIds PROVE After(r) \in Row
    OBVIOUS
  <2>1. j.dest[r] \in Nat /\ j.destVal \in Nat /\ j.out[r] \in Status
    BY <1>1 DEF MoveJob, Status
  <2>2. (IF j.dest[r] # 0 THEN j.destVal ELSE 0) \in Nat
    BY <2>1
  <2>3. rows[r] \in Row /\ "succeeded" \in Status
    BY DEF TypeOK, Status
  <2> HIDE DEF j
  <2> QED BY <2>1, <2>2, <2>3, RowUpdates
<1>3. rows' \in [RowIds -> Row]
  <2>1. rows' = [r \in RowIds |-> After(r)] \/ rows' = rows
    BY DEF MoveRecord
  <2> QED BY <2>1, <1>2 DEF TypeOK
<1>4. CASE Leave(t)
  BY <1>3, <1>4, LeaveType DEF MoveRecord, TypeOK, server, Tasks
<1>5. CASE NextChunk(t, j)
  BY <1>1, <1>3, <1>5, NextChunkType DEF MoveRecord, TypeOK, server
<1> QED BY <1>4, <1>5 DEF MoveRecord

\* Updates of an undo job that keep it one.
LEMMA UndoJobUpdates ==
    ASSUME NEW j \in UndoJob
    PROVE  /\ \A o \in Nat, u \in Nat, v \in Nat :
                 [j EXCEPT !.orig = o, !.destUid = u, !.destVal = v] \in UndoJob
           /\ \A u \in Nat, v \in Nat : [j EXCEPT !.uid = u, !.val = v] \in UndoJob
           /\ \A r \in Nat : [j EXCEPT !.row = r] \in UndoJob
           /\ \A a \in Answer, u \in Nat, v \in Nat :
                 [j EXCEPT !.answer = a, !.gotVal = v, !.got = u] \in UndoJob
           /\ \A u \in Nat, v \in Nat : [j EXCEPT !.got = u, !.gotVal = v] \in UndoJob
BY DEF UndoJob

\* The UIDs that a search by Message-ID returns.
LEMMA HitsType ==
    ASSUME TypeOK, NEW f, NEW mid
    PROVE  Hits(f, mid) \in SUBSET Nat
BY DEF Hits, TypeOK

LEMMA UndoStartType ==
    ASSUME TypeOK, NEW t \in UndoTasks, UndoStart(t)
    PROVE  TypeOK'
<1>1. PICK o \in RowIds :
        rs' = [rs EXCEPT ![t] = [NoUndoJob EXCEPT !.orig = o,
                  !.destUid = rows[o].destUid, !.destVal = rows[o].destVal]]
  BY DEF UndoStart
<1>2. o \in Nat /\ rows[o].destUid \in Nat /\ rows[o].destVal \in Nat
  BY DEF RowIds, TypeOK, Row
<1>3. [NoUndoJob EXCEPT !.orig = o, !.destUid = rows[o].destUid, !.destVal = rows[o].destVal] \in UndoJob
  BY <1>2, EmptyJobs, UndoJobUpdates
<1>4. rs' \in [UndoTasks -> UndoJob]
  BY <1>1, <1>3 DEF TypeOK
<1>5. pc' \in [Tasks -> {"idle"} \cup MovePcs \cup UndoPcs \cup RecPcs]
  BY GotoType DEF UndoStart, Tasks, UndoPcs
<1>6. ProcOf[t] \in Procs
  BY MailboxAssumption DEF MailboxAssumption, Tasks
<1> QED BY <1>4, <1>5, <1>6 DEF UndoStart, TypeOK, server, db

LEMMA UndoClaimType ==
    ASSUME TypeOK, NEW t \in UndoTasks, UndoClaim(t)
    PROVE  TypeOK'
<1> DEFINE o == rs[t].orig
<1>1. CASE /\ rows' = [rows EXCEPT ![o].status = "pending"]
           /\ Goto(t, "u_locate") /\ UNCHANGED <<busy, mv, rs, rc>>
  <2>1. \A r \in RowIds : rows[r] \in Row /\ [rows[r] EXCEPT !.status = "pending"] \in Row
    BY RowUpdates DEF TypeOK, Status
  <2>2. rows' \in [RowIds -> Row]
    BY <1>1, <2>1 DEF TypeOK
  <2>3. pc' \in [Tasks -> {"idle"} \cup MovePcs \cup UndoPcs \cup RecPcs]
    BY <1>1, GotoType DEF Tasks, UndoPcs
  <2> QED BY <1>1, <2>2, <2>3 DEF UndoClaim, TypeOK, server
<1>2. CASE Leave(t) /\ UNCHANGED rows
  BY <1>2, LeaveType DEF UndoClaim, TypeOK, server, Tasks
<1> QED BY <1>1, <1>2 DEF UndoClaim

LEMMA UndoLocateType ==
    ASSUME TypeOK, NEW t \in UndoTasks, UndoLocate(t)
    PROVE  TypeOK'
<1>1. pc' \in [Tasks -> {"idle"} \cup MovePcs \cup UndoPcs \cup RecPcs]
  BY GotoType DEF UndoLocate, Tasks, UndoPcs
<1>2. rs' \in [UndoTasks -> UndoJob]
  <2>1. CASE UNCHANGED rs
    BY <2>1 DEF TypeOK
  <2>2. CASE \E u \in {rs[t].destUid} \cup Hits("Trash", rows[rs[t].orig].mid) :
               rs' = [rs EXCEPT ![t].uid = u, ![t].val = validity["Trash"]]
    <3>1. rs[t] \in UndoJob /\ rs[t].destUid \in Nat /\ validity["Trash"] \in Nat
      BY DEF TypeOK, UndoJob, Folders
    <3>2. PICK u \in {rs[t].destUid} \cup Hits("Trash", rows[rs[t].orig].mid) :
               rs' = [rs EXCEPT ![t].uid = u, ![t].val = validity["Trash"]]
      BY <2>2
    <3>3. u \in Nat
      BY <3>1, HitsType
    <3>4. [rs[t] EXCEPT !.uid = u, !.val = validity["Trash"]] \in UndoJob
      BY <3>1, <3>3, UndoJobUpdates
    <3> QED BY <3>2, <3>4 DEF TypeOK
  <2> QED BY <2>1, <2>2 DEF UndoLocate
<1> QED BY <1>1, <1>2 DEF UndoLocate, TypeOK, server, db

LEMMA UndoInsertType ==
    ASSUME TypeOK, NEW t \in UndoTasks, rs[t].orig \in RowIds, UndoInsert(t)
    PROVE  TypeOK'
<1>1. pc' \in [Tasks -> {"idle"} \cup MovePcs \cup UndoPcs \cup RecPcs]
  BY GotoType DEF UndoInsert, Tasks, UndoPcs
<1>2. CASE UNCHANGED <<rows, rs>>
  BY <1>1, <1>2 DEF UndoInsert, TypeOK, server
<1>3. ASSUME NEW r \in RowIds,
             rows' = [rows EXCEPT ![r] = [FreeRow EXCEPT !.action = "restore",
                        !.status = "pending", !.raw = rows[rs[t].orig].raw, !.srcUid = rs[t].uid,
                        !.srcVal = rs[t].val, !.mid = rows[rs[t].orig].mid, !.undoOf = rs[t].orig]],
             rs' = [rs EXCEPT ![t].row = r]
      PROVE  TypeOK'
  <2>1. rows[rs[t].orig].raw \in RawIds \cup {None} /\ rows[rs[t].orig].mid \in MessageIds
    BY <1>3 DEF TypeOK, Row
  <2>2. rs[t] \in UndoJob /\ rs[t].uid \in Nat /\ rs[t].val \in Nat /\ rs[t].orig \in Nat
    BY DEF TypeOK, UndoJob
  <2>3. [FreeRow EXCEPT !.action = "restore",
                        !.status = "pending", !.raw = rows[rs[t].orig].raw, !.srcUid = rs[t].uid,
                        !.srcVal = rs[t].val, !.mid = rows[rs[t].orig].mid, !.undoOf = rs[t].orig] \in Row
    BY <2>1, <2>2, EmptyJobs DEF Row, Status
  <2>4. rows' \in [RowIds -> Row]
    BY <1>3, <2>3 DEF TypeOK
  <2>5. [rs[t] EXCEPT !.row = r] \in UndoJob
    <3>1. r \in Nat
      BY DEF RowIds
    <3> QED BY <2>2, <3>1, UndoJobUpdates
  <2>6. rs' \in [UndoTasks -> UndoJob]
    BY <1>3, <2>5 DEF TypeOK
  <2> QED BY <1>1, <2>4, <2>6 DEF UndoInsert, TypeOK, server
<1> QED BY <1>2, <1>3 DEF UndoInsert

LEMMA UndoSendType ==
    ASSUME TypeOK, NEW t \in UndoTasks, UndoSend(t)
    PROVE  TypeOK'
<1>1. rs[t] \in UndoJob /\ validity["INBOX"] \in Nat
  BY DEF TypeOK, Folders
<1>2. PICK moved \in SUBSET Named({rs[t].row}, "Trash"), answer \in Answer \ {"none"} :
         /\ UidMove({rs[t].row}, "Trash", "INBOX", moved, answer)
         /\ rs' = [rs EXCEPT ![t].answer = answer, ![t].gotVal = validity["INBOX"],
                ![t].got = CopyUid(rs[t].row, {rs[t].row}, "INBOX", moved, answer)]
  BY DEF UndoSend
<1>3. moved \in SUBSET Msgs /\ answer \in Answer
  BY DEF Named
<1> DEFINE got == CopyUid(rs[t].row, {rs[t].row}, "INBOX", moved, answer)
<1>4. got \in Nat
  BY <1>3, CopyUidType DEF Folders
<1> HIDE DEF got
<1>5. [rs[t] EXCEPT !.answer = answer, !.gotVal = validity["INBOX"], !.got = got] \in UndoJob
  BY <1>1, <1>3, <1>4, UndoJobUpdates
<1>6. rs' \in [UndoTasks -> UndoJob]
  BY <1>2, <1>5 DEF TypeOK, got
<1>7. /\ box' \in [Msgs -> Folders \cup {"none", "gone"}]
      /\ uid' \in [Msgs -> Nat]
      /\ nextUid' \in [Folders -> Nat] /\ validity' \in [Folders -> Nat]
      /\ rows' \in [RowIds -> Row]
  BY <1>2, <1>3, UidMoveType DEF Folders
<1>8. pc' \in [Tasks -> {"idle"} \cup MovePcs \cup UndoPcs \cup RecPcs]
  BY GotoType DEF UndoSend, Tasks, UndoPcs
<1> QED BY <1>6, <1>7, <1>8 DEF UndoSend, TypeOK

LEMMA UndoJudgeType ==
    ASSUME TypeOK, NEW t \in UndoTasks, UndoJudge(t)
    PROVE  TypeOK'
<1> DEFINE j == rs[t]
<1>1. j \in UndoJob /\ validity["INBOX"] \in Nat
  BY DEF TypeOK, Folders
<1>2. rows' \in [RowIds -> Row]
  <2>1. \A r \in RowIds : /\ rows[r] \in Row
                          /\ [rows[r] EXCEPT !.status = "unknown"] \in Row
                          /\ [rows[r] EXCEPT !.status = "failed", !.undoOf = 0] \in Row
    BY RowUpdates DEF TypeOK, Status
  <2>2. \/ rows' = rows
        \/ rows' = [rows EXCEPT ![j.row].status = "unknown"]
        \/ rows' = [rows EXCEPT ![j.row].status = "failed", ![j.row].undoOf = 0]
    BY DEF UndoJudge
  <2> HIDE DEF j
  <2>3. CASE rows' = [rows EXCEPT ![j.row].status = "unknown"]
    BY <2>1, <2>3 DEF TypeOK
  <2>4. CASE rows' = [rows EXCEPT ![j.row].status = "failed", ![j.row].undoOf = 0]
    BY <2>1, <2>4 DEF TypeOK
  <2> QED BY <2>2, <2>3, <2>4 DEF TypeOK
<1>3. CASE Leave(t)
  BY <1>2, <1>3, LeaveType DEF UndoJudge, TypeOK, server, Tasks
<1>4. CASE (Goto(t, "u_release") \/ Goto(t, "u_record")) /\ UNCHANGED <<busy, mv, rs, rc>>
  <2>1. pc' \in [Tasks -> {"idle"} \cup MovePcs \cup UndoPcs \cup RecPcs]
    BY <1>4, GotoType DEF Tasks, UndoPcs
  <2> QED BY <1>2, <1>4, <2>1 DEF UndoJudge, TypeOK, server
<1>5. CASE /\ Goto(t, "u_record") /\ UNCHANGED <<busy, mv, rc>>
           /\ \E u \in {0} \cup Hits("INBOX", rows[j.row].mid) :
                 rs' = [rs EXCEPT ![t].got = u, ![t].gotVal = validity["INBOX"]]
  <2>1. pc' \in [Tasks -> {"idle"} \cup MovePcs \cup UndoPcs \cup RecPcs]
    BY <1>5, GotoType DEF Tasks, UndoPcs
  <2>2. PICK u \in Nat : rs' = [rs EXCEPT ![t].got = u, ![t].gotVal = validity["INBOX"]]
    BY <1>5, HitsType
  <2>3. [rs[t] EXCEPT !.got = u, !.gotVal = validity["INBOX"]] \in UndoJob
    BY <1>1, <2>2, UndoJobUpdates
  <2>4. rs' \in [UndoTasks -> UndoJob]
    BY <2>2, <2>3 DEF TypeOK
  <2> QED BY <1>2, <1>5, <2>1, <2>4 DEF UndoJudge, TypeOK, server
<1> QED BY <1>3, <1>4, <1>5 DEF UndoJudge

LEMMA UndoRecordType ==
    ASSUME TypeOK, NEW t \in UndoTasks, UndoRecord(t)
    PROVE  TypeOK'
<1> DEFINE j == rs[t]
           val == IF j.got = 0 THEN 0 ELSE j.gotVal
           done == [rows EXCEPT ![j.row].status = "succeeded", ![j.row].destUid = j.got,
                                ![j.row].destVal = val]
<1>1. j.got \in Nat /\ val \in Nat
  BY DEF TypeOK, UndoJob
<1>2. CASE /\ rows' = [rows EXCEPT ![j.row].status = "succeeded", ![j.row].destUid = j.got,
                                   ![j.row].destVal = val, ![j.orig].status = "undone"]
           /\ Goto(t, "u_relink") /\ UNCHANGED <<busy, mv, rs, rc>>
  <2>1. \A r \in RowIds : /\ rows[r] \in Row
                          /\ [rows[r] EXCEPT !.status = "succeeded", !.destUid = j.got, !.destVal = val] \in Row
    BY <1>1, RowUpdates DEF TypeOK, Status
  <2> HIDE DEF j, val
  <2>2. done \in [RowIds -> Row]
    BY <2>1 DEF TypeOK
  <2>3. rows' = [done EXCEPT ![j.orig].status = "undone"]
    BY <1>2
  <2>4. \A r \in RowIds : [done[r] EXCEPT !.status = "undone"] \in Row
    BY <2>2, RowUpdates DEF Status
  <2> HIDE DEF done
  <2>5. rows' \in [RowIds -> Row]
    BY <2>2, <2>3, <2>4
  <2>6. pc' \in [Tasks -> {"idle"} \cup MovePcs \cup UndoPcs \cup RecPcs]
    BY <1>2, GotoType DEF Tasks, UndoPcs
  <2> QED BY <1>2, <2>5, <2>6 DEF UndoRecord, TypeOK, server
<1>3. CASE UNCHANGED rows /\ Leave(t)
  BY <1>3, LeaveType DEF UndoRecord, TypeOK, server, Tasks
<1> QED BY <1>2, <1>3 DEF UndoRecord

LEMMA UndoRelinkType ==
    ASSUME TypeOK, NEW t \in UndoTasks, rs[t].orig \in RowIds, UndoRelink(t)
    PROVE  TypeOK'
<1>1. /\ rows[rs[t].orig].raw \in RawIds \cup {None}
      /\ rs[t].got \in Nat /\ rs[t].gotVal \in Nat
  <2>1. rows[rs[t].orig].raw \in RawIds \cup {None}
    BY DEF TypeOK, Row
  <2>2. rs[t].got \in Nat /\ rs[t].gotVal \in Nat
    BY DEF TypeOK, UndoJob
  <2> QED BY <2>1, <2>2
<1>2. raws' \in [RawIds -> Raw]
  <2>1. CASE raws' = Relinked(rows[rs[t].orig].raw, rs[t].got, rs[t].gotVal)
    <3>1. raws \in [RawIds -> Raw]
      BY DEF TypeOK
    <3>2. Relinked(rows[rs[t].orig].raw, rs[t].got, rs[t].gotVal) \in [RawIds -> Raw]
      BY <1>1, <3>1, RelinkedType
    <3> QED BY <2>1, <3>2
  <2>2. CASE UNCHANGED raws
    BY <2>2 DEF TypeOK
  <2> QED BY <2>1, <2>2 DEF UndoRelink
<1> QED BY <1>2, LeaveType DEF UndoRelink, TypeOK, server, Tasks

LEMMA UndoReleaseType ==
    ASSUME TypeOK, NEW t \in UndoTasks, UndoRelease(t)
    PROVE  TypeOK'
<1>1. \A r \in RowIds : rows[r] \in Row /\ [rows[r] EXCEPT !.status = "succeeded"] \in Row
  BY RowUpdates DEF TypeOK, Status
<1>2. CASE rows' = [rows EXCEPT ![rs[t].orig].status = IF @ = "pending" THEN "succeeded" ELSE @]
  <2> DEFINE o == rs[t].orig
  <2>1. CASE rows[o].status = "pending"
    <3>1. rows' = [rows EXCEPT ![o].status = "succeeded"]
      BY <1>2, <2>1
    <3>2. rows' \in [RowIds -> Row]
      BY <1>1, <3>1 DEF TypeOK
    <3> QED BY <3>2, LeaveType DEF UndoRelease, TypeOK, server, Tasks
  <2>2. CASE rows[o].status # "pending"
    <3>1. \A r \in RowIds : rows[r].status \in Status
      BY DEF TypeOK, Row
    <3>2. \A r \in RowIds : [rows[r] EXCEPT !.status = rows[r].status] \in Row
      BY <1>1, <3>1, RowUpdates
    <3>3. rows' = [rows EXCEPT ![o].status = rows[o].status]
      BY <1>2, <2>2
    <3>4. rows' \in [RowIds -> Row]
      BY <1>1, <3>2, <3>3 DEF TypeOK
    <3> QED BY <3>4, LeaveType DEF UndoRelease, TypeOK, server, Tasks
  <2> QED BY <2>1, <2>2
<1>3. CASE UNCHANGED rows
  BY <1>3, LeaveType DEF UndoRelease, TypeOK, server, Tasks
<1> QED BY <1>2, <1>3 DEF UndoRelease

\* Updates of a reconcile job that keep it one.
LEMMA RecJobUpdates ==
    ASSUME NEW j \in RecJob
    PROVE  /\ \A a \in SUBSET RowIds, s \in [RowIds -> Row] :
                 [j EXCEPT !.todo = a, !.snap = s] \in RecJob
           /\ \A a \in SUBSET RowIds, r \in Nat, p \in Probe, c \in BOOLEAN,
                 v \in {"none", "stayed", "arrived"}, u \in Nat, w \in Nat :
                 [j EXCEPT !.todo = a, !.cur = r, !.source = p, !.claimed = c,
                           !.verdict = v, !.uid = u, !.val = w] \in RecJob
           /\ \A v \in {"none", "stayed", "arrived"}, u \in Nat, w \in Nat :
                 [j EXCEPT !.verdict = v, !.uid = u, !.val = w] \in RecJob
BY DEF RecJob

LEMMA ProbeType ==
    ASSUME TypeOK, NEW f \in Folders, NEW u, NEW val, NEW mid
    PROVE  ProbeOf(f, u, val, mid) \in Probe
<1>1. validity[f] \in Nat /\ Hits(f, mid) \in SUBSET Nat
  BY HitsType DEF TypeOK
<1> QED BY <1>1 DEF ProbeOf, Probe

LEMMA NextStuckType ==
    ASSUME TypeOK, NEW t \in RecTasks, NextStuck(t)
    PROVE  /\ pc' \in [Tasks -> {"idle"} \cup MovePcs \cup UndoPcs \cup RecPcs]
           /\ mv' \in [MoveTasks -> MoveJob]
           /\ rs' \in [UndoTasks -> UndoJob]
           /\ rc' \in [RecTasks -> RecJob]
<1>1. pc' \in [Tasks -> {"idle"} \cup MovePcs \cup UndoPcs \cup RecPcs]
  BY GotoType DEF NextStuck, Tasks, RecPcs
<1>2. rc[t] \in RecJob
  BY DEF TypeOK
<1>3. rc[t].todo \in SUBSET RowIds /\ rc[t].snap \in [RowIds -> Row]
  BY <1>2 DEF RecJob
<1>4. [NoRecJob EXCEPT !.todo = rc[t].todo, !.snap = rc[t].snap] \in RecJob
  BY <1>3, EmptyJobs, RecJobUpdates
<1>5. rc' \in [RecTasks -> RecJob]
  BY <1>4 DEF NextStuck, TypeOK
<1> QED BY <1>1, <1>5 DEF NextStuck, TypeOK

LEMMA RecStartType ==
    ASSUME TypeOK, NEW t \in RecTasks, RecStart(t)
    PROVE  TypeOK'
<1> DEFINE stuck == {r \in RowIds : Stuck(r)}
           claimed == {rows[r].undoOf : r \in {q \in stuck : rows[q].action = "restore"}}
           todo == {r \in stuck : rows[r].action = "restore" \/ r \notin claimed}
<1>1. todo \in SUBSET RowIds /\ rows \in [RowIds -> Row] /\ rc[t] \in RecJob
  BY DEF TypeOK
<1>2. rc' = [rc EXCEPT ![t].todo = todo, ![t].snap = rows]
  BY DEF RecStart
<1> HIDE DEF todo
<1>3. [rc[t] EXCEPT !.todo = todo, !.snap = rows] \in RecJob
  BY <1>1, RecJobUpdates
<1>4. rc' \in [RecTasks -> RecJob]
  BY <1>2, <1>3 DEF TypeOK
<1>5. pc' \in [Tasks -> {"idle"} \cup MovePcs \cup UndoPcs \cup RecPcs]
  BY GotoType DEF RecStart, Tasks, RecPcs
<1> QED BY <1>4, <1>5 DEF RecStart, TypeOK, server, db

LEMMA RecSourceType ==
    ASSUME TypeOK, NEW t \in RecTasks, RecSource(t)
    PROVE  TypeOK'
<1> DEFINE j == rc[t]
<1>1. CASE Forget(t)
  BY <1>1, ForgetType DEF RecSource, TypeOK, server, db, Tasks
<1>2. ASSUME NEW r \in RowIds, NEW claimed \in BOOLEAN, NEW source,
             source = ProbeOf(SourceOf(j.snap[r]), j.snap[r].srcUid, j.snap[r].srcVal, j.snap[r].mid),
             rc' = [rc EXCEPT ![t].todo = @ \ {r}, ![t].cur = r, ![t].source = source,
                    ![t].claimed = claimed,
                    ![t].verdict = IF source.present = "yes" THEN "stayed" ELSE "none",
                    ![t].uid = IF source.present = "yes" THEN j.snap[r].srcUid ELSE 0,
                    ![t].val = source.val],
             Goto(t, IF source.present = "yes" THEN "r_write" ELSE "r_dest"),
             UNCHANGED <<mv, rs>>
      PROVE  TypeOK'
  <2> DEFINE todo == j.todo \ {r}
             verdict == IF source.present = "yes" THEN "stayed" ELSE "none"
             u == IF source.present = "yes" THEN j.snap[r].srcUid ELSE 0
  <2>1. j \in RecJob
    BY DEF TypeOK
  <2>2. todo \in SUBSET RowIds /\ j.snap[r] \in Row
    BY <2>1 DEF RecJob
  <2>3. source \in Probe
    BY <1>2, ProbeType DEF SourceOf, Folders
  <2>4. source.val \in Nat /\ r \in Nat /\ u \in Nat /\ verdict \in {"none", "stayed", "arrived"}
    BY <2>2, <2>3 DEF Probe, Row, RowIds
  <2>5. rc' = [rc EXCEPT ![t].todo = todo, ![t].cur = r, ![t].source = source,
                    ![t].claimed = claimed, ![t].verdict = verdict, ![t].uid = u, ![t].val = source.val]
    BY <1>2
  <2> HIDE DEF todo, verdict, u
  <2>6. [rc[t] EXCEPT !.todo = todo, !.cur = r, !.source = source,
                    !.claimed = claimed, !.verdict = verdict, !.uid = u, !.val = source.val] \in RecJob
    BY <2>1, <2>2, <2>3, <2>4, <1>2 DEF RecJob
  <2>7. rc' \in [RecTasks -> RecJob]
    BY <2>5, <2>6 DEF TypeOK
  <2>8. pc' \in [Tasks -> {"idle"} \cup MovePcs \cup UndoPcs \cup RecPcs]
    BY <1>2, GotoType DEF Tasks, RecPcs
  <2> QED BY <1>2, <2>7, <2>8 DEF RecSource, TypeOK, server, db
<1>3. ASSUME NEW r \in RowIds,
             LET row == j.snap[r]
                 source == ProbeOf(SourceOf(row), row.srcUid, row.srcVal, row.mid)
                 stays == source.present = "yes"
             IN /\ rc' = [rc EXCEPT ![t].todo = @ \ {r}, ![t].cur = r, ![t].source = source,
                    ![t].claimed = row.undoOf # 0 /\ rows[row.undoOf].status = "pending",
                    ![t].verdict = IF stays THEN "stayed" ELSE "none",
                    ![t].uid = IF stays THEN row.srcUid ELSE 0,
                    ![t].val = source.val]
                /\ Goto(t, IF stays THEN "r_write" ELSE "r_dest") /\ UNCHANGED <<mv, rs>>
      PROVE  TypeOK'
  <2> DEFINE source == ProbeOf(SourceOf(j.snap[r]), j.snap[r].srcUid, j.snap[r].srcVal, j.snap[r].mid)
             claimed == j.snap[r].undoOf # 0 /\ rows[j.snap[r].undoOf].status = "pending"
  <2>1. /\ rc' = [rc EXCEPT ![t].todo = @ \ {r}, ![t].cur = r, ![t].source = source,
                    ![t].claimed = claimed,
                    ![t].verdict = IF source.present = "yes" THEN "stayed" ELSE "none",
                    ![t].uid = IF source.present = "yes" THEN j.snap[r].srcUid ELSE 0,
                    ![t].val = source.val]
        /\ Goto(t, IF source.present = "yes" THEN "r_write" ELSE "r_dest")
        /\ UNCHANGED <<mv, rs>>
    BY <1>3
  <2>2. claimed \in BOOLEAN
    OBVIOUS
  <2>3. source = ProbeOf(SourceOf(j.snap[r]), j.snap[r].srcUid, j.snap[r].srcVal, j.snap[r].mid)
    OBVIOUS
  <2> HIDE DEF source, claimed
  <2> QED BY <1>2, <2>1, <2>2, <2>3
<1> QED BY <1>1, <1>3 DEF RecSource

\* What the rules of reconcile conclude is well-typed.
LEMMA VerdictType ==
    ASSUME NEW S \in Probe, NEW D \in Probe, NEW row \in Row
    PROVE  LET v == Verdict(S, D, row)
           IN v[1] \in {"none", "stayed", "arrived"} /\ v[2] \in Nat /\ v[3] \in Nat
<1>1. row.destUid \in Nat /\ S.val \in Nat /\ D.val \in Nat
      /\ S.hits \in SUBSET Nat /\ D.hits \in SUBSET Nat
  BY DEF Row, Probe
<1>2. ASSUME NEW H \in SUBSET Nat, Cardinality(H) = 1
      PROVE  (CHOOSE u \in H : TRUE) \in Nat
  <2>1. H # {}
    BY <1>2, FS_EmptySet
  <2> QED BY <2>1
<1>3. CASE D.present = "yes"
  BY <1>1, <1>3 DEF Verdict
<1>4. CASE D.present # "yes" /\ S.hits = {} /\ Cardinality(D.hits) = 1
  <2> DEFINE u == CHOOSE u \in D.hits : TRUE
  <2>1. u \in Nat
    BY <1>1, <1>2, <1>4
  <2>2. D.hits # {}
    BY <1>4, FS_EmptySet
  <2>3. Verdict(S, D, row) = <<"arrived", u, D.val>>
    BY <1>4, <2>2 DEF Verdict
  <2> HIDE DEF u
  <2> QED BY <1>1, <2>1, <2>3
<1>5. CASE D.present # "yes" /\ D.hits = {} /\ Cardinality(S.hits) = 1 /\ S.present = "na"
  <2> DEFINE u == CHOOSE u \in S.hits : TRUE
  <2>1. u \in Nat
    BY <1>1, <1>2, <1>5
  <2>2. S.hits # {}
    BY <1>5, FS_EmptySet
  <2>3. Verdict(S, D, row) = <<"stayed", u, S.val>>
    BY <1>5, <2>2 DEF Verdict
  <2> HIDE DEF u
  <2> QED BY <1>1, <2>1, <2>3
<1>6. CASE ~(D.present = "yes")
           /\ ~(D.present # "yes" /\ S.hits = {} /\ Cardinality(D.hits) = 1)
           /\ ~(D.present # "yes" /\ D.hits = {} /\ Cardinality(S.hits) = 1 /\ S.present = "na")
  <2>1. Verdict(S, D, row) = <<"none", 0, 0>>
    BY <1>6 DEF Verdict
  <2> QED BY <2>1
<1> QED BY <1>3, <1>4, <1>5, <1>6

LEMMA RecDestType ==
    ASSUME TypeOK, NEW t \in RecTasks, rc[t].cur \in RowIds, RecDest(t)
    PROVE  TypeOK'
<1> DEFINE j == rc[t]
           row == j.snap[j.cur]
           dest == ProbeOf(DestOf(row), row.destUid, row.destVal, row.mid)
           v == Verdict(j.source, dest, row)
<1>1. CASE Forget(t)
  BY <1>1, ForgetType DEF RecDest, TypeOK, server, db, Tasks
<1>2. CASE NextStuck(t)
  BY <1>2, NextStuckType DEF RecDest, TypeOK, server, db
<1>3. CASE /\ rc' = [rc EXCEPT ![t].verdict = v[1], ![t].uid = v[2], ![t].val = v[3]]
           /\ Goto(t, "r_write") /\ UNCHANGED <<mv, rs>>
  <2>1. j \in RecJob
    BY DEF TypeOK
  <2>2. row \in Row /\ j.source \in Probe
    BY <2>1 DEF RecJob
  <2>3. dest \in Probe
    BY ProbeType DEF DestOf, Folders
  <2> HIDE DEF dest, row
  <2>4. v[1] \in {"none", "stayed", "arrived"} /\ v[2] \in Nat /\ v[3] \in Nat
    BY <2>2, <2>3, VerdictType
  <2> HIDE DEF v
  <2>5. [rc[t] EXCEPT !.verdict = v[1], !.uid = v[2], !.val = v[3]] \in RecJob
    BY <2>1, <2>4, RecJobUpdates
  <2>6. rc' \in [RecTasks -> RecJob]
    BY <1>3, <2>5 DEF TypeOK
  <2>7. pc' \in [Tasks -> {"idle"} \cup MovePcs \cup UndoPcs \cup RecPcs]
    BY <1>3, GotoType DEF Tasks, RecPcs
  <2> QED BY <1>3, <2>6, <2>7 DEF RecDest, TypeOK, server, db
<1> QED BY <1>1, <1>2, <1>3 DEF RecDest

\* The conditional updates of reconcile keep rows well-typed.
LEMMA SettledType ==
    ASSUME TypeOK, NEW j \in RecJob, NEW r \in RowIds
    PROVE  Settled(j, r) \in Row
<1>1. rows[r] \in Row /\ j.uid \in Nat /\ j.val \in Nat
      /\ {"failed", "succeeded", "undone"} \subseteq Status
  BY DEF TypeOK, RecJob, Status
<1>2. MoveRowAfter(j, rows[r]) \in Row
  BY <1>1, RowUpdates DEF MoveRowAfter
<1>3. RestoreRowAfter(j, rows[r]) \in Row
  BY <1>1, RowUpdates DEF RestoreRowAfter
<1>4. OriginalAfter(j, rows[r]) \in Row
  BY <1>1, RowUpdates DEF OriginalAfter
<1> QED BY <1>1, <1>2, <1>3, <1>4 DEF Settled

LEMMA RecWriteType ==
    ASSUME TypeOK, NEW t \in RecTasks, rc[t].cur \in RowIds, RecWrite(t)
    PROVE  TypeOK'
<1> DEFINE j == rc[t]
           was == j.snap[j.cur]
<1>1. j \in RecJob
  BY DEF TypeOK
<1>2. \A r \in RowIds : Settled(j, r) \in Row
  BY <1>1, SettledType
<1>3. rows' \in [RowIds -> Row]
  <2>1. rows' = [r \in RowIds |-> Settled(j, r)] \/ rows' = rows
    BY DEF RecWrite
  <2> QED BY <2>1, <1>2 DEF TypeOK
<1>4. raws' \in [RawIds -> Raw]
  <2>1. was.raw \in RawIds \cup {None} /\ j.uid \in Nat /\ j.val \in Nat
    BY <1>1 DEF RecJob, Row
  <2>2. raws \in [RawIds -> Raw]
    BY DEF TypeOK
  <2>3. Relinked(was.raw, j.uid, j.val) \in [RawIds -> Raw]
    BY <2>1, <2>2, RelinkedType
  <2>4. raws' = Relinked(was.raw, j.uid, j.val) \/ raws' = raws
    BY DEF RecWrite
  <2> QED BY <2>2, <2>3, <2>4
<1>5. CASE NextStuck(t)
  BY <1>3, <1>4, <1>5, NextStuckType DEF RecWrite, TypeOK, server
<1>6. CASE Forget(t)
  BY <1>3, <1>4, <1>6, ForgetType DEF RecWrite, TypeOK, server, Tasks
<1> QED BY <1>5, <1>6 DEF RecWrite

LEMMA IngestType ==
    ASSUME TypeOK, NEW m \in Msgs, NEW i \in RawIds, Ingest(m, i)
    PROVE  TypeOK'
<1>1. PICK val \in {validity["INBOX"]} \cup (IF "legacy" \in Faults THEN {0} ELSE {}) :
         raws' = [raws EXCEPT ![i] = [msg |-> m, uid |-> uid[m], val |-> val]]
  BY DEF Ingest
<1>2. val \in Nat /\ uid[m] \in Nat
  BY DEF TypeOK, Folders
<1>3. raws' \in [RawIds -> Raw]
  BY <1>1, <1>2 DEF TypeOK, Raw
<1> QED BY <1>3 DEF Ingest, TypeOK, server, jobs

\* Deliveries and what the user does in a mail client.
LEMMA MailType ==
    ASSUME TypeOK, NEW m \in Msgs, Deliver(m) \/ HandMove(m) \/ Purge(m)
    PROVE  TypeOK'
<1>1. CASE \E f \in Folders : Arrive(m, f)
  BY <1>1 DEF Arrive, TypeOK, db, jobs
<1>2. CASE Purge(m)
  BY <1>2 DEF Purge, TypeOK, db, jobs
<1> QED BY <1>1, <1>2 DEF Deliver, HandMove, Folders

LEMMA ResetValidityType ==
    ASSUME TypeOK, NEW f \in Folders, ResetValidity(f)
    PROVE  TypeOK'
<1> DEFINE here == {m \in Msgs : box[m] = f}
<1>1. here \in SUBSET Msgs /\ Cardinality(here) \in Nat
  BY MailboxAssumption, FS_Subset, FS_CardinalityType DEF MailboxAssumption
<1>2. uid' \in [Msgs -> Nat]
  BY <1>1, RenumberedType DEF ResetValidity, TypeOK
<1> HIDE DEF here
<1>3. nextUid' \in [Folders -> Nat] /\ validity' \in [Folders -> Nat]
  BY <1>1 DEF ResetValidity, TypeOK, here
<1> QED BY <1>2, <1>3 DEF ResetValidity, TypeOK, db, jobs

LEMMA AgeType ==
    ASSUME TypeOK, Age
    PROVE  TypeOK'
<1>1. \A r \in RowIds : rows[r] \in Row /\ [rows[r] EXCEPT !.old = TRUE] \in Row
  BY RowUpdates DEF TypeOK
<1>2. rows' \in [RowIds -> Row]
  BY <1>1 DEF Age, TypeOK
<1> QED BY <1>2 DEF Age, TypeOK, server, jobs

LEMMA CrashType ==
    ASSUME TypeOK, NEW p \in Procs, Crash(p)
    PROVE  TypeOK'
<1>1. pc' \in [Tasks -> {"idle"} \cup MovePcs \cup UndoPcs \cup RecPcs]
  BY DEF Crash, TypeOK
<1>2. /\ mv' \in [MoveTasks -> MoveJob]
      /\ rs' \in [UndoTasks -> UndoJob]
      /\ rc' \in [RecTasks -> RecJob]
  BY EmptyJobs DEF Crash, TypeOK
<1> QED BY <1>1, <1>2 DEF Crash, TypeOK, server, db

----------------------------------------------------------------------------
(* The inductive invariant.  A move row is pending either because a running*)
(* apply holds it (wrote it and has not recorded its outcome), or because  *)
(* an undo has claimed it, or because its job is gone.  The invariant says *)
(* that these owners are never confused, so that no status update touches  *)
(* a row that another job has still to settle.                             *)

\* A move row that no running apply holds.
NotHeld(o) ==
    /\ o \in RowIds /\ rows[o].status # "free" /\ rows[o].action = "move"
    /\ \A t \in MoveTasks : o \notin mv[t].held

\* The rows an apply holds are as it wrote them.
HeldFresh == \A t \in MoveTasks : \A r \in mv[t].held :
    rows[r].action = "move" /\ rows[r].status = "pending" /\ ~rows[r].old

\* No row is held by two of them.
HeldApart == \A s, t \in MoveTasks : s # t => mv[s].held \cap mv[t].held = {}

\* What a restore row undoes is a move row that no apply holds.
OriginalsFree == \A r \in RowIds : rows[r].undoOf # 0 => NotHeld(rows[r].undoOf)

\* So is what a running undo is about; and its own row is a restore row.
UndoInv == \A t \in UndoTasks : pc[t] \in UndoPcs =>
    /\ NotHeld(rs[t].orig)
    /\ pc[t] \in {"u_send", "u_judge", "u_record"} =>
         rs[t].row \in RowIds /\ rows[rs[t].row].status # "free" /\ rows[rs[t].row].action = "restore"

\* The rows a running reconcile has still to write are old, and it knows
\* their kind and what they undo.
RecOf(t) == rc[t].todo \cup (IF pc[t] = "r_source" THEN {} ELSE {rc[t].cur})
RecInv == \A t \in RecTasks : pc[t] \in RecPcs => \A r \in RecOf(t) :
    /\ r \in RowIds /\ rows[r].old /\ rows[r].status # "free"
    /\ rows[r].action = rc[t].snap[r].action
    /\ rc[t].snap[r].status \in {"pending", "unknown"}
    /\ rc[t].snap[r].undoOf # 0 => NotHeld(rc[t].snap[r].undoOf)

IInv ==
    /\ TypeOK /\ OneActiveMove
    /\ HeldFresh /\ HeldApart /\ OriginalsFree /\ UndoInv /\ RecInv

----------------------------------------------------------------------------
(* Steady steps: almost every step keeps what the invariant speaks of.     *)

\* No apply gets a row, no undo another original or row, no reconcile a row.
JobsKept ==
    /\ \A t \in MoveTasks : mv'[t].held \subseteq mv[t].held
    /\ \A t \in UndoTasks : pc'[t] \in UndoPcs =>
         /\ pc[t] \in UndoPcs /\ rs'[t].orig = rs[t].orig
         /\ pc'[t] \in {"u_send", "u_judge", "u_record"} =>
              pc[t] \in {"u_send", "u_judge", "u_record"} /\ rs'[t].row = rs[t].row
    /\ \A t \in RecTasks : pc'[t] \in RecPcs =>
         /\ pc[t] \in RecPcs /\ rc'[t].snap = rc[t].snap
         /\ RecOf(t)' \subseteq RecOf(t)

\* No row is freed, changes its kind, becomes young, is linked or activated.
RowKept(r) ==
    /\ rows[r].status # "free" =>
         /\ rows'[r].status # "free" /\ rows'[r].action = rows[r].action
         /\ rows[r].old => rows'[r].old
    /\ rows'[r].undoOf \in {rows[r].undoOf, 0}
    /\ rows'[r].action = "move" /\ rows'[r].status \in {"pending", "succeeded", "unknown"} =>
         /\ Active(r) /\ rows'[r].raw = rows[r].raw
         /\ rows'[r].srcUid = rows[r].srcUid /\ rows'[r].srcVal = rows[r].srcVal

\* The rows still held are untouched.
HeldKept == \A t \in MoveTasks : \A r \in mv'[t].held :
    rows'[r].action = rows[r].action /\ rows'[r].status = rows[r].status /\ rows'[r].old = rows[r].old

Steady == JobsKept /\ (\A r \in RowIds : RowKept(r)) /\ HeldKept

\* A row that no apply holds stays such a row unless an apply takes it.
LEMMA NotHeldKept ==
    ASSUME NEW o, NotHeld(o), rows'[o].status # "free", rows'[o].action = rows[o].action,
           \A t \in MoveTasks : o \notin mv'[t].held
    PROVE  NotHeld(o)'
BY DEF NotHeld

\* A steady step keeps the invariant.
LEMMA SteadyKeeps ==
    ASSUME IInv, TypeOK', Steady
    PROVE  IInv'
<1>1. \A o : NotHeld(o) => NotHeld(o)'
  <2> SUFFICES ASSUME NEW o, NotHeld(o) PROVE NotHeld(o)'
    OBVIOUS
  <2>1. o \in RowIds /\ rows[o].status # "free" /\ \A t \in MoveTasks : o \notin mv'[t].held
    BY DEF NotHeld, Steady, JobsKept
  <2>2. rows'[o].status # "free" /\ rows'[o].action = rows[o].action
    BY <2>1 DEF Steady, RowKept
  <2> QED BY <2>1, <2>2, NotHeldKept
<1>2. OneActiveMove'
  <2> SUFFICES ASSUME NEW r \in RowIds, NEW q \in RowIds, r # q, Active(r)', Active(q)'
               PROVE  /\ rows'[r].raw # rows'[q].raw
                      /\ <<rows'[r].srcUid, rows'[r].srcVal>> # <<rows'[q].srcUid, rows'[q].srcVal>>
    BY DEF OneActiveMove
  <2>1. RowKept(r) /\ RowKept(q)
    BY DEF Steady
  <2>2. /\ rows[r].raw # rows[q].raw
        /\ <<rows[r].srcUid, rows[r].srcVal>> # <<rows[q].srcUid, rows[q].srcVal>>
    BY <2>1 DEF RowKept, Active, IInv, OneActiveMove
  <2> QED BY <2>1, <2>2 DEF RowKept, Active
<1>3. HeldFresh'
  <2> SUFFICES ASSUME NEW t \in MoveTasks, NEW r \in mv'[t].held
               PROVE  rows'[r].action = "move" /\ rows'[r].status = "pending" /\ ~rows'[r].old
    BY DEF HeldFresh
  <2>1. r \in mv[t].held
    BY DEF Steady, JobsKept
  <2>2. rows[r].action = "move" /\ rows[r].status = "pending" /\ ~rows[r].old
    BY <2>1 DEF IInv, HeldFresh
  <2> QED BY <2>2 DEF Steady, HeldKept
<1>4. HeldApart'
  BY DEF Steady, JobsKept, IInv, HeldApart
<1>5. OriginalsFree'
  <2> SUFFICES ASSUME NEW r \in RowIds, rows'[r].undoOf # 0
               PROVE  NotHeld(rows[r].undoOf)'
    BY DEF OriginalsFree, NotHeld
  <2>1. rows'[r].undoOf = rows[r].undoOf
    BY DEF Steady, RowKept
  <2>2. NotHeld(rows[r].undoOf)
    BY <2>1 DEF IInv, OriginalsFree
  <2>3. PICK o : o = rows[r].undoOf
    OBVIOUS
  <2>4. NotHeld(o)'
    BY <1>1, <2>2, <2>3
  <2> QED BY <2>1, <2>3, <2>4 DEF NotHeld
<1>6. UndoInv'
  <2> SUFFICES ASSUME NEW t \in UndoTasks, pc'[t] \in UndoPcs
               PROVE  /\ NotHeld(rs[t].orig)'
                      /\ pc'[t] \in {"u_send", "u_judge", "u_record"} =>
                           /\ rs'[t].row \in RowIds /\ rows'[rs'[t].row].status # "free"
                           /\ rows'[rs'[t].row].action = "restore"
    BY DEF UndoInv, NotHeld
  <2>1. pc[t] \in UndoPcs /\ rs'[t].orig = rs[t].orig
    BY DEF Steady, JobsKept
  <2>2. PICK o : o = rs[t].orig
    OBVIOUS
  <2>3. NotHeld(o)
    BY <2>1, <2>2 DEF IInv, UndoInv
  <2>4. NotHeld(o)'
    BY <1>1, <2>3
  <2>5. NotHeld(rs[t].orig)'
    BY <2>1, <2>2, <2>4 DEF NotHeld
  <2>6. ASSUME pc'[t] \in {"u_send", "u_judge", "u_record"}
        PROVE  /\ rs'[t].row \in RowIds /\ rows'[rs'[t].row].status # "free"
               /\ rows'[rs'[t].row].action = "restore"
    <3>1. pc[t] \in {"u_send", "u_judge", "u_record"} /\ rs'[t].row = rs[t].row
      BY <2>6 DEF Steady, JobsKept
    <3>2. rs[t].row \in RowIds /\ rows[rs[t].row].status # "free" /\ rows[rs[t].row].action = "restore"
      BY <2>1, <3>1 DEF IInv, UndoInv
    <3>3. RowKept(rs[t].row)
      BY <3>2 DEF Steady
    <3> QED BY <3>1, <3>2, <3>3 DEF RowKept
  <2> QED BY <2>5, <2>6
<1>7. RecInv'
  <2> SUFFICES ASSUME NEW t \in RecTasks, pc'[t] \in RecPcs, NEW r \in RecOf(t)'
               PROVE  /\ r \in RowIds /\ rows'[r].old /\ rows'[r].status # "free"
                      /\ rows'[r].action = rc'[t].snap[r].action
                      /\ rc'[t].snap[r].status \in {"pending", "unknown"}
                      /\ rc'[t].snap[r].undoOf # 0 => NotHeld(rc[t].snap[r].undoOf)'
    BY DEF RecInv, NotHeld
  <2>1. pc[t] \in RecPcs /\ rc'[t].snap = rc[t].snap /\ r \in RecOf(t)
    BY DEF Steady, JobsKept
  <2>2. /\ r \in RowIds /\ rows[r].old /\ rows[r].status # "free"
        /\ rows[r].action = rc[t].snap[r].action
        /\ rc[t].snap[r].status \in {"pending", "unknown"}
        /\ rc[t].snap[r].undoOf # 0 => NotHeld(rc[t].snap[r].undoOf)
    BY <2>1 DEF IInv, RecInv
  <2>3. RowKept(r)
    BY <2>2 DEF Steady
  <2>4. PICK o : o = rc[t].snap[r].undoOf
    OBVIOUS
  <2>5. ASSUME o # 0 PROVE NotHeld(o)'
    BY <1>1, <2>2, <2>4, <2>5
  <2>6. rc'[t].snap[r].undoOf # 0 => NotHeld(rc[t].snap[r].undoOf)'
    BY <2>1, <2>4, <2>5 DEF NotHeld
  <2> QED BY <2>1, <2>2, <2>3, <2>6 DEF RowKept
<1> QED BY <1>2, <1>3, <1>4, <1>5, <1>6, <1>7 DEF IInv

----------------------------------------------------------------------------
(* The steps of apply.                                                     *)

\* A step of one apply touches neither undos nor reconciles.
LEMMA MoveJobsKept ==
    ASSUME TypeOK, NEW t \in MoveTasks, rs' = rs, rc' = rc,
           \A q \in Tasks : q # t => pc'[q] = pc[q],
           \A q \in MoveTasks : mv'[q].held \subseteq mv[q].held
    PROVE  JobsKept
<1>1. \A q \in UndoTasks \cup RecTasks : q # t /\ q \in Tasks
  BY MailboxAssumption DEF MailboxAssumption, Tasks
<1> QED BY <1>1 DEF JobsKept, RecOf

\* The end of an apply request: no rows held, nothing else changed.
LEMMA MoveForgetKept ==
    ASSUME TypeOK, NEW t \in MoveTasks, Forget(t)
    PROVE  /\ JobsKept /\ mv'[t].held = {}
           /\ \A q \in MoveTasks : q # t => mv'[q] = mv[q]
<1>1. rs' = rs /\ rc' = rc
  <2>1. \A q \in UndoTasks \cup RecTasks : q # t
    BY MailboxAssumption DEF MailboxAssumption
  <2> QED BY <2>1 DEF Forget, TypeOK
<1>2. \A q \in Tasks : q # t => pc'[q] = pc[q]
  BY DEF Forget, TypeOK
<1>3. mv'[t].held = {} /\ \A q \in MoveTasks : q # t => mv'[q] = mv[q]
  BY DEF Forget, NoMoveJob
<1> QED BY <1>1, <1>2, <1>3, MoveJobsKept

\* So it is for the end of a chunk.
LEMMA NextChunkKept ==
    ASSUME TypeOK, NEW t \in MoveTasks, NEW j, NextChunk(t, j)
    PROVE  /\ JobsKept /\ mv'[t].held = {}
           /\ \A q \in MoveTasks : q # t => mv'[q] = mv[q]
<1>1. CASE Leave(t)
  BY <1>1, MoveForgetKept DEF Leave
<1>2. CASE /\ Goto(t, "m_fetch")
           /\ mv' = [mv EXCEPT ![t] = [NoMoveJob EXCEPT !.todo = j.todo, !.val = j.val]]
           /\ UNCHANGED <<busy, rs, rc>>
  <2>1. mv'[t].held = {} /\ \A q \in MoveTasks : q # t => mv'[q] = mv[q]
    BY <1>2 DEF TypeOK, NoMoveJob
  <2>2. \A q \in Tasks : q # t => pc'[q] = pc[q]
    BY <1>2 DEF Goto, TypeOK
  <2> QED BY <1>2, <2>1, <2>2, MoveJobsKept
<1> QED BY <1>1, <1>2 DEF NextChunk

\* A step that leaves the rows alone and takes none is steady.
LEMMA RowsUnchanged ==
    ASSUME TypeOK, rows' = rows, JobsKept
    PROVE  Steady
<1>1. \A r \in RowIds : RowKept(r)
  BY DEF RowKept, Active
<1>2. HeldKept
  BY DEF HeldKept
<1> QED BY <1>1, <1>2 DEF Steady

\* The steps of apply before its first audit row, and the judgement.
LEMMA MoveQuietSteps ==
    ASSUME TypeOK, NEW t \in MoveTasks,
           \/ ReadTrashed(t) \/ Scan(t) \/ MoveAcquire(t) \/ MoveConnect(t)
           \/ MoveFetch(t) \/ MoveHistory(t) \/ MoveJudge(t)
    PROVE  Steady
<1>1. rows' = rows
  BY DEF ReadTrashed, Scan, MoveAcquire, MoveConnect, MoveFetch, MoveHistory, MoveJudge, db
<1>2. mv[t] \in MoveJob /\ t \in Tasks
  BY DEF TypeOK, Tasks
<1>3. ASSUME rs' = rs, rc' = rc, NEW label, Goto(t, label),
             \A q \in MoveTasks : mv'[q].held \subseteq mv[q].held
      PROVE  JobsKept
  <2>1. \A q \in Tasks : q # t => pc'[q] = pc[q]
    BY <1>3 DEF Goto, TypeOK
  <2> QED BY <1>3, <2>1, MoveJobsKept
<1>4. CASE ReadTrashed(t)
  <2>1. \A q \in MoveTasks : mv'[q].held \subseteq mv[q].held
    BY <1>2, <1>4 DEF ReadTrashed, TypeOK, MoveJob
  <2> QED BY <1>1, <1>3, <1>4, <2>1, RowsUnchanged DEF ReadTrashed
<1>5. CASE Scan(t)
  <2>1. CASE Forget(t)
    BY <1>1, <2>1, MoveForgetKept, RowsUnchanged
  <2>2. CASE \E chosen \in (SUBSET Eligible(t)) \ {{}} :
            /\ mv' = [mv EXCEPT ![t] = [NoMoveJob EXCEPT !.todo = {TargetOf(i) : i \in chosen}]]
            /\ Goto(t, "m_acquire") /\ UNCHANGED <<rs, rc>>
    <3>1. \A q \in MoveTasks : mv'[q].held \subseteq mv[q].held
      BY <1>2, <2>2 DEF TypeOK, MoveJob, NoMoveJob
    <3> QED BY <1>1, <1>3, <2>2, <3>1, RowsUnchanged
  <2> QED BY <1>5, <2>1, <2>2 DEF Scan
<1>6. CASE MoveAcquire(t)
  <2>1. CASE Forget(t)
    BY <1>1, <2>1, MoveForgetKept, RowsUnchanged
  <2>2. CASE Goto(t, "m_connect") /\ UNCHANGED <<mv, rs, rc>>
    BY <1>1, <1>3, <2>2, RowsUnchanged
  <2> QED BY <1>6, <2>1, <2>2 DEF MoveAcquire
<1>7. CASE MoveConnect(t)
  <2>1. CASE Leave(t)
    BY <1>1, <2>1, MoveForgetKept, RowsUnchanged DEF Leave
  <2>2. CASE /\ mv' = [mv EXCEPT ![t].val = validity["INBOX"]]
             /\ Goto(t, "m_fetch") /\ UNCHANGED <<busy, rs, rc>>
    <3>1. \A q \in MoveTasks : mv'[q].held \subseteq mv[q].held
      BY <1>2, <2>2 DEF TypeOK, MoveJob
    <3> QED BY <1>1, <1>3, <2>2, <3>1, RowsUnchanged
  <2> QED BY <1>7, <2>1, <2>2 DEF MoveConnect
<1>8. CASE MoveFetch(t)
  <2>1. CASE Leave(t)
    BY <1>1, <2>1, MoveForgetKept, RowsUnchanged DEF Leave
  <2>2. CASE \E b, batch, skip :
            /\ mv' = [mv EXCEPT ![t].todo = @ \ b, ![t].batch = batch, ![t].skip = skip]
            /\ Goto(t, "m_history") /\ UNCHANGED <<busy, rs, rc>>
    <3>1. \A q \in MoveTasks : mv'[q].held \subseteq mv[q].held
      BY <1>2, <2>2 DEF TypeOK, MoveJob
    <3> QED BY <1>1, <1>3, <2>2, <3>1, RowsUnchanged
  <2> QED BY <1>8, <2>1, <2>2 DEF MoveFetch
<1>9. CASE MoveHistory(t)
  <2>1. CASE Leave(t)
    BY <1>1, <2>1, MoveForgetKept, RowsUnchanged DEF Leave
  <2>2. CASE NextChunk(t, mv[t])
    BY <1>1, <2>2, NextChunkKept, RowsUnchanged
  <2>3. CASE \E rest :
            /\ mv' = [mv EXCEPT ![t].batch = rest, ![t].skip = {}]
            /\ Goto(t, "m_insert") /\ UNCHANGED <<busy, rs, rc>>
    <3>1. \A q \in MoveTasks : mv'[q].held \subseteq mv[q].held
      BY <1>2, <2>3 DEF TypeOK, MoveJob
    <3> QED BY <1>1, <1>3, <2>3, <3>1, RowsUnchanged
  <2> QED BY <1>9, <2>1, <2>2, <2>3 DEF MoveHistory
<1>10. CASE MoveJudge(t)
  <2>1. PICK o : mv' = [mv EXCEPT ![t].out = o]
    BY <1>10 DEF MoveJudge
  <2>2. \A q \in MoveTasks : mv'[q].held \subseteq mv[q].held
    BY <1>2, <2>1 DEF TypeOK, MoveJob
  <2> QED BY <1>1, <1>3, <1>10, <2>2, RowsUnchanged DEF MoveJudge
<1> QED BY <1>4, <1>5, <1>6, <1>7, <1>8, <1>9, <1>10

\* The write-ahead insert: no row that is active has the RawEmail or the UID,
\* and the new row is held by this apply alone.
LEMMA MoveInsertInv ==
    ASSUME IInv, TypeOK', NEW t \in MoveTasks, MoveInsert(t)
    PROVE  IInv'
<1>0. TypeOK
  BY DEF IInv
<1>1. mv[t] \in MoveJob /\ t \in Tasks
  BY <1>0 DEF TypeOK, Tasks
<1>2. CASE rows' = rows /\ NextChunk(t, mv[t])
  BY <1>0, <1>2, NextChunkKept, RowsUnchanged, SteadyKeeps
<1>3. CASE /\ rows' = rows
           /\ \E left, label : mv' = [mv EXCEPT ![t].batch = left] /\ Goto(t, label)
           /\ UNCHANGED <<busy, rs, rc>>
  <2>1. \A q \in MoveTasks : mv'[q].held \subseteq mv[q].held
    BY <1>0, <1>1, <1>3 DEF TypeOK, MoveJob
  <2>2. \A q \in Tasks : q # t => pc'[q] = pc[q]
    BY <1>0, <1>3 DEF Goto, TypeOK
  <2> QED BY <1>0, <1>3, <2>1, <2>2, MoveJobsKept, RowsUnchanged, SteadyKeeps
<1>4. ASSUME NEW x \in mv[t].batch, NEW r \in RowIds, NEW left, NEW label,
             ~ActiveMoveOf(x.raw, x.uid, mv[t].val), NextRow(r),
             rows' = [rows EXCEPT ![r] = [FreeRow EXCEPT !.status = "pending", !.raw = x.raw,
                        !.srcUid = x.uid, !.srcVal = mv[t].val, !.mid = x.mid]],
             mv' = [mv EXCEPT ![t].batch = left, ![t].held = @ \cup {r}],
             Goto(t, label), UNCHANGED <<busy, rs, rc>>
      PROVE  IInv'
  <2> DEFINE new == [FreeRow EXCEPT !.status = "pending", !.raw = x.raw,
                        !.srcUid = x.uid, !.srcVal = mv[t].val, !.mid = x.mid]
  <2>1. rows'[r] = new /\ \A q \in RowIds : q # r => rows'[q] = rows[q]
    BY <1>0, <1>4 DEF TypeOK
  <2>2. /\ new.action = "move" /\ new.status = "pending" /\ new.raw = x.raw
        /\ new.srcUid = x.uid /\ new.srcVal = mv[t].val /\ new.undoOf = 0 /\ new.old = FALSE
    BY DEF FreeRow
  <2>3. rows[r].status = "free"
    BY <1>4 DEF NextRow
  <2>4. /\ mv'[t].held = mv[t].held \cup {r}
        /\ \A q \in MoveTasks : q # t => mv'[q].held = mv[q].held
    BY <1>0, <1>1, <1>4 DEF TypeOK, MoveJob
  <2>5. \A q \in Tasks : q # t => pc'[q] = pc[q]
    BY <1>0, <1>4 DEF Goto, TypeOK
  <2>6. \A q \in UndoTasks \cup RecTasks : pc'[q] = pc[q]
    BY <2>5, MailboxAssumption DEF MailboxAssumption, Tasks
  <2> HIDE DEF new
  <2>7. ASSUME NEW o, NotHeld(o) PROVE NotHeld(o)'
    BY <2>1, <2>3, <2>4, <2>7 DEF NotHeld
  <2>8. OneActiveMove'
    <3>1. ASSUME NEW q \in RowIds, q # r, Active(q)'
          PROVE  /\ rows'[q].raw # rows'[r].raw
                 /\ <<rows'[q].srcUid, rows'[q].srcVal>> # <<rows'[r].srcUid, rows'[r].srcVal>>
      <4>1. Active(q) /\ rows'[q] = rows[q]
        BY <2>1, <3>1 DEF Active
      <4>2. rows[q].raw # x.raw /\ ~(rows[q].srcUid = x.uid /\ rows[q].srcVal = mv[t].val)
        BY <1>4, <4>1 DEF ActiveMoveOf
      <4> QED BY <2>1, <2>2, <4>1, <4>2
    <3>2. ASSUME NEW p \in RowIds, NEW q \in RowIds, p # q, p # r, q # r, Active(p)', Active(q)'
          PROVE  /\ rows'[p].raw # rows'[q].raw
                 /\ <<rows'[p].srcUid, rows'[p].srcVal>> # <<rows'[q].srcUid, rows'[q].srcVal>>
      <4>1. Active(p) /\ Active(q) /\ rows'[p] = rows[p] /\ rows'[q] = rows[q]
        BY <2>1, <3>2 DEF Active
      <4> QED BY <3>2, <4>1 DEF IInv, OneActiveMove
    <3> SUFFICES ASSUME NEW p \in RowIds, NEW q \in RowIds, p # q, Active(p)', Active(q)'
                 PROVE  /\ rows'[p].raw # rows'[q].raw
                        /\ <<rows'[p].srcUid, rows'[p].srcVal>> # <<rows'[q].srcUid, rows'[q].srcVal>>
      BY DEF OneActiveMove
    <3>3. CASE p = r
      BY <3>1, <3>3
    <3>4. CASE q = r
      BY <3>1, <3>4
    <3>5. CASE p # r /\ q # r
      BY <3>2, <3>5
    <3> QED BY <3>3, <3>4, <3>5
  <2>9. HeldFresh'
    <3> SUFFICES ASSUME NEW q \in MoveTasks, NEW k \in mv'[q].held
                 PROVE  rows'[k].action = "move" /\ rows'[k].status = "pending" /\ ~rows'[k].old
      BY DEF HeldFresh
    <3>1. CASE k = r
      BY <2>1, <2>2, <3>1
    <3>2. CASE k # r
      <4>1. k \in mv[q].held
        BY <2>4, <3>2
      <4>2. k \in RowIds
        BY <1>0, <4>1 DEF TypeOK, MoveJob
      <4>3. rows[k].action = "move" /\ rows[k].status = "pending" /\ ~rows[k].old
        BY <4>1 DEF IInv, HeldFresh
      <4> QED BY <2>1, <3>2, <4>2, <4>3
    <3> QED BY <3>1, <3>2
  <2>10. HeldApart'
    <3>1. \A q \in MoveTasks : r \notin mv[q].held
      BY <2>3 DEF IInv, HeldFresh
    <3> QED BY <2>4, <3>1 DEF IInv, HeldApart
  <2>11. OriginalsFree'
    <3> SUFFICES ASSUME NEW q \in RowIds, rows'[q].undoOf # 0 PROVE NotHeld(rows[q].undoOf)'
      BY DEF OriginalsFree, NotHeld
    <3>1. q # r /\ rows'[q] = rows[q]
      BY <2>1, <2>2
    <3>2. PICK o : o = rows[q].undoOf
      OBVIOUS
    <3>3. NotHeld(o)'
      BY <2>7, <3>1, <3>2 DEF IInv, OriginalsFree
    <3> QED BY <3>1, <3>2, <3>3 DEF NotHeld
  <2>12. UndoInv'
    <3> SUFFICES ASSUME NEW q \in UndoTasks, pc'[q] \in UndoPcs
                 PROVE  /\ NotHeld(rs[q].orig)'
                        /\ pc'[q] \in {"u_send", "u_judge", "u_record"} =>
                             /\ rs'[q].row \in RowIds /\ rows'[rs'[q].row].status # "free"
                             /\ rows'[rs'[q].row].action = "restore"
      BY DEF UndoInv, NotHeld
    <3>1. pc[q] = pc'[q] /\ rs' = rs
      BY <1>4, <2>6
    <3>2. PICK o : o = rs[q].orig
      OBVIOUS
    <3>3. NotHeld(o)'
      BY <2>7, <3>1, <3>2 DEF IInv, UndoInv
    <3>4. NotHeld(rs[q].orig)'
      BY <3>1, <3>2, <3>3 DEF NotHeld
    <3>5. pc[q] \in {"u_send", "u_judge", "u_record"} =>
             rs[q].row \in RowIds /\ rows[rs[q].row].status # "free" /\ rows[rs[q].row].action = "restore"
      BY <3>1 DEF IInv, UndoInv
    <3> QED BY <2>1, <2>3, <3>1, <3>4, <3>5
  <2>13. RecInv'
    <3> SUFFICES ASSUME NEW q \in RecTasks, pc'[q] \in RecPcs, NEW k \in RecOf(q)'
                 PROVE  /\ k \in RowIds /\ rows'[k].old /\ rows'[k].status # "free"
                        /\ rows'[k].action = rc'[q].snap[k].action
                        /\ rc'[q].snap[k].status \in {"pending", "unknown"}
                        /\ rc'[q].snap[k].undoOf # 0 => NotHeld(rc[q].snap[k].undoOf)'
      BY DEF RecInv, NotHeld
    <3>1. pc[q] = pc'[q] /\ rc' = rc /\ k \in RecOf(q)
      BY <1>4, <2>6 DEF RecOf
    <3>2. /\ k \in RowIds /\ rows[k].old /\ rows[k].status # "free"
          /\ rows[k].action = rc[q].snap[k].action
          /\ rc[q].snap[k].status \in {"pending", "unknown"}
          /\ rc[q].snap[k].undoOf # 0 => NotHeld(rc[q].snap[k].undoOf)
      BY <3>1 DEF IInv, RecInv
    <3>3. k # r /\ rows'[k] = rows[k]
      BY <2>1, <2>3, <3>2
    <3>4. PICK o : o = rc[q].snap[k].undoOf
      OBVIOUS
    <3>5. ASSUME o # 0 PROVE NotHeld(o)'
      BY <2>7, <3>2, <3>4, <3>5
    <3>6. rc'[q].snap[k].undoOf # 0 => NotHeld(rc[q].snap[k].undoOf)'
      BY <3>1, <3>4, <3>5 DEF NotHeld
    <3> QED BY <3>1, <3>2, <3>3, <3>6
  <2> QED BY <2>8, <2>9, <2>10, <2>11, <2>12, <2>13 DEF IInv
<1> QED BY <1>2, <1>3, <1>4 DEF MoveInsert

\* Closing the held rows: they were active, no one else has them, and the
\* apply lets go of them in the same step.
LEMMA HeldRowsClosed ==
    ASSUME IInv, NEW t \in MoveTasks, JobsKept, mv'[t].held = {},
           \A q \in MoveTasks : q # t => mv'[q] = mv[q],
           \A r \in RowIds :
              \/ rows'[r] = rows[r]
              \/ /\ r \in mv[t].held /\ rows'[r].status # "free"
                 /\ rows'[r].action = rows[r].action /\ rows'[r].undoOf = rows[r].undoOf
                 /\ rows'[r].raw = rows[r].raw /\ rows'[r].srcUid = rows[r].srcUid
                 /\ rows'[r].srcVal = rows[r].srcVal /\ rows'[r].old = rows[r].old
    PROVE  Steady
<1>1. \A r \in mv[t].held : Active(r)
  BY DEF IInv, HeldFresh, Active
<1>2. \A r \in RowIds : RowKept(r)
  BY <1>1 DEF RowKept, Active
<1>3. HeldKept
  <2> SUFFICES ASSUME NEW q \in MoveTasks, NEW r \in mv'[q].held PROVE rows'[r] = rows[r]
    BY DEF HeldKept
  <2>1. q # t /\ r \in mv[q].held
    OBVIOUS
  <2>2. r \notin mv[t].held
    BY <2>1 DEF IInv, HeldApart
  <2>3. r \in RowIds
    BY <2>1 DEF IInv, TypeOK, MoveJob
  <2> QED BY <2>2, <2>3
<1> QED BY <1>2, <1>3 DEF Steady

LEMMA MoveInsertFailsSteady ==
    ASSUME IInv, NEW t \in MoveTasks, MoveInsertFails(t)
    PROVE  Steady
<1>1. /\ JobsKept /\ mv'[t].held = {}
      /\ \A q \in MoveTasks : q # t => mv'[q] = mv[q]
  BY MoveForgetKept DEF MoveInsertFails, Leave, IInv
<1>2. \A r \in RowIds : rows'[r] = rows[r] \/
        (r \in mv[t].held /\ rows'[r] = [rows[r] EXCEPT !.status = "failed"])
  BY DEF MoveInsertFails
<1>3. \A r \in RowIds : rows[r] \in Row
  BY DEF IInv, TypeOK
<1>4. \A r \in RowIds :
        \/ rows'[r] = rows[r]
        \/ /\ r \in mv[t].held /\ rows'[r].status # "free"
           /\ rows'[r].action = rows[r].action /\ rows'[r].undoOf = rows[r].undoOf
           /\ rows'[r].raw = rows[r].raw /\ rows'[r].srcUid = rows[r].srcUid
           /\ rows'[r].srcVal = rows[r].srcVal /\ rows'[r].old = rows[r].old
  BY <1>2, <1>3 DEF Row
<1> QED BY <1>1, <1>4, HeldRowsClosed

LEMMA MoveRecordSteady ==
    ASSUME IInv, NEW t \in MoveTasks, MoveRecord(t)
    PROVE  Steady
<1> DEFINE j == mv[t]
<1>1. /\ JobsKept /\ mv'[t].held = {}
      /\ \A q \in MoveTasks : q # t => mv'[q] = mv[q]
  BY MoveForgetKept, NextChunkKept DEF MoveRecord, Leave, IInv
<1>2. ASSUME NEW r \in RowIds, rows'[r] # rows[r]
      PROVE  /\ r \in j.held /\ rows'[r].status # "free"
             /\ rows'[r].action = rows[r].action /\ rows'[r].undoOf = rows[r].undoOf
             /\ rows'[r].raw = rows[r].raw /\ rows'[r].srcUid = rows[r].srcUid
             /\ rows'[r].srcVal = rows[r].srcVal /\ rows'[r].old = rows[r].old
  <2>1. rows' = [q \in RowIds |->
               IF q \notin j.held THEN rows[q]
               ELSE IF j.out[q] = "succeeded"
               THEN [rows[q] EXCEPT !.status = "succeeded", !.destUid = j.dest[q],
                        !.destVal = IF j.dest[q] # 0 THEN j.destVal ELSE 0]
               ELSE [rows[q] EXCEPT !.status = j.out[q]]]
    BY <1>2 DEF MoveRecord
  <2>2. r \in j.held
    BY <1>2, <2>1
  <2>3. j.out[r] \in {"succeeded", "failed", "unknown"} /\ rows[r] \in Row
    BY DEF IInv, TypeOK, MoveJob
  <2>4. \/ rows'[r] = [rows[r] EXCEPT !.status = j.out[r]]
        \/ rows'[r] = [rows[r] EXCEPT !.status = "succeeded", !.destUid = j.dest[r],
                        !.destVal = IF j.dest[r] # 0 THEN j.destVal ELSE 0]
    BY <2>1, <2>2
  <2> HIDE DEF j
  <2> QED BY <2>2, <2>3, <2>4 DEF Row
<1> QED BY <1>1, <1>2, HeldRowsClosed

\* The server's move only notes in the rows which message it was.
LEMMA UidMoveKeepsRows ==
    ASSUME TypeOK, NEW held, NEW from, NEW to, NEW moved \in SUBSET Msgs, NEW answer,
           UidMove(held, from, to, moved, answer), NEW r \in RowIds
    PROVE  /\ rows'[r].action = rows[r].action /\ rows'[r].status = rows[r].status
           /\ rows'[r].raw = rows[r].raw /\ rows'[r].srcUid = rows[r].srcUid
           /\ rows'[r].srcVal = rows[r].srcVal /\ rows'[r].undoOf = rows[r].undoOf
           /\ rows'[r].old = rows[r].old
<1> DEFINE h == CHOOSE m \in moved : uid[m] = rows[r].srcUid
<1>1. rows'[r] = rows[r] \/ rows'[r] = [rows[r] EXCEPT !.hit = h]
  BY DEF UidMove
<1>2. rows[r] \in Row
  BY DEF TypeOK
<1> HIDE DEF h
<1> QED BY <1>1, <1>2 DEF Row

LEMMA MoveSendSteady ==
    ASSUME IInv, NEW t \in MoveTasks, MoveSend(t)
    PROVE  Steady
<1>1. TypeOK /\ mv[t] \in MoveJob
  BY DEF IInv, TypeOK
<1>2. PICK moved \in SUBSET Named(mv[t].held, "INBOX"), answer \in Answer \ {"none"} :
         /\ UidMove(mv[t].held, "INBOX", "Trash", moved, answer)
         /\ mv' = [mv EXCEPT ![t].answer = answer, ![t].destVal = validity["Trash"],
                ![t].dest = [r \in RowIds |-> CopyUid(r, mv[t].held, "Trash", moved, answer)]]
  BY DEF MoveSend
<1> DEFINE val == validity["Trash"]
           dest == [r \in RowIds |-> CopyUid(r, mv[t].held, "Trash", moved, answer)]
<1>3. \A q \in MoveTasks : mv'[q].held = mv[q].held
  <2>4. mv' = [mv EXCEPT ![t].answer = answer, ![t].destVal = val, ![t].dest = dest]
    BY <1>2
  <2> HIDE DEF val, dest
  <2>1. [mv[t] EXCEPT !.answer = answer, !.destVal = val, !.dest = dest].held = mv[t].held
    BY <1>1 DEF MoveJob
  <2>2. \A q \in MoveTasks : q # t => mv'[q] = mv[q]
    BY <1>1, <2>4 DEF TypeOK
  <2>3. mv'[t] = [mv[t] EXCEPT !.answer = answer, !.destVal = val, !.dest = dest]
    BY <1>1, <2>4 DEF TypeOK
  <2> QED BY <2>1, <2>2, <2>3
<1>4. \A q \in Tasks : q # t => pc'[q] = pc[q]
  <2>1. Goto(t, "m_judge")
    BY DEF MoveSend
  <2> QED BY <1>1, <2>1 DEF Goto, TypeOK
<1>5. JobsKept
  <2>1. rs' = rs /\ rc' = rc
    BY DEF MoveSend
  <2> QED BY <1>1, <1>3, <1>4, <2>1, MoveJobsKept
<1>6. moved \in SUBSET Msgs
  BY DEF Named
<1>7. \A r \in RowIds : /\ rows'[r].action = rows[r].action /\ rows'[r].status = rows[r].status
           /\ rows'[r].raw = rows[r].raw /\ rows'[r].srcUid = rows[r].srcUid
           /\ rows'[r].srcVal = rows[r].srcVal /\ rows'[r].undoOf = rows[r].undoOf
           /\ rows'[r].old = rows[r].old
  BY <1>1, <1>2, <1>6, UidMoveKeepsRows
<1>8. \A q \in MoveTasks : mv'[q].held \subseteq RowIds
  BY <1>1, <1>3 DEF TypeOK, MoveJob
<1> QED BY <1>5, <1>7, <1>8 DEF Steady, RowKept, HeldKept, Active

----------------------------------------------------------------------------
(* The steps of undo.                                                      *)

\* A step of one undo touches neither applies nor reconciles nor other undos.
LEMMA UndoJobsKept ==
    ASSUME TypeOK, NEW t \in UndoTasks, mv' = mv, rc' = rc,
           \A q \in Tasks : q # t => pc'[q] = pc[q],
           \A q \in UndoTasks : q # t => rs'[q] = rs[q],
           pc'[t] \in UndoPcs =>
             /\ pc[t] \in UndoPcs /\ rs'[t].orig = rs[t].orig
             /\ pc'[t] \in {"u_send", "u_judge", "u_record"} =>
                  pc[t] \in {"u_send", "u_judge", "u_record"} /\ rs'[t].row = rs[t].row
    PROVE  JobsKept
<1>1. \A q \in RecTasks : q # t /\ q \in Tasks
  BY MailboxAssumption DEF MailboxAssumption, Tasks
<1>2. \A q \in UndoTasks : q \in Tasks
  BY DEF Tasks
<1> QED BY <1>1, <1>2 DEF JobsKept, RecOf

\* The end of an undo or a reconcile: its locals are gone.
LEMMA ForgetKept ==
    ASSUME TypeOK, NEW t \in UndoTasks \cup RecTasks, Forget(t)
    PROVE  JobsKept /\ mv' = mv
<1>1. t \in Tasks /\ t \notin MoveTasks
  BY MailboxAssumption DEF MailboxAssumption, Tasks
<1>2. mv' = mv
  BY <1>1 DEF Forget, TypeOK
<1>3. pc'[t] = "idle" /\ \A q \in Tasks : q # t => pc'[q] = pc[q]
  BY <1>1 DEF Forget, TypeOK
<1>4. \A q \in UndoTasks : q # t => rs'[q] = rs[q]
  BY DEF Forget
<1>5. \A q \in RecTasks : q # t => rc'[q] = rc[q]
  BY DEF Forget
<1>6. "idle" \notin UndoPcs /\ "idle" \notin RecPcs
  BY DEF UndoPcs, RecPcs
<1>7. UndoTasks \subseteq Tasks /\ RecTasks \subseteq Tasks
  BY DEF Tasks
<1> QED BY <1>2, <1>3, <1>4, <1>5, <1>6, <1>7 DEF JobsKept, RecOf

\* Going on at a label after which the undo needs no row of its own.
LEMMA UndoGoto ==
    ASSUME TypeOK, NEW t \in UndoTasks, NEW label, Goto(t, label), pc[t] \in UndoPcs,
           mv' = mv, rc' = rc, \A q \in UndoTasks : q # t => rs'[q] = rs[q],
           rs'[t].orig = rs[t].orig,
           label \in {"u_send", "u_judge", "u_record"} =>
             pc[t] \in {"u_send", "u_judge", "u_record"} /\ rs'[t].row = rs[t].row
    PROVE  JobsKept
<1>1. t \in Tasks
  BY DEF Tasks
<1>2. pc'[t] = label /\ \A q \in Tasks : q # t => pc'[q] = pc[q]
  BY <1>1 DEF Goto, TypeOK
<1> QED BY <1>2, UndoJobsKept

\* A step that changes only the given row, and not its links, is steady when
\* no apply holds the row and the row does not become active.
LEMMA OneRowSteady ==
    ASSUME TypeOK, JobsKept, mv' = mv, NEW o, \A q \in RowIds : q # o => rows'[q] = rows[q],
           o \in RowIds => RowKept(o), \A q \in MoveTasks : o \notin mv[q].held
    PROVE  Steady
<1>1. \A r \in RowIds : RowKept(r)
  BY DEF RowKept, Active
<1>2. \A q \in MoveTasks : mv[q].held \subseteq RowIds
  BY DEF TypeOK, MoveJob
<1> QED BY <1>1, <1>2 DEF Steady, HeldKept

\* What an update of the status leaves alone.
LEMMA SameRow ==
    ASSUME NEW row \in Row
    PROVE  /\ \A s : LET new == [row EXCEPT !.status = s]
                     IN /\ new.status = s /\ new.action = row.action /\ new.raw = row.raw
                        /\ new.srcUid = row.srcUid /\ new.srcVal = row.srcVal
                        /\ new.undoOf = row.undoOf /\ new.old = row.old
           /\ \A s, u, v : LET new == [row EXCEPT !.status = s, !.destUid = u, !.destVal = v]
                     IN /\ new.status = s /\ new.action = row.action /\ new.raw = row.raw
                        /\ new.srcUid = row.srcUid /\ new.srcVal = row.srcVal
                        /\ new.undoOf = row.undoOf /\ new.old = row.old
           /\ \A s, o : LET new == [row EXCEPT !.status = s, !.undoOf = o]
                     IN /\ new.status = s /\ new.action = row.action /\ new.raw = row.raw
                        /\ new.srcUid = row.srcUid /\ new.srcVal = row.srcVal
                        /\ new.undoOf = o /\ new.old = row.old
BY DEF Row

LEMMA UndoClaimSteady ==
    ASSUME IInv, NEW t \in UndoTasks, UndoClaim(t)
    PROVE  Steady
<1> DEFINE o == rs[t].orig
<1>1. TypeOK /\ NotHeld(o) /\ pc[t] \in UndoPcs
  BY DEF IInv, UndoInv, UndoClaim, UndoPcs
<1>2. CASE Leave(t) /\ UNCHANGED rows
  BY <1>1, <1>2, ForgetKept, RowsUnchanged DEF Leave
<1>3. CASE /\ rows[o].status = "succeeded"
           /\ rows' = [rows EXCEPT ![o].status = "pending"]
           /\ Goto(t, "u_locate") /\ UNCHANGED <<busy, mv, rs, rc>>
  <2>1. JobsKept
    BY <1>1, <1>3, UndoGoto
  <2>2. o \in RowIds /\ rows[o] \in Row /\ \A q \in MoveTasks : o \notin mv[q].held
    BY <1>1 DEF NotHeld, TypeOK
  <2> HIDE DEF o
  <2>3. rows'[o] = [rows[o] EXCEPT !.status = "pending"] /\ \A q \in RowIds : q # o => rows'[q] = rows[q]
    BY <1>1, <1>3, <2>2 DEF TypeOK
  <2>4. RowKept(o)
    BY <1>3, <2>2, <2>3, SameRow DEF RowKept, Active
  <2> QED BY <1>1, <1>3, <2>1, <2>2, <2>3, <2>4, OneRowSteady
<1> QED BY <1>2, <1>3 DEF UndoClaim

LEMMA UndoLocateSteady ==
    ASSUME IInv, NEW t \in UndoTasks, UndoLocate(t)
    PROVE  Steady
<1>1. TypeOK /\ rows' = rows /\ mv' = mv /\ rc' = rc /\ pc[t] \in UndoPcs /\ rs[t] \in UndoJob
  BY DEF IInv, UndoLocate, db, UndoPcs, TypeOK
<1>2. CASE Goto(t, "u_release") /\ UNCHANGED rs
  BY <1>1, <1>2, UndoGoto, RowsUnchanged
<1>3. ASSUME NEW u, rs' = [rs EXCEPT ![t].uid = u, ![t].val = validity["Trash"]], Goto(t, "u_insert")
      PROVE  Steady
  <2>1. rs'[t].orig = rs[t].orig /\ \A q \in UndoTasks : q # t => rs'[q] = rs[q]
    BY <1>1, <1>3 DEF TypeOK, UndoJob
  <2> QED BY <1>1, <1>3, <2>1, UndoGoto, RowsUnchanged
<1> QED BY <1>2, <1>3 DEF UndoLocate

LEMMA UndoSendSteady ==
    ASSUME IInv, NEW t \in UndoTasks, UndoSend(t)
    PROVE  Steady
<1>1. TypeOK /\ mv' = mv /\ rc' = rc /\ pc[t] = "u_send" /\ rs[t] \in UndoJob
  BY DEF IInv, UndoSend, TypeOK
<1>2. PICK moved \in SUBSET Named({rs[t].row}, "Trash"), answer \in Answer \ {"none"} :
         /\ UidMove({rs[t].row}, "Trash", "INBOX", moved, answer)
         /\ rs' = [rs EXCEPT ![t].answer = answer, ![t].gotVal = validity["INBOX"],
                ![t].got = CopyUid(rs[t].row, {rs[t].row}, "INBOX", moved, answer)]
  BY DEF UndoSend
<1> DEFINE got == CopyUid(rs[t].row, {rs[t].row}, "INBOX", moved, answer)
           val == validity["INBOX"]
<1>3. rs' = [rs EXCEPT ![t].answer = answer, ![t].gotVal = val, ![t].got = got]
  BY <1>2
<1> HIDE DEF got, val
<1>4. /\ rs'[t].orig = rs[t].orig /\ rs'[t].row = rs[t].row
      /\ \A q \in UndoTasks : q # t => rs'[q] = rs[q]
  BY <1>1, <1>3 DEF TypeOK, UndoJob
<1>5. Goto(t, "u_judge")
  BY DEF UndoSend
<1>6. JobsKept
  BY <1>1, <1>4, <1>5, UndoGoto DEF UndoPcs
<1>7. moved \in SUBSET Msgs
  BY DEF Named
<1>8. \A r \in RowIds : /\ rows'[r].action = rows[r].action /\ rows'[r].status = rows[r].status
           /\ rows'[r].raw = rows[r].raw /\ rows'[r].srcUid = rows[r].srcUid
           /\ rows'[r].srcVal = rows[r].srcVal /\ rows'[r].undoOf = rows[r].undoOf
           /\ rows'[r].old = rows[r].old
  BY <1>1, <1>2, <1>7, UidMoveKeepsRows
<1>9. \A q \in MoveTasks : mv'[q].held \subseteq RowIds
  BY <1>1 DEF TypeOK, MoveJob
<1> QED BY <1>6, <1>8, <1>9 DEF Steady, RowKept, HeldKept, Active

LEMMA UndoJudgeSteady ==
    ASSUME IInv, NEW t \in UndoTasks, UndoJudge(t)
    PROVE  Steady
<1> DEFINE k == rs[t].row
<1>1. TypeOK /\ pc[t] = "u_judge" /\ rs[t] \in UndoJob
  BY DEF IInv, UndoJudge, TypeOK
<1>2. k \in RowIds /\ rows[k].status # "free" /\ rows[k].action = "restore"
  BY <1>1 DEF IInv, UndoInv, UndoPcs
<1>3. \A q \in MoveTasks : k \notin mv[q].held
  BY <1>2 DEF IInv, HeldFresh
<1>4. JobsKept /\ mv' = mv
  <2>1. CASE Leave(t)
    BY <1>1, <2>1, ForgetKept DEF Leave
  <2>2. CASE (Goto(t, "u_release") \/ Goto(t, "u_record")) /\ UNCHANGED <<busy, mv, rs, rc>>
    BY <1>1, <2>2, UndoGoto DEF UndoPcs
  <2>3. CASE /\ Goto(t, "u_record") /\ UNCHANGED <<busy, mv, rc>>
             /\ \E u : rs' = [rs EXCEPT ![t].got = u, ![t].gotVal = validity["INBOX"]]
    <3>1. /\ rs'[t].orig = rs[t].orig /\ rs'[t].row = rs[t].row
          /\ \A q \in UndoTasks : q # t => rs'[q] = rs[q]
      BY <1>1, <2>3 DEF TypeOK, UndoJob
    <3> QED BY <1>1, <2>3, <3>1, UndoGoto DEF UndoPcs
  <2> QED BY <2>1, <2>2, <2>3 DEF UndoJudge
<1>5. \/ rows' = rows
      \/ rows' = [rows EXCEPT ![k].status = "unknown"]
      \/ rows' = [rows EXCEPT ![k].status = "failed", ![k].undoOf = 0]
  BY DEF UndoJudge
<1>6. rows[k] \in Row
  BY <1>1, <1>2 DEF TypeOK
<1> HIDE DEF k
<1>7. /\ \A q \in RowIds : q # k => rows'[q] = rows[q]
      /\ \/ rows'[k] = rows[k]
         \/ rows'[k] = [rows[k] EXCEPT !.status = "unknown"]
         \/ rows'[k] = [rows[k] EXCEPT !.status = "failed", !.undoOf = 0]
  BY <1>1, <1>2, <1>5 DEF TypeOK
<1>8. RowKept(k)
  <2>1. /\ rows'[k].action = "restore" /\ rows'[k].status # "free" /\ rows'[k].old = rows[k].old
        /\ rows'[k].undoOf \in {rows[k].undoOf, 0}
    <3>1. CASE rows'[k] = rows[k]
      BY <1>2, <3>1
    <3>2. CASE rows'[k] = [rows[k] EXCEPT !.status = "unknown"]
      BY <1>2, <1>6, <3>2, SameRow
    <3>3. CASE rows'[k] = [rows[k] EXCEPT !.status = "failed", !.undoOf = 0]
      BY <1>2, <1>6, <3>3, SameRow
    <3> QED BY <1>7, <3>1, <3>2, <3>3
  <2> QED BY <1>2, <2>1 DEF RowKept
<1> QED BY <1>1, <1>3, <1>4, <1>7, <1>8, OneRowSteady

LEMMA UndoRecordSteady ==
    ASSUME IInv, NEW t \in UndoTasks, UndoRecord(t)
    PROVE  Steady
<1> DEFINE k == rs[t].row
           o == rs[t].orig
           got == rs[t].got
           val == IF rs[t].got = 0 THEN 0 ELSE rs[t].gotVal
<1>1. TypeOK /\ pc[t] = "u_record"
  BY DEF IInv, UndoRecord
<1>2. CASE UNCHANGED rows /\ Leave(t)
  BY <1>1, <1>2, ForgetKept, RowsUnchanged DEF Leave
<1>3. CASE /\ rows' = [rows EXCEPT ![k].status = "succeeded", ![k].destUid = got,
                                   ![k].destVal = val, ![o].status = "undone"]
           /\ Goto(t, "u_relink") /\ UNCHANGED <<busy, mv, rs, rc>>
  <2>1. k \in RowIds /\ rows[k].status # "free" /\ rows[k].action = "restore" /\ NotHeld(o)
    BY <1>1 DEF IInv, UndoInv, UndoPcs
  <2>2. o \in RowIds /\ o # k /\ rows[o] \in Row /\ rows[k] \in Row /\ rows[o].action = "move"
    BY <1>1, <2>1 DEF NotHeld, TypeOK
  <2>3. JobsKept
    BY <1>1, <1>3, UndoGoto DEF UndoPcs
  <2>4. \A q \in MoveTasks : k \notin mv[q].held /\ o \notin mv[q].held
    BY <2>1 DEF IInv, HeldFresh, NotHeld
  <2>5. mv' = mv
    BY <1>3
  <2>6. \A q \in MoveTasks : mv[q].held \subseteq RowIds
    BY <1>1 DEF TypeOK, MoveJob
  <2> HIDE DEF k, o, got, val
  <2>7. /\ rows'[k] = [rows[k] EXCEPT !.status = "succeeded", !.destUid = got, !.destVal = val]
        /\ rows'[o] = [rows[o] EXCEPT !.status = "undone"]
        /\ \A q \in RowIds : q # k /\ q # o => rows'[q] = rows[q]
    BY <1>1, <1>3, <2>1, <2>2 DEF TypeOK
  <2>8. RowKept(k)
    BY <2>1, <2>2, <2>7, SameRow DEF RowKept, Active
  <2>9. RowKept(o)
    BY <2>1, <2>2, <2>7, SameRow DEF RowKept, Active, NotHeld
  <2>10. \A r \in RowIds : RowKept(r)
    BY <2>7, <2>8, <2>9 DEF RowKept, Active
  <2> QED BY <2>3, <2>4, <2>5, <2>6, <2>7, <2>10 DEF Steady, HeldKept
<1> QED BY <1>2, <1>3 DEF UndoRecord

LEMMA UndoRelinkSteady ==
    ASSUME IInv, NEW t \in UndoTasks, UndoRelink(t)
    PROVE  Steady
BY ForgetKept, RowsUnchanged DEF UndoRelink, Leave, IInv

LEMMA UndoReleaseSteady ==
    ASSUME IInv, NEW t \in UndoTasks, UndoRelease(t)
    PROVE  Steady
<1> DEFINE o == rs[t].orig
<1>1. TypeOK /\ NotHeld(o) /\ Forget(t)
  BY DEF IInv, UndoInv, UndoRelease, UndoPcs, Leave
<1>2. JobsKept /\ mv' = mv
  BY <1>1, ForgetKept
<1>3. CASE UNCHANGED rows
  BY <1>1, <1>2, <1>3, RowsUnchanged
<1>4. CASE rows' = [rows EXCEPT ![o].status = IF @ = "pending" THEN "succeeded" ELSE @]
  <2>1. o \in RowIds /\ rows[o] \in Row /\ \A q \in MoveTasks : o \notin mv[q].held
    BY <1>1 DEF NotHeld, TypeOK
  <2> HIDE DEF o
  <2>2. /\ rows'[o] = [rows[o] EXCEPT !.status = IF @ = "pending" THEN "succeeded" ELSE @]
        /\ \A q \in RowIds : q # o => rows'[q] = rows[q]
    BY <1>1, <1>4, <2>1 DEF TypeOK
  <2>3. RowKept(o)
    <3>1. CASE rows[o].status = "pending"
      <4>1. rows'[o] = [rows[o] EXCEPT !.status = "succeeded"]
        BY <2>2, <3>1
      <4> QED BY <2>1, <3>1, <4>1 DEF RowKept, Active, Row
    <3>2. CASE rows[o].status # "pending"
      <4>1. rows'[o] = [rows[o] EXCEPT !.status = rows[o].status]
        BY <2>2, <3>2
      <4> QED BY <2>1, <4>1 DEF RowKept, Active, Row
    <3> QED BY <3>1, <3>2
  <2> QED BY <1>1, <1>2, <2>1, <2>2, <2>3, OneRowSteady
<1> QED BY <1>3, <1>4 DEF UndoRelease

\* The restore row is a new row that no apply holds, and undoes a row that
\* none holds.
LEMMA UndoInsertInv ==
    ASSUME IInv, TypeOK', NEW t \in UndoTasks, UndoInsert(t)
    PROVE  IInv'
<1>1. /\ TypeOK /\ pc[t] = "u_insert" /\ mv' = mv /\ rc' = rc
      /\ rs[t] \in UndoJob /\ t \in Tasks
  BY DEF IInv, UndoInsert, TypeOK, Tasks
<1>2. NotHeld(rs[t].orig)
  BY <1>1 DEF IInv, UndoInv, UndoPcs
<1>3. CASE Goto(t, "u_release") /\ UNCHANGED <<rows, rs>>
  BY <1>1, <1>3, UndoGoto, RowsUnchanged, SteadyKeeps DEF UndoPcs
<1>4. ASSUME NEW r \in RowIds, NextRow(r),
             rows' = [rows EXCEPT ![r] = [FreeRow EXCEPT !.action = "restore",
                        !.status = "pending", !.raw = rows[rs[t].orig].raw, !.srcUid = rs[t].uid,
                        !.srcVal = rs[t].val, !.mid = rows[rs[t].orig].mid, !.undoOf = rs[t].orig]],
             rs' = [rs EXCEPT ![t].row = r], Goto(t, "u_send")
      PROVE  IInv'
  <2> DEFINE new == [FreeRow EXCEPT !.action = "restore",
                        !.status = "pending", !.raw = rows[rs[t].orig].raw, !.srcUid = rs[t].uid,
                        !.srcVal = rs[t].val, !.mid = rows[rs[t].orig].mid, !.undoOf = rs[t].orig]
  <2>1. rows'[r] = new /\ \A q \in RowIds : q # r => rows'[q] = rows[q]
    BY <1>1, <1>4 DEF TypeOK
  <2>2. new.action = "restore" /\ new.status = "pending" /\ new.undoOf = rs[t].orig
    BY DEF FreeRow
  <2>3. rows[r].status = "free"
    BY <1>4 DEF NextRow
  <2> HIDE DEF new
  <2>4. /\ rs'[t].orig = rs[t].orig /\ rs'[t].row = r
        /\ \A q \in UndoTasks : q # t => rs'[q] = rs[q]
    BY <1>1, <1>4 DEF TypeOK, UndoJob
  <2>5. /\ pc'[t] = "u_send" /\ \A q \in Tasks : q # t => pc'[q] = pc[q]
        /\ \A q \in RecTasks : pc'[q] = pc[q]
    BY <1>1, <1>4, MailboxAssumption DEF Goto, TypeOK, Tasks, MailboxAssumption
  <2>6. ASSUME NEW o, NotHeld(o) PROVE NotHeld(o)'
    BY <1>1, <2>1, <2>3, <2>6 DEF NotHeld
  <2>7. \A q \in MoveTasks : r \notin mv[q].held /\ mv[q].held \subseteq RowIds
    BY <1>1, <2>3 DEF IInv, HeldFresh, TypeOK, MoveJob
  <2>8. OneActiveMove'
    <3>1. \A q \in RowIds : Active(q)' => Active(q) /\ rows'[q] = rows[q]
      BY <2>1, <2>2 DEF Active
    <3> QED BY <3>1 DEF IInv, OneActiveMove
  <2>9. HeldFresh' /\ HeldApart'
    BY <1>1, <2>1, <2>7 DEF IInv, HeldFresh, HeldApart
  <2>10. OriginalsFree'
    <3> SUFFICES ASSUME NEW q \in RowIds, rows'[q].undoOf # 0 PROVE NotHeld(rows[q].undoOf)'
      BY DEF OriginalsFree, NotHeld
    <3>1. PICK o : o = rows'[q].undoOf
      OBVIOUS
    <3>2. NotHeld(o)
      BY <1>2, <2>1, <2>2, <3>1 DEF IInv, OriginalsFree
    <3>3. NotHeld(o)'
      BY <2>6, <3>2
    <3> QED BY <3>1, <3>3 DEF NotHeld
  <2>11. UndoInv'
    <3> SUFFICES ASSUME NEW q \in UndoTasks, pc'[q] \in UndoPcs
                 PROVE  /\ NotHeld(rs[q].orig)'
                        /\ pc'[q] \in {"u_send", "u_judge", "u_record"} =>
                             /\ rs'[q].row \in RowIds /\ rows'[rs'[q].row].status # "free"
                             /\ rows'[rs'[q].row].action = "restore"
      BY DEF UndoInv, NotHeld
    <3>1. pc[q] \in UndoPcs /\ rs'[q].orig = rs[q].orig
      BY <1>1, <2>4, <2>5 DEF Tasks, UndoPcs
    <3>2. PICK o : o = rs[q].orig
      OBVIOUS
    <3>3. NotHeld(o)'
      BY <2>6, <3>1, <3>2 DEF IInv, UndoInv
    <3>4. NotHeld(rs[q].orig)'
      BY <3>1, <3>2, <3>3 DEF NotHeld
    <3>5. CASE q = t
      BY <2>1, <2>2, <2>4, <3>4, <3>5
    <3>6. CASE q # t
      <4>1. pc'[q] = pc[q] /\ rs'[q] = rs[q]
        BY <2>4, <2>5, <3>6 DEF Tasks
      <4>2. pc[q] \in {"u_send", "u_judge", "u_record"} =>
              rs[q].row \in RowIds /\ rows[rs[q].row].status # "free" /\ rows[rs[q].row].action = "restore"
        BY <3>1 DEF IInv, UndoInv
      <4> QED BY <2>1, <2>3, <3>4, <4>1, <4>2
    <3> QED BY <3>5, <3>6
  <2>12. RecInv'
    <3> SUFFICES ASSUME NEW q \in RecTasks, pc'[q] \in RecPcs, NEW k \in RecOf(q)'
                 PROVE  /\ k \in RowIds /\ rows'[k].old /\ rows'[k].status # "free"
                        /\ rows'[k].action = rc'[q].snap[k].action
                        /\ rc'[q].snap[k].status \in {"pending", "unknown"}
                        /\ rc'[q].snap[k].undoOf # 0 => NotHeld(rc[q].snap[k].undoOf)'
      BY DEF RecInv, NotHeld
    <3>1. pc[q] = pc'[q] /\ rc' = rc /\ k \in RecOf(q)
      BY <1>1, <2>5 DEF RecOf
    <3>2. /\ k \in RowIds /\ rows[k].old /\ rows[k].status # "free"
          /\ rows[k].action = rc[q].snap[k].action
          /\ rc[q].snap[k].status \in {"pending", "unknown"}
          /\ rc[q].snap[k].undoOf # 0 => NotHeld(rc[q].snap[k].undoOf)
      BY <3>1 DEF IInv, RecInv
    <3>3. k # r /\ rows'[k] = rows[k]
      BY <2>1, <2>3, <3>2
    <3>4. PICK o : o = rc[q].snap[k].undoOf
      OBVIOUS
    <3>5. ASSUME o # 0 PROVE NotHeld(o)'
      BY <2>6, <3>2, <3>4, <3>5
    <3>6. rc'[q].snap[k].undoOf # 0 => NotHeld(rc[q].snap[k].undoOf)'
      BY <3>1, <3>4, <3>5 DEF NotHeld
    <3> QED BY <3>1, <3>2, <3>3, <3>6
  <2> QED BY <2>8, <2>9, <2>10, <2>11, <2>12 DEF IInv
<1> QED BY <1>3, <1>4 DEF UndoInsert

\* An undo starts on a succeeded row: no apply holds it any more.
LEMMA UndoStartInv ==
    ASSUME IInv, TypeOK', NEW t \in UndoTasks, UndoStart(t)
    PROVE  IInv'
<1>1. /\ TypeOK /\ rows' = rows /\ mv' = mv /\ rc' = rc /\ t \in Tasks
  BY DEF IInv, UndoStart, db, Tasks
<1>2. PICK o \in RowIds :
         /\ rows[o].action = "move" /\ rows[o].status = "succeeded"
         /\ rs' = [rs EXCEPT ![t] = [NoUndoJob EXCEPT !.orig = o,
                      !.destUid = rows[o].destUid, !.destVal = rows[o].destVal]]
  BY DEF UndoStart
<1>3. NotHeld(o)
  BY <1>2 DEF NotHeld, IInv, HeldFresh
<1>4. rs'[t].orig = o /\ \A q \in UndoTasks : q # t => rs'[q] = rs[q]
  BY <1>1, <1>2 DEF TypeOK, NoUndoJob
<1>5. /\ pc'[t] = "u_claim" /\ \A q \in Tasks : q # t => pc'[q] = pc[q]
      /\ \A q \in RecTasks : pc'[q] = pc[q]
  <2>1. Goto(t, "u_claim")
    BY DEF UndoStart
  <2> QED BY <1>1, <2>1, MailboxAssumption DEF Goto, TypeOK, Tasks, MailboxAssumption
<1>6. \A p : NotHeld(p)' <=> NotHeld(p)
  BY <1>1 DEF NotHeld
<1>7. OneActiveMove' /\ HeldFresh' /\ HeldApart'
  BY <1>1 DEF IInv, OneActiveMove, Active, HeldFresh, HeldApart
<1>8. OriginalsFree'
  BY <1>1 DEF IInv, OriginalsFree, NotHeld
<1>9. UndoInv'
  <2> SUFFICES ASSUME NEW q \in UndoTasks, pc'[q] \in UndoPcs
               PROVE  /\ NotHeld(rs[q].orig)'
                      /\ pc'[q] \in {"u_send", "u_judge", "u_record"} =>
                           /\ rs'[q].row \in RowIds /\ rows'[rs'[q].row].status # "free"
                           /\ rows'[rs'[q].row].action = "restore"
    BY DEF UndoInv, NotHeld
  <2>1. CASE q = t
    BY <1>1, <1>3, <1>4, <1>5, <2>1 DEF NotHeld
  <2>2. CASE q # t
    <3>1. pc'[q] = pc[q] /\ rs'[q] = rs[q]
      BY <1>4, <1>5, <2>2 DEF Tasks
    <3> QED BY <1>1, <3>1 DEF IInv, UndoInv, NotHeld
  <2> QED BY <2>1, <2>2
<1>10. RecInv'
  BY <1>1, <1>5 DEF IInv, RecInv, RecOf, NotHeld
<1> QED BY <1>7, <1>8, <1>9, <1>10 DEF IInv

----------------------------------------------------------------------------
(* The steps of reconcile.                                                 *)

\* A reconcile starts with old rows that are pending or unknown.
LEMMA RecStartInv ==
    ASSUME IInv, TypeOK', NEW t \in RecTasks, RecStart(t)
    PROVE  IInv'
<1> DEFINE stuck == {r \in RowIds : Stuck(r)}
           claimed == {rows[r].undoOf : r \in {q \in stuck : rows[q].action = "restore"}}
           todo == {r \in stuck : rows[r].action = "restore" \/ r \notin claimed}
<1>1. /\ TypeOK /\ rows' = rows /\ mv' = mv /\ rs' = rs /\ t \in Tasks
  BY DEF IInv, RecStart, db, Tasks
<1>2. rc' = [rc EXCEPT ![t].todo = todo, ![t].snap = rows]
  BY DEF RecStart
<1>3. \A r \in todo : r \in RowIds /\ rows[r].status \in {"pending", "unknown"} /\ rows[r].old
  BY DEF Stuck
<1> HIDE DEF todo
<1>4. /\ rc'[t].todo = todo /\ rc'[t].snap = rows
      /\ \A q \in RecTasks : q # t => rc'[q] = rc[q]
  BY <1>1, <1>2 DEF TypeOK, RecJob
<1>5. /\ pc'[t] = "r_source" /\ \A q \in Tasks : q # t => pc'[q] = pc[q]
      /\ \A q \in UndoTasks : pc'[q] = pc[q]
  <2>1. Goto(t, "r_source")
    BY DEF RecStart
  <2> QED BY <1>1, <2>1, MailboxAssumption DEF Goto, TypeOK, Tasks, MailboxAssumption
<1>6. OneActiveMove' /\ HeldFresh' /\ HeldApart'
  BY <1>1 DEF IInv, OneActiveMove, Active, HeldFresh, HeldApart
<1>7. OriginalsFree'
  BY <1>1 DEF IInv, OriginalsFree, NotHeld
<1>8. UndoInv'
  BY <1>1, <1>5 DEF IInv, UndoInv, NotHeld
<1>9. RecInv'
  <2> SUFFICES ASSUME NEW q \in RecTasks, pc'[q] \in RecPcs, NEW k \in RecOf(q)'
               PROVE  /\ k \in RowIds /\ rows'[k].old /\ rows'[k].status # "free"
                      /\ rows'[k].action = rc'[q].snap[k].action
                      /\ rc'[q].snap[k].status \in {"pending", "unknown"}
                      /\ rc'[q].snap[k].undoOf # 0 => NotHeld(rc[q].snap[k].undoOf)'
    BY DEF RecInv, NotHeld
  <2>1. CASE q = t
    <3>1. k \in todo
      BY <1>4, <1>5, <2>1 DEF RecOf
    <3>2. rows[k].undoOf # 0 => NotHeld(rows[k].undoOf)
      BY <1>3, <3>1 DEF IInv, OriginalsFree
    <3>3. rc'[q].snap[k].undoOf # 0 => NotHeld(rc[q].snap[k].undoOf)'
      BY <1>1, <1>4, <2>1, <3>2 DEF NotHeld
    <3> QED BY <1>1, <1>3, <1>4, <2>1, <3>1, <3>3
  <2>2. CASE q # t
    <3>1. pc'[q] = pc[q] /\ rc'[q] = rc[q] /\ k \in RecOf(q)
      BY <1>4, <1>5, <2>2 DEF Tasks, RecOf
    <3> QED BY <1>1, <3>1 DEF IInv, RecInv, NotHeld
  <2> QED BY <2>1, <2>2
<1> QED BY <1>6, <1>7, <1>8, <1>9 DEF IInv

\* A step of one reconcile touches neither applies nor undos.
LEMMA RecJobsKept ==
    ASSUME TypeOK, NEW t \in RecTasks, mv' = mv, rs' = rs, NEW label, Goto(t, label),
           pc[t] \in RecPcs, \A q \in RecTasks : q # t => rc'[q] = rc[q],
           rc'[t].snap = rc[t].snap, RecOf(t)' \subseteq RecOf(t)
    PROVE  JobsKept
<1>1. \A q \in Tasks : q # t => pc'[q] = pc[q]
  BY DEF Goto, TypeOK
<1>2. \A q \in UndoTasks : q # t /\ q \in Tasks
  BY MailboxAssumption DEF MailboxAssumption, Tasks
<1>3. \A q \in RecTasks : q \in Tasks
  BY DEF Tasks
<1> QED BY <1>1, <1>2, <1>3 DEF JobsKept, RecOf

LEMMA NextStuckKept ==
    ASSUME TypeOK, NEW t \in RecTasks, pc[t] \in RecPcs, NextStuck(t)
    PROVE  JobsKept /\ mv' = mv
<1>1. /\ rc'[t].snap = rc[t].snap /\ rc'[t].todo = rc[t].todo
      /\ \A q \in RecTasks : q # t => rc'[q] = rc[q]
  BY DEF NextStuck, TypeOK, NoRecJob
<1>2. pc'[t] = "r_source"
  BY DEF NextStuck, Goto, TypeOK, Tasks
<1>3. RecOf(t)' \subseteq RecOf(t)
  BY <1>1, <1>2 DEF RecOf
<1> QED BY <1>1, <1>3, RecJobsKept DEF NextStuck

LEMMA RecSourceSteady ==
    ASSUME IInv, NEW t \in RecTasks, RecSource(t)
    PROVE  Steady
<1>1. /\ TypeOK /\ rows' = rows /\ pc[t] = "r_source" /\ rc[t] \in RecJob /\ t \in Tasks
  BY DEF IInv, RecSource, db, TypeOK, Tasks
<1>2. CASE Forget(t)
  BY <1>1, <1>2, ForgetKept, RowsUnchanged
<1>3. ASSUME NEW r \in rc[t].todo,
             LET row == rc[t].snap[r]
                 source == ProbeOf(SourceOf(row), row.srcUid, row.srcVal, row.mid)
                 stays == source.present = "yes"
             IN /\ rc' = [rc EXCEPT ![t].todo = @ \ {r}, ![t].cur = r, ![t].source = source,
                    ![t].claimed = row.undoOf # 0 /\ rows[row.undoOf].status = "pending",
                    ![t].verdict = IF stays THEN "stayed" ELSE "none",
                    ![t].uid = IF stays THEN row.srcUid ELSE 0,
                    ![t].val = source.val]
                /\ Goto(t, IF stays THEN "r_write" ELSE "r_dest") /\ UNCHANGED <<mv, rs>>
      PROVE  Steady
  <2> DEFINE row == rc[t].snap[r]
             source == ProbeOf(SourceOf(row), row.srcUid, row.srcVal, row.mid)
             claimed == row.undoOf # 0 /\ rows[row.undoOf].status = "pending"
             verdict == IF source.present = "yes" THEN "stayed" ELSE "none"
             u == IF source.present = "yes" THEN row.srcUid ELSE 0
             label == IF source.present = "yes" THEN "r_write" ELSE "r_dest"
  <2>1. /\ rc' = [rc EXCEPT ![t].todo = @ \ {r}, ![t].cur = r, ![t].source = source,
                 ![t].claimed = claimed, ![t].verdict = verdict, ![t].uid = u, ![t].val = source.val]
        /\ Goto(t, label) /\ UNCHANGED <<mv, rs>>
    BY <1>3
  <2> HIDE DEF source, claimed, verdict, u, label, row
  <2>2. /\ rc'[t].snap = rc[t].snap /\ rc'[t].todo \subseteq rc[t].todo /\ rc'[t].cur = r
        /\ \A q \in RecTasks : q # t => rc'[q] = rc[q]
    BY <1>1, <2>1 DEF TypeOK, RecJob
  <2>3. RecOf(t)' \subseteq RecOf(t)
    BY <1>1, <1>3, <2>2 DEF RecOf
  <2>4. JobsKept
    BY <1>1, <2>1, <2>2, <2>3, RecJobsKept DEF RecPcs
  <2> QED BY <1>1, <2>4, RowsUnchanged
<1> QED BY <1>2, <1>3 DEF RecSource, IsNext

LEMMA RecDestSteady ==
    ASSUME IInv, NEW t \in RecTasks, RecDest(t)
    PROVE  Steady
<1>1. /\ TypeOK /\ rows' = rows /\ pc[t] = "r_dest" /\ rc[t] \in RecJob /\ t \in Tasks
      /\ pc[t] \in RecPcs
  BY DEF IInv, RecDest, db, TypeOK, Tasks, RecPcs
<1>2. CASE Forget(t)
  BY <1>1, <1>2, ForgetKept, RowsUnchanged
<1>3. CASE NextStuck(t)
  BY <1>1, <1>3, NextStuckKept, RowsUnchanged
<1>4. ASSUME NEW v,
             /\ rc' = [rc EXCEPT ![t].verdict = v[1], ![t].uid = v[2], ![t].val = v[3]]
             /\ Goto(t, "r_write") /\ UNCHANGED <<mv, rs>>
      PROVE  Steady
  <2>1. PICK a, b, c : rc' = [rc EXCEPT ![t].verdict = a, ![t].uid = b, ![t].val = c]
    BY <1>4
  <2>2. /\ rc'[t].snap = rc[t].snap /\ rc'[t].todo = rc[t].todo /\ rc'[t].cur = rc[t].cur
        /\ \A q \in RecTasks : q # t => rc'[q] = rc[q]
    BY <1>1, <2>1 DEF TypeOK, RecJob
  <2>3. RecOf(t)' \subseteq RecOf(t)
    BY <1>1, <2>2 DEF RecOf
  <2>4. JobsKept
    BY <1>1, <1>4, <2>2, <2>3, RecJobsKept
  <2> QED BY <1>1, <2>4, RowsUnchanged
<1> QED BY <1>2, <1>3, <1>4 DEF RecDest

\* What an update of reconcile leaves alone.
LEMMA SettledRow ==
    ASSUME NEW row \in Row, NEW j, NEW new,
           new \in {MoveRowAfter(j, row), RestoreRowAfter(j, row), OriginalAfter(j, row)}
    PROVE  /\ new.status # "free" /\ new.action = row.action /\ new.old = row.old
           /\ new.undoOf \in {row.undoOf, 0} /\ new.raw = row.raw
           /\ new.srcUid = row.srcUid /\ new.srcVal = row.srcVal
<1>1. \/ new = [row EXCEPT !.status = "failed"]
      \/ new = [row EXCEPT !.status = "undone"]
      \/ new = [row EXCEPT !.status = "failed", !.undoOf = 0]
      \/ new = [row EXCEPT !.status = "succeeded", !.destUid = j.uid, !.destVal = j.val]
  BY DEF MoveRowAfter, RestoreRowAfter, OriginalAfter
<1>2. CASE new = [row EXCEPT !.status = "failed"]
  BY <1>2 DEF Row
<1>3. CASE new = [row EXCEPT !.status = "undone"]
  BY <1>3 DEF Row
<1>4. CASE new = [row EXCEPT !.status = "failed", !.undoOf = 0]
  BY <1>4 DEF Row
<1>5. CASE new = [row EXCEPT !.status = "succeeded", !.destUid = j.uid, !.destVal = j.val]
  BY <1>5 DEF Row
<1> QED BY <1>1, <1>2, <1>3, <1>4, <1>5

\* Reconcile writes a row that is still as it read it, and the original of a
\* restore that is still pending: both were active or are restore rows, and
\* no apply holds them.
LEMMA RecWriteSteady ==
    ASSUME IInv, NEW t \in RecTasks, RecWrite(t)
    PROVE  Steady
<1> DEFINE j == rc[t]
           c == rc[t].cur
           o == rc[t].snap[rc[t].cur].undoOf
<1>1. /\ TypeOK /\ pc[t] = "r_write" /\ pc[t] \in RecPcs /\ j \in RecJob
  BY DEF IInv, RecWrite, TypeOK, RecPcs
<1>2. /\ c \in RowIds /\ rows[c].old /\ rows[c].status # "free"
      /\ rows[c].action = j.snap[c].action
      /\ j.snap[c].status \in {"pending", "unknown"}
      /\ o # 0 => NotHeld(o)
  BY <1>1 DEF IInv, RecInv, RecOf
<1>3. JobsKept /\ mv' = mv
  BY <1>1, ForgetKept, NextStuckKept DEF RecWrite
<1>4. \A q \in MoveTasks : c \notin mv[q].held
  BY <1>2 DEF IInv, HeldFresh
<1>5. ASSUME NEW r \in RowIds, rows'[r] # rows[r]
      PROVE  /\ r = c \/ NotHeld(r)
             /\ rows'[r].status # "free" /\ rows'[r].action = rows[r].action /\ rows'[r].old = rows[r].old
             /\ rows'[r].undoOf \in {rows[r].undoOf, 0}
             /\ rows'[r].raw = rows[r].raw /\ rows'[r].srcUid = rows[r].srcUid
             /\ rows'[r].srcVal = rows[r].srcVal
             /\ rows[r].action = "move" => rows[r].status \in {"pending", "unknown"}
  <2>1. rows' = [q \in RowIds |-> Settled(j, q)]
    BY <1>5 DEF RecWrite
  <2>2. rows'[r] = Settled(j, r) /\ rows[r] \in Row
    BY <1>1, <2>1 DEF TypeOK
  <2>3. CASE /\ r = c /\ j.snap[c].action = "move" /\ rows[r].status = j.snap[c].status
             /\ rows'[r] = MoveRowAfter(j, rows[r])
    BY <1>2, <2>2, <2>3, SettledRow
  <2>4. CASE /\ r = c /\ j.snap[c].action = "restore" /\ rows[r].status = j.snap[c].status
             /\ rows'[r] = RestoreRowAfter(j, rows[r])
    BY <1>2, <2>2, <2>4, SettledRow
  <2>5. CASE /\ r # c /\ r = o /\ rows[r].status = "pending"
             /\ rows'[r] = OriginalAfter(j, rows[r])
    <3>1. r # 0
      BY DEF RowIds
    <3>2. NotHeld(r)
      BY <1>2, <2>5, <3>1 DEF NotHeld
    <3>3. rows'[r].status # "free" /\ rows'[r].action = rows[r].action /\ rows'[r].old = rows[r].old
             /\ rows'[r].undoOf \in {rows[r].undoOf, 0}
             /\ rows'[r].raw = rows[r].raw /\ rows'[r].srcUid = rows[r].srcUid
             /\ rows'[r].srcVal = rows[r].srcVal
      BY <2>2, <2>5, SettledRow
    <3> QED BY <2>5, <3>2, <3>3
  <2> QED BY <1>5, <2>2, <2>3, <2>4, <2>5 DEF Settled
<1>6. \A r \in RowIds : RowKept(r)
  <2> SUFFICES ASSUME NEW r \in RowIds PROVE RowKept(r)
    OBVIOUS
  <2>1. CASE rows'[r] = rows[r]
    BY <2>1 DEF RowKept, Active
  <2>2. CASE rows'[r] # rows[r]
    BY <1>5, <2>2 DEF RowKept, Active
  <2> QED BY <2>1, <2>2
<1>7. HeldKept
  <2> SUFFICES ASSUME NEW q \in MoveTasks, NEW r \in mv[q].held PROVE rows'[r] = rows[r]
    BY <1>3 DEF HeldKept
  <2>1. r \in RowIds
    BY <1>1 DEF TypeOK, MoveJob
  <2>2. r # c /\ ~NotHeld(r)
    BY <1>4 DEF NotHeld
  <2> QED BY <1>5, <2>1, <2>2
<1> QED BY <1>3, <1>6, <1>7 DEF Steady

----------------------------------------------------------------------------
(* Sync, the mail server, the clock and crashes; and all steps together.   *)

\* Nothing but the server or the RawEmails changes.
LEMMA JobsUnchanged ==
    ASSUME TypeOK, rows' = rows, UNCHANGED <<pc, mv, rs, rc>>
    PROVE  Steady
<1>1. JobsKept
  BY DEF JobsKept, RecOf
<1> QED BY <1>1, RowsUnchanged

\* Only rows that no running job has in hand grow old.
LEMMA AgeSteady ==
    ASSUME IInv, Age
    PROVE  Steady
<1>1. TypeOK /\ UNCHANGED <<pc, mv, rs, rc>>
  BY DEF IInv, Age, jobs
<1>2. JobsKept
  BY <1>1 DEF JobsKept, RecOf
<1>3. ASSUME NEW r \in RowIds
      PROVE  /\ rows'[r].action = rows[r].action /\ rows'[r].status = rows[r].status
             /\ rows'[r].raw = rows[r].raw /\ rows'[r].srcUid = rows[r].srcUid
             /\ rows'[r].srcVal = rows[r].srcVal /\ rows'[r].undoOf = rows[r].undoOf
             /\ rows[r].old => rows'[r].old
             /\ r \in InFlight => rows'[r] = rows[r]
  <2>1. rows[r] \in Row
    BY <1>1 DEF TypeOK
  <2>2. CASE r \in InFlight \/ rows[r].status = "free"
    <3>1. rows'[r] = rows[r]
      BY <2>2 DEF Age
    <3> QED BY <3>1
  <2>3. CASE ~(r \in InFlight \/ rows[r].status = "free")
    <3>1. rows'[r] = [rows[r] EXCEPT !.old = TRUE]
      BY <2>3 DEF Age
    <3> QED BY <2>1, <2>3, <3>1 DEF Row
  <2> QED BY <2>2, <2>3
<1>4. \A r \in RowIds : RowKept(r)
  BY <1>3 DEF RowKept, Active
<1>5. HeldKept
  <2> SUFFICES ASSUME NEW t \in MoveTasks, NEW r \in mv[t].held PROVE rows'[r] = rows[r]
    BY <1>1 DEF HeldKept
  <2>1. r \in RowIds
    BY <1>1 DEF TypeOK, MoveJob
  <2>2. r \in InFlight
    BY DEF InFlight
  <2> QED BY <1>3, <2>1, <2>2
<1> QED BY <1>2, <1>4, <1>5 DEF Steady

LEMMA CrashSteady ==
    ASSUME IInv, NEW p \in Procs, Crash(p)
    PROVE  Steady
<1>1. TypeOK /\ rows' = rows
  BY DEF IInv, Crash, db
<1>2. \A t \in MoveTasks : mv'[t].held \subseteq mv[t].held
  BY DEF Crash, NoMoveJob
<1>3. "idle" \notin UndoPcs /\ "idle" \notin RecPcs
  BY DEF UndoPcs, RecPcs
<1>4. JobsKept
  BY <1>2, <1>3 DEF Crash, JobsKept, RecOf, Tasks
<1> QED BY <1>1, <1>4, RowsUnchanged

\* Every step is steady, or one of the four that begin or take something.
LEMMA NextCases ==
    ASSUME IInv, [Next]_vars
    PROVE  \/ Steady
           \/ \E t \in MoveTasks : MoveInsert(t)
           \/ \E t \in UndoTasks : UndoStart(t) \/ UndoInsert(t)
           \/ \E t \in RecTasks : RecStart(t)
<1>1. TypeOK
  BY DEF IInv
<1>2. CASE UNCHANGED vars
  BY <1>1, <1>2, JobsUnchanged DEF vars
<1>3. ASSUME NEW t \in MoveTasks, ReadTrashed(t) \/ MoveStep(t), ~MoveInsert(t) PROVE Steady
  BY <1>1, <1>3, MoveQuietSteps, MoveInsertFailsSteady, MoveSendSteady, MoveRecordSteady DEF MoveStep
<1>4. ASSUME NEW t \in UndoTasks, UndoStep(t), ~UndoInsert(t) PROVE Steady
  BY <1>4, UndoClaimSteady, UndoLocateSteady, UndoSendSteady, UndoJudgeSteady, UndoRecordSteady,
     UndoRelinkSteady, UndoReleaseSteady DEF UndoStep
<1>5. ASSUME NEW t \in RecTasks, RecStep(t) PROVE Steady
  BY <1>5, RecSourceSteady, RecDestSteady, RecWriteSteady DEF RecStep
<1>6. ASSUME NEW m \in Msgs, NEW i \in RawIds, Ingest(m, i) PROVE Steady
  BY <1>1, <1>6, JobsUnchanged DEF Ingest, jobs
<1>7. ASSUME NEW m \in Msgs, Deliver(m) \/ HandMove(m) \/ Purge(m) PROVE Steady
  BY <1>1, <1>7, JobsUnchanged DEF Deliver, HandMove, Purge, Arrive, db, jobs
<1>8. ASSUME NEW f \in Folders, ResetValidity(f) PROVE Steady
  BY <1>1, <1>8, JobsUnchanged DEF ResetValidity, db, jobs
<1> QED BY <1>2, <1>3, <1>4, <1>5, <1>6, <1>7, <1>8, AgeSteady, CrashSteady
      DEF Next, Request, Work, Environment

\* Types, for every step.
LEMMA NextType ==
    ASSUME IInv, [Next]_vars
    PROVE  TypeOK'
<1>1. TypeOK
  BY DEF IInv
<1>2. \A t \in UndoTasks : pc[t] \in UndoPcs => rs[t].orig \in RowIds
  BY DEF IInv, UndoInv, NotHeld
<1>3. \A t \in RecTasks : pc[t] \in {"r_dest", "r_write"} => rc[t].cur \in RowIds
  BY DEF IInv, RecInv, RecOf, RecPcs
<1>4. CASE UNCHANGED vars
  BY <1>1, <1>4 DEF TypeOK, vars
<1>5. ASSUME NEW t \in MoveTasks, ReadTrashed(t) \/ MoveStep(t) PROVE TypeOK'
  BY <1>1, <1>5, ReadTrashedType, ScanType, MoveAcquireType, MoveConnectType, MoveFetchType,
     MoveHistoryType, MoveInsertType, MoveInsertFailsType, MoveSendType, MoveJudgeType,
     MoveRecordType DEF MoveStep
<1>6. ASSUME NEW t \in UndoTasks, UndoStart(t) \/ UndoStep(t) PROVE TypeOK'
  <2>1. CASE UndoInsert(t)
    <3>1. rs[t].orig \in RowIds
      BY <1>2, <2>1 DEF UndoInsert, UndoPcs
    <3> QED BY <1>1, <2>1, <3>1, UndoInsertType
  <2>2. CASE UndoRelink(t)
    <3>1. rs[t].orig \in RowIds
      BY <1>2, <2>2 DEF UndoRelink, UndoPcs
    <3> QED BY <1>1, <2>2, <3>1, UndoRelinkType
  <2> QED BY <1>1, <1>6, <2>1, <2>2, UndoStartType, UndoClaimType, UndoLocateType, UndoSendType,
             UndoJudgeType, UndoRecordType, UndoReleaseType DEF UndoStep
<1>7. ASSUME NEW t \in RecTasks, RecStart(t) \/ RecStep(t) PROVE TypeOK'
  <2>1. CASE RecDest(t)
    BY <1>1, <1>3, <2>1, RecDestType DEF RecDest
  <2>2. CASE RecWrite(t)
    BY <1>1, <1>3, <2>2, RecWriteType DEF RecWrite
  <2> QED BY <1>1, <1>7, <2>1, <2>2, RecStartType, RecSourceType DEF RecStep
<1>8. ASSUME Environment PROVE TypeOK'
  BY <1>1, <1>8, IngestType, MailType, ResetValidityType, AgeType, CrashType DEF Environment
<1> QED BY <1>4, <1>5, <1>6, <1>7, <1>8 DEF Next, Request, Work

\* Initially nothing is held, claimed or running.
LEMMA InitInv == Init => IInv
<1> SUFFICES ASSUME Init PROVE IInv
  OBVIOUS
<1>1. TypeOK
  <2>1. Cardinality({m \in Msgs : InitUid[m] # 0}) \in Nat
    BY MailboxAssumption, FS_Subset, FS_CardinalityType DEF MailboxAssumption
  <2>2. nextUid \in [Folders -> Nat] /\ validity \in [Folders -> Nat]
    BY <2>1 DEF Init
  <2>3. box \in [Msgs -> Folders \cup {"none", "gone"}] /\ uid \in [Msgs -> Nat]
    BY MailboxAssumption DEF Init, Folders, MailboxAssumption
  <2>4. /\ raws \in [RawIds -> Raw] /\ skipped \subseteq RawIds /\ rows \in [RowIds -> Row]
        /\ busy \subseteq Procs
    BY EmptyJobs DEF Init, FreeRaw, Raw
  <2>5. /\ pc \in [Tasks -> {"idle"} \cup MovePcs \cup UndoPcs \cup RecPcs]
        /\ mv \in [MoveTasks -> MoveJob] /\ rs \in [UndoTasks -> UndoJob] /\ rc \in [RecTasks -> RecJob]
    BY EmptyJobs DEF Init
  <2> QED BY <2>2, <2>3, <2>4, <2>5 DEF TypeOK
<1>2. \A r \in RowIds : rows[r].status = "free" /\ rows[r].undoOf = 0
  BY DEF Init, FreeRow
<1>3. \A t \in MoveTasks : mv[t].held = {}
  BY DEF Init, NoMoveJob
<1>4. \A t \in UndoTasks \cup RecTasks : pc[t] = "idle"
  BY DEF Init, Tasks
<1>5. OneActiveMove
  BY <1>2 DEF OneActiveMove, Active
<1>6. HeldFresh /\ HeldApart /\ OriginalsFree
  BY <1>2, <1>3 DEF HeldFresh, HeldApart, OriginalsFree
<1>7. UndoInv /\ RecInv
  BY <1>4 DEF UndoInv, RecInv, UndoPcs, RecPcs
<1> QED BY <1>1, <1>5, <1>6, <1>7 DEF IInv

\* Every step keeps the invariant.
LEMMA NextInv ==
    ASSUME IInv, [Next]_vars
    PROVE  IInv'
<1>1. TypeOK'
  BY NextType
<1> QED BY <1>1, NextCases, SteadyKeeps, MoveInsertInv, UndoStartInv, UndoInsertInv, RecStartInv

----------------------------------------------------------------------------
(* The theorems.                                                           *)

\* The invariant holds in every reachable state.
THEOREM Invariant == Spec => []IInv
<1>1. IInv /\ [Next]_vars => IInv'
  BY NextInv
<1> QED BY <1>1, InitInv, PTL DEF Spec

\* Every variable keeps its type; in particular no task runs with locals of
\* another kind of request.
THEOREM TypeCorrect == Spec => []TypeOK
<1>1. IInv => TypeOK
  BY DEF IInv
<1> QED BY <1>1, Invariant, PTL

\* Of the move rows of one RawEmail, and of one UID, at most one is active,
\* whatever the number of applies, undos and reconciles and of processes, and
\* however they interleave, fail and crash: the two partial unique indexes
\* are never violated by the status updates of writer, undo and reconcile.
THEOREM OneActiveMoveHolds == Spec => []OneActiveMove
<1>1. IInv => OneActiveMove
  BY DEF IInv
<1> QED BY <1>1, Invariant, PTL

\* A move row that reads failed or undone never becomes active again: no late
\* update of apply, undo or reconcile revives it.
THEOREM InactiveStaysHolds == Spec => InactiveStays
<1>1. ASSUME IInv, IInv', [Next]_vars
      PROVE  [\A r \in RowIds : rows[r].action = "move" /\ rows[r].status \in {"failed", "undone"}
                => rows'[r].status \in {"failed", "undone"}]_vars
  <2> SUFFICES ASSUME NEW r \in RowIds, rows[r].action = "move", rows[r].status \in {"failed", "undone"}
               PROVE  rows'[r].status \in {"failed", "undone"}
    OBVIOUS
  <2>1. rows'[r].status \in Status
    BY <1>1 DEF IInv, TypeOK, Row
  <2>2. CASE Steady
    <3>1. RowKept(r)
      BY <2>2 DEF Steady
    <3> QED BY <2>1, <3>1 DEF RowKept, Active, Status
  <2>3. CASE rows' = rows
    BY <2>3
  <2>4. CASE \E q \in RowIds : NextRow(q) /\ \A p \in RowIds \ {q} : rows'[p] = rows[p]
    <3>1. PICK q \in RowIds : NextRow(q) /\ \A p \in RowIds \ {q} : rows'[p] = rows[p]
      BY <2>4
    <3>2. q # r
      BY <3>1 DEF NextRow
    <3> QED BY <1>1, <3>1, <3>2 DEF IInv, TypeOK
  <2>5. ASSUME NEW t \in MoveTasks, MoveInsert(t)
        PROVE  rows' = rows \/ \E q \in RowIds : NextRow(q) /\ \A p \in RowIds \ {q} : rows'[p] = rows[p]
    BY <1>1, <2>5 DEF MoveInsert, IInv, TypeOK
  <2>6. ASSUME NEW t \in UndoTasks, UndoStart(t) \/ UndoInsert(t)
        PROVE  rows' = rows \/ \E q \in RowIds : NextRow(q) /\ \A p \in RowIds \ {q} : rows'[p] = rows[p]
    <3>1. CASE UndoStart(t)
      BY <3>1 DEF UndoStart, db
    <3>2. CASE UndoInsert(t)
      <4>1. CASE rows' = rows
        BY <4>1
      <4>2. ASSUME NEW q \in RowIds, NEW row, NextRow(q), rows' = [rows EXCEPT ![q] = row]
            PROVE  \A p \in RowIds \ {q} : rows'[p] = rows[p]
        BY <1>1, <4>2 DEF IInv, TypeOK
      <4> QED BY <3>2, <4>1, <4>2 DEF UndoInsert
    <3> QED BY <2>6, <3>1, <3>2
  <2>7. ASSUME NEW t \in RecTasks, RecStart(t)
        PROVE  rows' = rows
    BY <2>7 DEF RecStart, db
  <2> QED BY <1>1, <2>2, <2>3, <2>4, <2>5, <2>6, <2>7, NextCases
<1> QED BY <1>1, Invariant, PTL DEF Spec, InactiveStays

============================================================================
