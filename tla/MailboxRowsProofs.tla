------------------------- MODULE MailboxRowsProofs -------------------------
(***************************************************************************)
(* More about MailboxSystem for every number of messages, rows, tasks and  *)
(* processes: the write lock, the rows of an undo, and what the rows say   *)
(* of the mailbox.                                                         *)
(***************************************************************************)
EXTENDS MailboxProofs

----------------------------------------------------------------------------
(* The write lock.                                                         *)

WriteTasks == MoveTasks \cup UndoTasks

\* A process has the account in `busy` exactly while one of its writes runs.
LockInv ==
    /\ \A t \in WriteTasks : pc[t] \in Writing => ProcOf[t] \in busy
    /\ \A s, t \in WriteTasks : s # t /\ pc[s] \in Writing /\ pc[t] \in Writing => ProcOf[s] # ProcOf[t]
    /\ \A p \in busy : \E t \in WriteTasks : ProcOf[t] = p /\ pc[t] \in Writing

\* What a step does to the lock: nothing, take it, leave it, or, at a crash,
\* lose it with its holder.
LockStays == busy' = busy /\ \A t \in WriteTasks : pc'[t] \in Writing <=> pc[t] \in Writing
OthersStay(t) == \A s \in WriteTasks : s # t => pc'[s] = pc[s]
LockTaken(t) ==
    ProcOf[t] \notin busy /\ busy' = busy \cup {ProcOf[t]} /\ pc'[t] \in Writing /\ OthersStay(t)
LockLeft(t) ==
    pc[t] \in Writing /\ busy' = busy \ {ProcOf[t]} /\ pc'[t] \notin Writing /\ OthersStay(t)

LEMMA LockKept ==
    ASSUME LockInv,
           \/ LockStays \/ \E t \in WriteTasks : LockTaken(t) \/ LockLeft(t)
           \/ \E p \in Procs : Crash(p)
    PROVE  LockInv'
<1>1. CASE LockStays
  BY <1>1 DEF LockInv, LockStays
<1>2. ASSUME NEW t \in WriteTasks, LockTaken(t) PROVE LockInv'
  BY <1>2 DEF LockInv, LockTaken, OthersStay
<1>3. ASSUME NEW t \in WriteTasks, LockLeft(t) PROVE LockInv'
  BY <1>3 DEF LockInv, LockLeft, OthersStay
<1>4. ASSUME NEW p \in Procs, Crash(p) PROVE LockInv'
  <2>1. WriteTasks \subseteq Tasks /\ "idle" \notin Writing
    BY DEF WriteTasks, Tasks, Writing, MovePcs, UndoPcs
  <2>2. \A t \in WriteTasks : pc'[t] = IF ProcOf[t] = p THEN "idle" ELSE pc[t]
    BY <1>4, <2>1 DEF Crash
  <2>3. busy' = busy \ {p}
    BY <1>4 DEF Crash
  <2> QED BY <2>1, <2>2, <2>3 DEF LockInv
<1> QED BY <1>1, <1>2, <1>3, <1>4

\* Where a task goes.
LEMMA GoesTo ==
    ASSUME TypeOK, NEW t \in Tasks, NEW label, Goto(t, label)
    PROVE  pc'[t] = label /\ \A s \in Tasks : s # t => pc'[s] = pc[s]
BY DEF Goto, TypeOK

LEMMA ForgetGoes ==
    ASSUME TypeOK, NEW t \in Tasks, Forget(t)
    PROVE  pc'[t] = "idle" /\ \A s \in Tasks : s # t => pc'[s] = pc[s]
BY DEF Forget, TypeOK

LEMMA Labels ==
    /\ WriteTasks \subseteq Tasks /\ RecTasks \cap WriteTasks = {}
    /\ {"idle", "m_scan", "m_acquire"} \cap Writing = {}
    /\ {"m_connect", "m_fetch", "m_history", "m_insert", "m_send", "m_judge", "m_record"} \subseteq Writing
    /\ {"u_claim", "u_locate", "u_insert", "u_send", "u_judge", "u_record", "u_relink", "u_release"} \subseteq Writing
BY MailboxAssumption DEF MailboxAssumption, WriteTasks, Tasks, Writing, MovePcs, UndoPcs

\* A write goes on, or is over.
LEMMA GoesOn ==
    ASSUME TypeOK, NEW t \in WriteTasks, NEW label \in Writing, Goto(t, label), pc[t] \in Writing, busy' = busy
    PROVE  LockStays
BY GoesTo, Labels DEF LockStays

LEMMA Ends ==
    ASSUME TypeOK, NEW t \in WriteTasks, pc[t] \in Writing, Leave(t)
    PROVE  LockLeft(t)
BY ForgetGoes, Labels DEF Leave, LockLeft, OthersStay

LEMMA ChunkEnds ==
    ASSUME TypeOK, NEW t \in WriteTasks, NEW j, pc[t] \in Writing, NextChunk(t, j)
    PROVE  LockStays \/ LockLeft(t)
BY Ends, GoesOn, Labels DEF NextChunk

LEMMA MoveLock ==
    ASSUME TypeOK, NEW t \in MoveTasks, ReadTrashed(t) \/ MoveStep(t)
    PROVE  LockStays \/ LockTaken(t) \/ LockLeft(t)
<1>0. t \in WriteTasks /\ t \in Tasks
  BY DEF WriteTasks, Tasks
<1>1. CASE ReadTrashed(t)
  BY <1>0, <1>1, GoesTo, Labels DEF ReadTrashed, LockStays
<1>2. CASE Scan(t)
  BY <1>0, <1>2, GoesTo, ForgetGoes, Labels DEF Scan, LockStays
<1>3. CASE MoveAcquire(t)
  BY <1>0, <1>3, GoesTo, ForgetGoes, Labels DEF MoveAcquire, LockStays, LockTaken, OthersStay
<1>4. CASE MoveConnect(t)
  BY <1>0, <1>4, GoesOn, Ends, Labels DEF MoveConnect
<1>5. CASE MoveFetch(t)
  BY <1>0, <1>5, GoesOn, Ends, Labels DEF MoveFetch
<1>6. CASE MoveHistory(t)
  BY <1>0, <1>6, GoesOn, Ends, ChunkEnds, Labels DEF MoveHistory
<1>7. CASE MoveInsert(t)
  BY <1>0, <1>7, GoesOn, ChunkEnds, Labels DEF MoveInsert
<1>8. CASE MoveInsertFails(t)
  BY <1>0, <1>8, Ends, Labels DEF MoveInsertFails
<1>9. CASE MoveSend(t)
  BY <1>0, <1>9, GoesOn, Labels DEF MoveSend
<1>10. CASE MoveJudge(t)
  BY <1>0, <1>10, GoesOn, Labels DEF MoveJudge
<1>11. CASE MoveRecord(t)
  BY <1>0, <1>11, Ends, ChunkEnds, Labels DEF MoveRecord
<1> QED BY <1>1, <1>2, <1>3, <1>4, <1>5, <1>6, <1>7, <1>8, <1>9, <1>10, <1>11 DEF MoveStep

LEMMA UndoLock ==
    ASSUME TypeOK, NEW t \in UndoTasks, UndoStart(t) \/ UndoStep(t)
    PROVE  LockStays \/ LockTaken(t) \/ LockLeft(t)
<1>0. t \in WriteTasks /\ t \in Tasks
  BY DEF WriteTasks, Tasks
<1>1. CASE UndoStart(t)
  BY <1>0, <1>1, GoesTo, Labels DEF UndoStart, LockTaken, OthersStay
<1>2. CASE UndoClaim(t)
  BY <1>0, <1>2, GoesOn, Ends, Labels DEF UndoClaim
<1>3. CASE UndoLocate(t)
  BY <1>0, <1>3, GoesOn, Labels DEF UndoLocate
<1>4. CASE UndoInsert(t)
  BY <1>0, <1>4, GoesOn, Labels DEF UndoInsert
<1>5. CASE UndoSend(t)
  BY <1>0, <1>5, GoesOn, Labels DEF UndoSend
<1>6. CASE UndoJudge(t)
  BY <1>0, <1>6, GoesOn, Ends, Labels DEF UndoJudge
<1>7. CASE UndoRecord(t)
  BY <1>0, <1>7, GoesOn, Ends, Labels DEF UndoRecord
<1>8. CASE UndoRelink(t)
  BY <1>0, <1>8, Ends, Labels DEF UndoRelink
<1>9. CASE UndoRelease(t)
  BY <1>0, <1>9, Ends, Labels DEF UndoRelease
<1> QED BY <1>1, <1>2, <1>3, <1>4, <1>5, <1>6, <1>7, <1>8, <1>9 DEF UndoStep

\* A reconcile takes no lock.
LEMMA RecLock ==
    ASSUME TypeOK, NEW t \in RecTasks, RecStart(t) \/ RecStep(t)
    PROVE  LockStays
<1>0. t \in Tasks /\ \A s \in WriteTasks : s \in Tasks /\ s # t
  BY Labels DEF Tasks
<1>1. busy' = busy /\ \A s \in Tasks : s # t => pc'[s] = pc[s]
  BY <1>0, GoesTo, ForgetGoes DEF RecStart, RecStep, RecSource, RecDest, RecWrite, NextStuck
<1> QED BY <1>0, <1>1 DEF LockStays

LEMMA NextLock ==
    ASSUME TypeOK, LockInv, [Next]_vars
    PROVE  LockInv'
<1>1. CASE UNCHANGED vars
  BY <1>1 DEF LockInv, vars
<1>2. ASSUME NEW t \in MoveTasks, ReadTrashed(t) \/ MoveStep(t) PROVE LockInv'
  BY <1>2, MoveLock, LockKept DEF WriteTasks
<1>3. ASSUME NEW t \in UndoTasks, UndoStart(t) \/ UndoStep(t) PROVE LockInv'
  BY <1>3, UndoLock, LockKept DEF WriteTasks
<1>4. ASSUME NEW t \in RecTasks, RecStart(t) \/ RecStep(t) PROVE LockInv'
  BY <1>4, RecLock, LockKept
<1>5. ASSUME NEW p \in Procs, Crash(p) PROVE LockInv'
  BY <1>5, LockKept
<1>6. CASE UNCHANGED <<busy, pc>>
  BY <1>6 DEF LockInv
<1> QED BY <1>1, <1>2, <1>3, <1>4, <1>5, <1>6
      DEF Next, Request, Work, Environment, Ingest, Deliver, HandMove, Purge, Arrive, ResetValidity, Age, jobs

\* In every process at most one apply or undo writes at a time, and `busy` has
\* the account exactly meanwhile: no two writes run in one process, and no way
\* out of one keeps the lock (acquire and the finally of mailbox-writer.service.ts).
THEOREM OneWriterHolds == Spec => []OneWriter
<1>1. Init => LockInv
  BY Labels DEF Init, LockInv
<1>2. TypeOK /\ LockInv /\ [Next]_vars => LockInv'
  BY NextLock
<1>3. ASSUME LockInv PROVE OneWriter
  <2> SUFFICES ASSUME NEW p \in Procs
               PROVE  Cardinality({t \in MoveTasks \cup UndoTasks : ProcOf[t] = p /\ pc[t] \in Writing})
                        = IF p \in busy THEN 1 ELSE 0
    BY DEF OneWriter
  <2> DEFINE W == {t \in MoveTasks \cup UndoTasks : ProcOf[t] = p /\ pc[t] \in Writing}
  <2>1. CASE p \in busy
    <3>1. PICK t \in WriteTasks : ProcOf[t] = p /\ pc[t] \in Writing
      BY <1>3, <2>1 DEF LockInv
    <3>2. W = {t}
      BY <1>3, <3>1 DEF LockInv, WriteTasks
    <3> QED BY <2>1, <3>2, FS_Singleton
  <2>2. CASE p \notin busy
    <3>1. W = {}
      BY <1>3, <2>2 DEF LockInv, WriteTasks
    <3> QED BY <2>2, <3>1, FS_EmptySet
  <2> QED BY <2>1, <2>2
<1> QED BY <1>1, <1>2, <1>3, TypeCorrect, PTL DEF Spec

----------------------------------------------------------------------------
(* A task's label and locals change by its own steps and at a crash.       *)

SameJob(t) ==
    /\ pc'[t] = pc[t]
    /\ t \in MoveTasks => mv'[t] = mv[t]
    /\ t \in UndoTasks => rs'[t] = rs[t]
    /\ t \in RecTasks => rc'[t] = rc[t]
Dead(t) ==
    /\ pc'[t] = "idle"
    /\ t \in MoveTasks => mv'[t] = NoMoveJob
    /\ t \in UndoTasks => rs'[t] = NoUndoJob
    /\ t \in RecTasks => rc'[t] = NoRecJob

LEMMA Kinds ==
    /\ \A t \in MoveTasks : t \in Tasks /\ t \notin UndoTasks /\ t \notin RecTasks
    /\ \A t \in UndoTasks : t \in Tasks /\ t \notin MoveTasks /\ t \notin RecTasks
    /\ \A t \in RecTasks : t \in Tasks /\ t \notin MoveTasks /\ t \notin UndoTasks
BY MailboxAssumption DEF MailboxAssumption, Tasks

LEMMA OthersForget ==
    ASSUME TypeOK, NEW s \in Tasks, Forget(s)
    PROVE  Dead(s) /\ \A t \in Tasks : t # s => SameJob(t)
BY DEF Forget, TypeOK, SameJob, Dead

LEMMA OthersMove ==
    ASSUME TypeOK, NEW s \in MoveTasks, ReadTrashed(s) \/ MoveStep(s)
    PROVE  \A t \in Tasks : t # s => SameJob(t)
<1>1. ASSUME NEW label, Goto(s, label), rs' = rs, rc' = rc, \A q \in MoveTasks : q # s => mv'[q] = mv[q]
      PROVE  \A t \in Tasks : t # s => SameJob(t)
  BY <1>1, GoesTo, Kinds DEF SameJob
<1>2. CASE ReadTrashed(s)
  BY <1>1, <1>2 DEF ReadTrashed, TypeOK
<1>3. CASE Forget(s)
  BY <1>3, OthersForget, Kinds
<1>4. ASSUME ~Forget(s), Scan(s) \/ MoveAcquire(s) \/ MoveConnect(s) \/ MoveJudge(s) \/ MoveSend(s)
      PROVE  \A t \in Tasks : t # s => SameJob(t)
  BY <1>1, <1>4 DEF Scan, MoveAcquire, MoveConnect, MoveJudge, MoveSend, TypeOK, Leave
<1>5. ASSUME NEW j, NextChunk(s, j)
      PROVE  \A t \in Tasks : t # s => SameJob(t)
  BY <1>1, <1>3, <1>5 DEF NextChunk, TypeOK, Leave
<1>6. ASSUME ~Forget(s), MoveFetch(s)
      PROVE  \A t \in Tasks : t # s => SameJob(t)
  <2>1. ~Leave(s)
    BY <1>6 DEF Leave
  <2>2. \A q \in MoveTasks : q # s => mv'[q] = mv[q]
    BY <1>6, <2>1 DEF MoveFetch, TypeOK
  <2> QED BY <1>1, <1>6, <2>1, <2>2 DEF MoveFetch
<1>7. ASSUME ~Forget(s), MoveHistory(s) \/ MoveInsert(s) \/ MoveInsertFails(s) \/ MoveRecord(s)
      PROVE  \A t \in Tasks : t # s => SameJob(t)
  <2>1. ~Leave(s)
    BY <1>7 DEF Leave
  <2>2. CASE MoveHistory(s)
    BY <1>1, <1>5, <2>1, <2>2 DEF MoveHistory, TypeOK
  <2>3. CASE MoveInsert(s)
    <3>1. CASE \E j : NextChunk(s, j)
      BY <1>5, <3>1
    <3>2. CASE \A j : ~NextChunk(s, j)
      <4>1. \A q \in MoveTasks : q # s => mv'[q] = mv[q]
        BY <2>3, <3>2 DEF MoveInsert, TypeOK
      <4>2. rs' = rs /\ rc' = rc /\ \E label : Goto(s, label)
        BY <2>3, <3>2 DEF MoveInsert
      <4> QED BY <1>1, <4>1, <4>2
    <3> QED BY <3>1, <3>2
  <2> QED BY <1>5, <1>7, <2>1, <2>2, <2>3 DEF MoveInsertFails, MoveRecord
<1> QED BY <1>2, <1>3, <1>4, <1>6, <1>7 DEF MoveStep

LEMMA OthersUndo ==
    ASSUME TypeOK, NEW s \in UndoTasks, UndoStart(s) \/ UndoStep(s)
    PROVE  \A t \in Tasks : t # s => SameJob(t)
<1>1. CASE Forget(s)
  BY <1>1, OthersForget, Kinds
<1>2. CASE ~Forget(s)
  <2>1. \A q \in UndoTasks : q # s => rs'[q] = rs[q]
    BY <1>2 DEF UndoStart, UndoStep, UndoClaim, UndoLocate, UndoInsert, UndoSend, UndoJudge, UndoRecord,
                UndoRelink, UndoRelease, Leave, TypeOK
  <2>2. mv' = mv /\ rc' = rc
    BY <1>2 DEF UndoStart, UndoStep, UndoClaim, UndoLocate, UndoInsert, UndoSend, UndoJudge, UndoRecord,
                UndoRelink, UndoRelease, Leave
  <2>3. \E label : Goto(s, label)
    BY <1>2 DEF UndoStart, UndoStep, UndoClaim, UndoLocate, UndoInsert, UndoSend, UndoJudge, UndoRecord,
                UndoRelink, UndoRelease, Leave
  <2> QED BY <2>1, <2>2, <2>3, GoesTo, Kinds DEF SameJob
<1> QED BY <1>1, <1>2

LEMMA OthersRec ==
    ASSUME TypeOK, NEW s \in RecTasks, RecStart(s) \/ RecStep(s)
    PROVE  \A t \in Tasks : t # s => SameJob(t)
<1>1. CASE Forget(s)
  BY <1>1, OthersForget, Kinds
<1>2. CASE ~Forget(s)
  <2>1. \A q \in RecTasks : q # s => rc'[q] = rc[q]
    <3>1. CASE RecStart(s)
      BY <3>1 DEF RecStart, TypeOK
    <3>2. CASE RecSource(s)
      <4>1. PICK r \in RowIds :
               LET row == rc[s].snap[r]
                   source == ProbeOf(SourceOf(row), row.srcUid, row.srcVal, row.mid)
                   stays == source.present = "yes"
               IN rc' = [rc EXCEPT ![s].todo = @ \ {r}, ![s].cur = r, ![s].source = source,
                    ![s].claimed = row.undoOf # 0 /\ rows[row.undoOf].status = "pending",
                    ![s].verdict = IF stays THEN "stayed" ELSE "none",
                    ![s].uid = IF stays THEN row.srcUid ELSE 0,
                    ![s].val = source.val]
        BY <1>2, <3>2 DEF RecSource
      <4> DEFINE row == rc[s].snap[r]
                 source == ProbeOf(SourceOf(row), row.srcUid, row.srcVal, row.mid)
                 claimed == row.undoOf # 0 /\ rows[row.undoOf].status = "pending"
                 verdict == IF source.present = "yes" THEN "stayed" ELSE "none"
                 u == IF source.present = "yes" THEN row.srcUid ELSE 0
      <4>2. rc' = [rc EXCEPT ![s].todo = @ \ {r}, ![s].cur = r, ![s].source = source,
                    ![s].claimed = claimed, ![s].verdict = verdict, ![s].uid = u, ![s].val = source.val]
        BY <4>1
      <4> HIDE DEF row, source, claimed, verdict, u
      <4> QED BY <4>2 DEF TypeOK
    <3>3. CASE NextStuck(s)
      BY <3>3 DEF NextStuck, TypeOK
    <3>4. ASSUME NEW v, rc' = [rc EXCEPT ![s].verdict = v[1], ![s].uid = v[2], ![s].val = v[3]]
          PROVE  \A q \in RecTasks : q # s => rc'[q] = rc[q]
      BY <3>4 DEF TypeOK
    <3> QED BY <1>2, <3>1, <3>2, <3>3, <3>4 DEF RecStep, RecDest, RecWrite
  <2>2. mv' = mv /\ rs' = rs
    BY <1>2 DEF RecStart, RecStep, RecSource, RecDest, RecWrite, NextStuck
  <2>3. \E label : Goto(s, label)
    BY <1>2 DEF RecStart, RecStep, RecSource, RecDest, RecWrite, NextStuck
  <2> QED BY <2>1, <2>2, <2>3, GoesTo, Kinds DEF SameJob
<1> QED BY <1>1, <1>2

OwnStep(t) ==
    \/ t \in MoveTasks /\ (ReadTrashed(t) \/ MoveStep(t))
    \/ t \in UndoTasks /\ (UndoStart(t) \/ UndoStep(t))
    \/ t \in RecTasks /\ (RecStart(t) \/ RecStep(t))

LEMMA Owners ==
    ASSUME TypeOK, [Next]_vars, NEW t \in Tasks
    PROVE  SameJob(t) \/ OwnStep(t) \/ Dead(t)
<1>1. ASSUME NEW p \in Procs, Crash(p) PROVE SameJob(t) \/ Dead(t)
  BY <1>1 DEF Crash, SameJob, Dead, TypeOK
<1>2. CASE UNCHANGED <<pc, mv, rs, rc>>
  BY <1>2 DEF SameJob
<1> QED BY <1>1, <1>2, OthersMove, OthersUndo, OthersRec
      DEF Next, Request, Work, Environment, Ingest, Deliver, HandMove, Purge, Arrive, ResetValidity, Age,
          jobs, vars, OwnStep

----------------------------------------------------------------------------
(* The rows of a running undo.                                             *)

\* An undo is past its audit row and has not recorded the outcome.
UndoMove == {"u_send", "u_judge", "u_record"}

\* Its own row is as it wrote it, and no other undo's.
OwnRow == \A t \in UndoTasks : pc[t] \in UndoMove =>
    /\ rs[t].row \in RowIds
    /\ rows[rs[t].row].action = "restore" /\ rows[rs[t].row].status = "pending"
    /\ ~rows[rs[t].row].old /\ rows[rs[t].row].undoOf = rs[t].orig
OwnApart == \A s, t \in UndoTasks :
    s # t /\ pc[s] \in UndoMove /\ pc[t] \in UndoMove => rs[s].row # rs[t].row
\* The unique undoOfId; only restore rows have one.
Links == \A r \in RowIds : rows[r].undoOf # 0 =>
    /\ rows[r].action = "restore" /\ rows[r].status # "free"
    /\ \A q \in RowIds : rows[q].undoOf = rows[r].undoOf => q = r
LinkInv == OwnRow /\ OwnApart /\ Links

\* An undo that is there has been there, or has just written its row.
LEMMA OwnJobs ==
    ASSUME IInv, [Next]_vars, NEW t \in UndoTasks, pc'[t] \in UndoMove
    PROVE  \/ pc[t] \in UndoMove /\ rs'[t].row = rs[t].row /\ rs'[t].orig = rs[t].orig
           \/ UndoInsert(t)
<1>0. TypeOK /\ t \in Tasks /\ UndoMove \subseteq UndoPcs
  BY DEF IInv, Tasks, UndoMove, UndoPcs
<1>1. CASE Steady
  BY <1>0, <1>1 DEF Steady, JobsKept, UndoMove
<1>2. ASSUME NEW s \in MoveTasks, MoveInsert(s) PROVE pc'[t] = pc[t] /\ rs' = rs
  <2>1. s # t /\ s \in Tasks
    BY MailboxAssumption DEF MailboxAssumption, Tasks
  <2>2. ASSUME Forget(s) PROVE pc'[t] = pc[t] /\ rs' = rs
    <3>1. \A q \in UndoTasks : q # s
      BY MailboxAssumption DEF MailboxAssumption
    <3>2. rs' = rs
      BY <1>0, <2>2, <3>1 DEF Forget, TypeOK
    <3> QED BY <1>0, <2>1, <2>2, <3>2, ForgetGoes
  <2>3. ASSUME NEW label, Goto(s, label), rs' = rs PROVE pc'[t] = pc[t] /\ rs' = rs
    BY <1>0, <2>1, <2>3, GoesTo
  <2> QED BY <1>2, <2>2, <2>3 DEF MoveInsert, NextChunk, Leave
<1>3. ASSUME NEW s \in UndoTasks, UndoStart(s) PROVE s # t /\ pc'[t] = pc[t] /\ rs'[t] = rs[t]
  <2>1. s \in Tasks /\ \A q \in UndoTasks : q # s => rs'[q] = rs[q]
    BY <1>0, <1>3 DEF UndoStart, Tasks, TypeOK
  <2> QED BY <1>0, <1>3, <2>1, GoesTo DEF UndoStart, UndoMove
<1>4. ASSUME NEW s \in UndoTasks, UndoInsert(s), s # t PROVE pc'[t] = pc[t] /\ rs'[t] = rs[t]
  <2>1. s \in Tasks /\ \A q \in UndoTasks : q # s => rs'[q] = rs[q]
    BY <1>0, <1>4 DEF UndoInsert, Tasks, TypeOK
  <2> QED BY <1>0, <1>4, <2>1, GoesTo DEF UndoInsert
<1>5. ASSUME NEW s \in RecTasks, RecStart(s) PROVE pc'[t] = pc[t] /\ rs' = rs
  <2>1. s # t /\ s \in Tasks
    BY MailboxAssumption DEF MailboxAssumption, Tasks
  <2> QED BY <1>0, <1>5, <2>1, GoesTo DEF RecStart
<1> QED BY <1>1, <1>2, <1>3, <1>4, <1>5, NextCases

\* What an update of a row leaves alone, but for `old` and `hit`.
SameRestore(r) ==
    /\ rows'[r].action = rows[r].action /\ rows'[r].status = rows[r].status
    /\ rows'[r].undoOf = rows[r].undoOf

\* Who changes a restore row: the undo that wrote it, with which it is done,
\* and a reconcile.
RestoreSettled(r) ==
    \/ \E t \in UndoTasks : (UndoJudge(t) \/ UndoRecord(t)) /\ r = rs[t].row /\ pc'[t] \notin UndoMove
    \/ \E t \in RecTasks : RecWrite(t) /\ r = rc[t].cur

LEMMA MoveSparesRestores ==
    ASSUME IInv, NEW t \in MoveTasks, MoveStep(t), NEW r \in RowIds,
           rows[r].action = "restore", rows[r].status # "free"
    PROVE  SameRestore(r) /\ rows'[r].old = rows[r].old
<1>0. TypeOK /\ mv[t] \in MoveJob /\ \A q \in mv[t].held : q \in RowIds /\ rows[q].action = "move"
  BY DEF IInv, TypeOK, HeldFresh, MoveJob
<1>1. CASE MoveInsert(t)
  BY <1>0, <1>1 DEF MoveInsert, NextRow, SameRestore, TypeOK
<1>2. CASE MoveInsertFails(t)
  BY <1>0, <1>2 DEF MoveInsertFails, SameRestore
<1>3. CASE MoveRecord(t)
  BY <1>0, <1>3 DEF MoveRecord, SameRestore
<1>4. CASE MoveSend(t)
  BY <1>0, <1>4, UidMoveKeepsRows DEF MoveSend, SameRestore, Named
<1>5. CASE rows' = rows
  BY <1>5 DEF SameRestore
<1> QED BY <1>1, <1>2, <1>3, <1>4, <1>5
      DEF MoveStep, Scan, MoveAcquire, MoveConnect, MoveFetch, MoveHistory, MoveJudge, db

LEMMA UndoSparesRestores ==
    ASSUME IInv, NEW t \in UndoTasks, UndoStart(t) \/ UndoStep(t), NEW r \in RowIds,
           rows[r].action = "restore", rows[r].status # "free", ~RestoreSettled(r)
    PROVE  SameRestore(r) /\ rows'[r].old = rows[r].old
<1>0. TypeOK /\ t \in Tasks
  BY DEF IInv, Tasks
<1>1. pc[t] \in UndoPcs => r # rs[t].orig
  BY DEF IInv, UndoInv, NotHeld
<1>2. CASE UndoClaim(t) \/ UndoRelease(t)
  <2>1. r # rs[t].orig
    BY <1>1, <1>2 DEF UndoClaim, UndoRelease, UndoPcs
  <2> QED BY <1>0, <1>2, <2>1 DEF UndoClaim, UndoRelease, TypeOK, SameRestore
<1>3. CASE UndoInsert(t)
  BY <1>0, <1>3 DEF UndoInsert, NextRow, SameRestore, TypeOK
<1>4. CASE UndoSend(t)
  BY <1>0, <1>4, UidMoveKeepsRows DEF UndoSend, SameRestore, Named
<1>5. CASE UndoJudge(t)
  <2>1. rows' = rows \/ pc'[t] \notin UndoMove
    BY <1>0, <1>5, GoesTo, ForgetGoes DEF UndoJudge, Leave, UndoMove
  <2>2. rows' = rows \/ \A q \in RowIds : q # rs[t].row => rows'[q] = rows[q]
    BY <1>0, <1>5 DEF UndoJudge, TypeOK
  <2> QED BY <1>5, <2>1, <2>2 DEF SameRestore, RestoreSettled
<1>6. CASE UndoRecord(t)
  <2>0. rows' = rows \/ Goto(t, "u_relink")
    BY <1>6 DEF UndoRecord
  <2>1. rows' = rows \/ pc'[t] \notin UndoMove
    BY <1>0, <2>0, GoesTo DEF UndoMove
  <2>2. rows' = rows \/ \A q \in RowIds : q # rs[t].row /\ q # rs[t].orig => rows'[q] = rows[q]
    BY <1>0, <1>6 DEF UndoRecord, TypeOK
  <2>3. r # rs[t].orig
    BY <1>1, <1>6 DEF UndoRecord, UndoPcs
  <2> QED BY <1>6, <2>1, <2>2, <2>3 DEF SameRestore, RestoreSettled
<1>7. CASE rows' = rows
  BY <1>7 DEF SameRestore
<1> QED BY <1>2, <1>3, <1>4, <1>5, <1>6, <1>7 DEF UndoStep, UndoStart, UndoLocate, UndoRelink, db

LEMMA RecSparesRestores ==
    ASSUME IInv, NEW t \in RecTasks, RecStart(t) \/ RecStep(t), NEW r \in RowIds,
           rows[r].action = "restore", rows[r].status # "free", ~RestoreSettled(r)
    PROVE  SameRestore(r) /\ rows'[r].old = rows[r].old
<1>1. CASE RecWrite(t)
  <2>1. pc[t] \in RecPcs /\ rc[t].cur \in RecOf(t)
    BY <1>1 DEF RecWrite, RecPcs, RecOf
  <2>2. r # rc[t].cur /\ r # 0
    BY <1>1 DEF RestoreSettled, RowIds
  <2>3. r # rc[t].snap[rc[t].cur].undoOf
    BY <2>1, <2>2 DEF IInv, RecInv, NotHeld
  <2>4. rows'[r] = rows[r]
    BY <1>1, <2>2, <2>3 DEF RecWrite, Settled
  <2> QED BY <2>4 DEF SameRestore
<1>2. CASE rows' = rows
  BY <1>2 DEF SameRestore
<1> QED BY <1>1, <1>2 DEF RecStart, RecStep, RecSource, RecDest, db

LEMMA RestoreSteps ==
    ASSUME IInv, [Next]_vars, NEW r \in RowIds, rows[r].action = "restore", rows[r].status # "free",
           ~RestoreSettled(r)
    PROVE  SameRestore(r) /\ (r \in InFlight => rows'[r].old = rows[r].old)
<1>1. CASE Age
  <2>1. rows[r] \in Row
    BY DEF IInv, TypeOK
  <2>2. rows'[r] = rows[r] \/ (r \notin InFlight /\ rows'[r] = [rows[r] EXCEPT !.old = TRUE])
    BY <1>1 DEF Age
  <2> QED BY <2>1, <2>2 DEF SameRestore, Row
<1>2. CASE rows' = rows
  BY <1>2 DEF SameRestore
<1> QED BY <1>1, <1>2, MoveSparesRestores, UndoSparesRestores, RecSparesRestores
      DEF Next, Request, Work, Environment, vars, db, ReadTrashed, Ingest, Deliver, HandMove, Purge, Arrive,
          ResetValidity, Crash

\* What the restore row of UndoInsert is.
LEMMA NewRestoreRow ==
    ASSUME TypeOK, NEW t \in UndoTasks, UndoInsert(t), pc'[t] \in UndoMove
    PROVE  \E r \in RowIds :
             /\ rows[r].status = "free" /\ rs'[t].row = r /\ rs'[t].orig = rs[t].orig
             /\ rows'[r].action = "restore" /\ rows'[r].status = "pending" /\ ~rows'[r].old
             /\ rows'[r].undoOf = rs[t].orig /\ (\A q \in RowIds : rows[q].undoOf # rs[t].orig)
             /\ \A q \in RowIds : q # r => rows'[q] = rows[q]
<1>0. t \in Tasks /\ rs[t] \in UndoJob
  BY DEF Tasks, TypeOK
<1>1. ~Goto(t, "u_release")
  BY <1>0, GoesTo DEF UndoMove
<1>2. PICK r \in RowIds :
         /\ NextRow(r)
         /\ rows' = [rows EXCEPT ![r] = [FreeRow EXCEPT !.action = "restore",
                        !.status = "pending", !.raw = rows[rs[t].orig].raw, !.srcUid = rs[t].uid,
                        !.srcVal = rs[t].val, !.mid = rows[rs[t].orig].mid, !.undoOf = rs[t].orig]]
         /\ rs' = [rs EXCEPT ![t].row = r]
  BY <1>1 DEF UndoInsert
<1>3. \A q \in RowIds : rows[q].undoOf # rs[t].orig
  BY <1>1 DEF UndoInsert
<1>4. /\ rows'[r].action = "restore" /\ rows'[r].status = "pending" /\ ~rows'[r].old
      /\ rows'[r].undoOf = rs[t].orig /\ \A q \in RowIds : q # r => rows'[q] = rows[q]
  BY <1>2 DEF TypeOK, FreeRow
<1>5. rs'[t].row = r /\ rs'[t].orig = rs[t].orig
  BY <1>0, <1>2 DEF TypeOK, UndoJob
<1> QED BY <1>2, <1>3, <1>4, <1>5 DEF NextRow

\* A link is new only with a restore row.
LEMMA LinkSteps ==
    ASSUME IInv, [Next]_vars, NEW r \in RowIds, rows'[r].undoOf # 0
    PROVE  \/ rows'[r].undoOf = rows[r].undoOf
           \/ \E t \in UndoTasks : UndoInsert(t) /\ rs'[t].row = r /\ pc'[t] \in UndoMove
<1>0. TypeOK
  BY DEF IInv
<1>1. CASE Steady
  BY <1>1 DEF Steady, RowKept
<1>2. ASSUME NEW s \in MoveTasks, MoveInsert(s) PROVE rows'[r].undoOf = rows[r].undoOf
  <2>1. CASE rows' = rows
    BY <2>1
  <2>2. ASSUME NEW q \in RowIds, NEW x, NEW j,
               rows' = [rows EXCEPT ![q] = [FreeRow EXCEPT !.status = "pending", !.raw = x.raw,
                        !.srcUid = x.uid, !.srcVal = j.val, !.mid = x.mid]]
        PROVE  rows'[r].undoOf = rows[r].undoOf
    BY <1>0, <2>2 DEF TypeOK, FreeRow
  <2> QED BY <1>2, <2>1, <2>2 DEF MoveInsert
<1>3. ASSUME NEW s \in UndoTasks, UndoInsert(s), rows'[r].undoOf # rows[r].undoOf
      PROVE  rs'[s].row = r /\ pc'[s] \in UndoMove
  <2>1. s \in Tasks /\ rows' # rows
    BY <1>3 DEF Tasks
  <2>2. pc'[s] \in UndoMove
    BY <1>0, <1>3, <2>1, GoesTo DEF UndoInsert, UndoMove
  <2> QED BY <1>0, <1>3, <2>2, NewRestoreRow
<1> QED BY <1>1, <1>2, <1>3, NextCases DEF UndoStart, RecStart, db

LEMMA NextLinks ==
    ASSUME IInv, LinkInv, [Next]_vars
    PROVE  LinkInv'
<1>0. TypeOK /\ \A t \in UndoTasks : rs[t].row \in Nat /\ rs[t].orig \in Nat
  BY DEF IInv, TypeOK, UndoJob
\* The row of an undo that goes on is settled by nobody.
<1>1. ASSUME NEW t \in UndoTasks, NEW r \in RowIds, r = rs[t].row, pc[t] \in UndoMove, pc'[t] \in UndoMove
      PROVE  SameRestore(r) /\ rows'[r].old = rows[r].old
  <2>0. r \in InFlight
    <3>1. rs[t].row \in {rs[s].row : s \in UndoTasks}
      OBVIOUS
    <3> QED BY <1>1, <3>1 DEF InFlight
  <2>1. rows[r].action = "restore" /\ rows[r].status # "free" /\ ~rows[r].old /\ r \in InFlight
    BY <1>1, <2>0 DEF LinkInv, OwnRow
  <2>2. ASSUME NEW s \in UndoTasks, UndoJudge(s) \/ UndoRecord(s), r = rs[s].row, pc'[s] \notin UndoMove
        PROVE  FALSE
    <3>1. s # t /\ pc[s] \in UndoMove
      BY <1>1, <2>2 DEF UndoJudge, UndoRecord, UndoMove
    <3> QED BY <1>1, <2>2, <3>1 DEF LinkInv, OwnApart
  <2>3. ASSUME NEW s \in RecTasks, RecWrite(s), r = rc[s].cur
        PROVE  FALSE
    <3>1. pc[s] \in RecPcs /\ r \in RecOf(s)
      BY <2>3 DEF RecWrite, RecPcs, RecOf
    <3> QED BY <2>1, <3>1 DEF IInv, RecInv
  <2>4. ~RestoreSettled(r)
    BY <2>2, <2>3 DEF RestoreSettled
  <2> QED BY <2>1, <2>4, RestoreSteps
<1>2. OwnRow'
  <2> SUFFICES ASSUME NEW t \in UndoTasks, pc'[t] \in UndoMove
               PROVE  /\ rs'[t].row \in RowIds
                      /\ rows'[rs'[t].row].action = "restore" /\ rows'[rs'[t].row].status = "pending"
                      /\ ~rows'[rs'[t].row].old /\ rows'[rs'[t].row].undoOf = rs'[t].orig
    BY DEF OwnRow
  <2>1. CASE UndoInsert(t)
    BY <1>0, <2>1, NewRestoreRow
  <2>2. CASE pc[t] \in UndoMove /\ rs'[t].row = rs[t].row /\ rs'[t].orig = rs[t].orig
    <3>1. PICK r \in RowIds : r = rs[t].row
      BY <2>2 DEF LinkInv, OwnRow
    <3>2. SameRestore(r) /\ rows'[r].old = rows[r].old
      BY <1>1, <2>2, <3>1
    <3> QED BY <2>2, <3>1, <3>2 DEF LinkInv, OwnRow, SameRestore
  <2> QED BY <2>1, <2>2, OwnJobs
<1>3. OwnApart'
  <2> SUFFICES ASSUME NEW s \in UndoTasks, NEW t \in UndoTasks, s # t, pc'[s] \in UndoMove, pc'[t] \in UndoMove
               PROVE  rs'[s].row # rs'[t].row
    BY DEF OwnApart
  <2>1. ASSUME NEW p \in UndoTasks, NEW q \in UndoTasks, p # q, UndoInsert(p), pc'[p] \in UndoMove, pc'[q] \in UndoMove
        PROVE  rs'[p].row # rs'[q].row
    <3>1. ~UndoInsert(q)
      <4>1. pc'[q] # pc[q] => q = p
        BY <1>0, <2>1, GoesTo DEF UndoInsert, Tasks
      <4>2. UndoInsert(q) => pc[q] = "u_insert"
        BY DEF UndoInsert
      <4> QED BY <2>1, <4>1, <4>2 DEF UndoMove
    <3>2. pc[q] \in UndoMove /\ rs'[q].row = rs[q].row
      BY <2>1, <3>1, OwnJobs
    <3>3. rows[rs[q].row].status = "pending"
      BY <3>2 DEF LinkInv, OwnRow
    <3>4. PICK r \in RowIds : rows[r].status = "free" /\ rs'[p].row = r
      BY <1>0, <2>1, NewRestoreRow
    <3> QED BY <3>2, <3>3, <3>4
  <2>2. CASE ~UndoInsert(s) /\ ~UndoInsert(t)
    BY <2>2, OwnJobs DEF LinkInv, OwnApart
  <2> QED BY <2>1, <2>2
<1>4. Links'
  <2>1. ASSUME NEW t \in UndoTasks, UndoInsert(t), pc'[t] \in UndoMove
        PROVE  Links'
    <3>1. PICK r \in RowIds :
             /\ rows[r].status = "free" /\ rs'[t].row = r
             /\ rows'[r].action = "restore" /\ rows'[r].status = "pending"
             /\ rows'[r].undoOf = rs[t].orig /\ (\A q \in RowIds : rows[q].undoOf # rs[t].orig)
             /\ \A q \in RowIds : q # r => rows'[q] = rows[q]
      BY <1>0, <2>1, NewRestoreRow
    <3> QED BY <3>1 DEF LinkInv, Links
  <2>2. ASSUME ~\E t \in UndoTasks : UndoInsert(t) /\ pc'[t] \in UndoMove, NEW r \in RowIds, rows'[r].undoOf # 0
        PROVE  /\ rows'[r].action = "restore" /\ rows'[r].status # "free"
               /\ \A q \in RowIds : rows'[q].undoOf = rows'[r].undoOf => q = r
    <3>1. \A q \in RowIds : rows'[q].undoOf # 0 => rows'[q].undoOf = rows[q].undoOf
      BY <2>2, LinkSteps
    <3>2. rows[r].action = "restore" /\ rows[r].status # "free"
      BY <2>2, <3>1 DEF LinkInv, Links
    <3>3. rows'[r].action = "restore" /\ rows'[r].status # "free"
      <4>1. CASE Steady
        BY <3>2, <4>1 DEF Steady, RowKept
      <4>2. CASE ~RestoreSettled(r)
        BY <3>2, <4>2, RestoreSteps DEF SameRestore
      <4>3. CASE RestoreSettled(r)
        BY <4>1, <4>3, UndoJudgeSteady, UndoRecordSteady, RecWriteSteady DEF RestoreSettled
      <4> QED BY <4>2, <4>3
    <3> QED BY <2>2, <3>1, <3>3 DEF LinkInv, Links
  <2> QED BY <2>1, <2>2 DEF Links
<1> QED BY <1>2, <1>3, <1>4 DEF LinkInv

\* The restore rows of the running undos and their links stay as described.
THEOREM LinksHold == Spec => []LinkInv
<1>1. Init => LinkInv
  BY DEF Init, LinkInv, OwnRow, OwnApart, Links, UndoMove, Tasks, FreeRow
<1>2. IInv /\ LinkInv /\ [Next]_vars => LinkInv'
  BY NextLinks
<1> QED BY <1>1, <1>2, Invariant, PTL DEF Spec

\* Two undos of one original never send a MOVE together, in whatever processes
\* they run and whatever crashed or was reconciled before: the claim and the
\* unique undoOfId keep all but one of them out (restore of
\* mailbox-writer.service.ts).
THEOREM OneRestoreHolds == Spec => []OneRestoreAtATime
<1>1. ASSUME IInv, LinkInv PROVE OneRestoreAtATime
  <2> SUFFICES ASSUME NEW s \in UndoTasks, NEW t \in UndoTasks, s # t,
                      pc[s] \in UndoMove, pc[t] \in UndoMove, rs[s].orig = rs[t].orig
               PROVE  FALSE
    BY DEF OneRestoreAtATime, UndoMove
  <2>1. rs[s].orig \in RowIds
    BY <1>1 DEF IInv, UndoInv, NotHeld, UndoMove, UndoPcs
  <2>2. rs[s].orig # 0
    BY <2>1 DEF RowIds
  <2>3. /\ rs[s].row \in RowIds /\ rs[t].row \in RowIds /\ rs[s].row # rs[t].row
        /\ rows[rs[s].row].undoOf = rs[s].orig /\ rows[rs[t].row].undoOf = rs[t].orig
    BY <1>1 DEF LinkInv, OwnRow, OwnApart
  <2> QED BY <1>1, <2>2, <2>3 DEF LinkInv, Links
<1> QED BY <1>1, Invariant, LinksHold, PTL

----------------------------------------------------------------------------
(* What a reconcile knows of the rows it has still to settle.              *)

\* What RecSource notes.
LEMMA RecSourceNotes ==
    ASSUME TypeOK, NEW t \in RecTasks, RecSource(t), pc'[t] \in RecPcs
    PROVE  \E r \in rc[t].todo :
             LET row == rc[t].snap[r]
                 source == ProbeOf(SourceOf(row), row.srcUid, row.srcVal, row.mid)
             IN /\ rc'[t].cur = r /\ rc'[t].todo = rc[t].todo \ {r} /\ rc'[t].snap = rc[t].snap
                /\ rc'[t].source = source /\ rc'[t].val = source.val
                /\ IF source.present = "yes"
                   THEN pc'[t] = "r_write" /\ rc'[t].verdict = "stayed" /\ rc'[t].uid = row.srcUid
                   ELSE pc'[t] = "r_dest" /\ rc'[t].verdict = "none" /\ rc'[t].uid = 0
<1>0. t \in Tasks /\ rc[t] \in RecJob /\ ~Forget(t)
  BY ForgetGoes DEF Tasks, TypeOK, RecPcs
<1>1. PICK r \in rc[t].todo :
         LET row == rc[t].snap[r]
             source == ProbeOf(SourceOf(row), row.srcUid, row.srcVal, row.mid)
             stays == source.present = "yes"
         IN /\ rc' = [rc EXCEPT ![t].todo = @ \ {r}, ![t].cur = r, ![t].source = source,
                 ![t].claimed = row.undoOf # 0 /\ rows[row.undoOf].status = "pending",
                 ![t].verdict = IF stays THEN "stayed" ELSE "none",
                 ![t].uid = IF stays THEN row.srcUid ELSE 0,
                 ![t].val = source.val]
            /\ Goto(t, IF stays THEN "r_write" ELSE "r_dest")
  BY <1>0 DEF RecSource, IsNext
<1> DEFINE row == rc[t].snap[r]
           source == ProbeOf(SourceOf(row), row.srcUid, row.srcVal, row.mid)
           claimed == row.undoOf # 0 /\ rows[row.undoOf].status = "pending"
           verdict == IF source.present = "yes" THEN "stayed" ELSE "none"
           u == IF source.present = "yes" THEN row.srcUid ELSE 0
           label == IF source.present = "yes" THEN "r_write" ELSE "r_dest"
<1>2. /\ rc' = [rc EXCEPT ![t].todo = @ \ {r}, ![t].cur = r, ![t].source = source,
                 ![t].claimed = claimed, ![t].verdict = verdict, ![t].uid = u, ![t].val = source.val]
      /\ Goto(t, label)
  BY <1>1
<1>3. /\ label = (IF source.present = "yes" THEN "r_write" ELSE "r_dest")
      /\ verdict = (IF source.present = "yes" THEN "stayed" ELSE "none")
      /\ u = (IF source.present = "yes" THEN row.srcUid ELSE 0)
  OBVIOUS
<1> HIDE DEF row, source, claimed, verdict, u, label
<1>4. /\ rc'[t].cur = r /\ rc'[t].todo = rc[t].todo \ {r} /\ rc'[t].snap = rc[t].snap
      /\ rc'[t].source = source /\ rc'[t].val = source.val /\ rc'[t].verdict = verdict /\ rc'[t].uid = u
  BY <1>0, <1>2 DEF TypeOK, RecJob
<1>5. pc'[t] = label
  BY <1>0, <1>2, GoesTo
<1> QED BY <1>3, <1>4, <1>5 DEF row, source

\* What RecDest notes.
LEMMA RecDestNotes ==
    ASSUME TypeOK, NEW t \in RecTasks, RecDest(t), pc'[t] \in {"r_dest", "r_write"}
    PROVE  LET row == rc[t].snap[rc[t].cur]
               v == Verdict(rc[t].source, ProbeOf(DestOf(row), row.destUid, row.destVal, row.mid), row)
           IN /\ v[1] # "none" /\ pc'[t] = "r_write"
              /\ rc'[t].verdict = v[1] /\ rc'[t].uid = v[2] /\ rc'[t].val = v[3]
              /\ rc'[t].cur = rc[t].cur /\ rc'[t].todo = rc[t].todo
              /\ rc'[t].snap = rc[t].snap /\ rc'[t].source = rc[t].source
<1> DEFINE row == rc[t].snap[rc[t].cur]
           v == Verdict(rc[t].source, ProbeOf(DestOf(row), row.destUid, row.destVal, row.mid), row)
<1>0. t \in Tasks /\ rc[t] \in RecJob
  BY DEF Tasks, TypeOK
<1>1. ~Forget(t) /\ ~NextStuck(t)
  BY <1>0, ForgetGoes, GoesTo DEF NextStuck
<1>2. /\ v[1] # "none" /\ Goto(t, "r_write")
      /\ rc' = [rc EXCEPT ![t].verdict = v[1], ![t].uid = v[2], ![t].val = v[3]]
  BY <1>1 DEF RecDest
<1> HIDE DEF v, row
<1>3. PICK a, b, c : a = v[1] /\ b = v[2] /\ c = v[3]
  OBVIOUS
<1>4. rc' = [rc EXCEPT ![t].verdict = a, ![t].uid = b, ![t].val = c]
  BY <1>2, <1>3
<1>5. /\ rc'[t].verdict = a /\ rc'[t].uid = b /\ rc'[t].val = c
      /\ rc'[t].cur = rc[t].cur /\ rc'[t].todo = rc[t].todo
      /\ rc'[t].snap = rc[t].snap /\ rc'[t].source = rc[t].source
  BY <1>0, <1>4 DEF TypeOK, RecJob
<1>6. pc'[t] = "r_write"
  BY <1>0, <1>2, GoesTo
<1> QED BY <1>2, <1>3, <1>5, <1>6 DEF v, row

\* What RecWrite leaves to do.
LEMMA RecWriteNotes ==
    ASSUME TypeOK, NEW t \in RecTasks, RecWrite(t), pc'[t] \in RecPcs
    PROVE  pc'[t] = "r_source" /\ rc'[t].todo = rc[t].todo /\ rc'[t].snap = rc[t].snap
<1>0. t \in Tasks
  BY DEF Tasks
<1>1. NextStuck(t)
  BY <1>0, ForgetGoes DEF RecWrite, RecPcs
<1> QED BY <1>0, <1>1, GoesTo DEF NextStuck, TypeOK, NoRecJob

\* What RecStart reads.
LEMMA RecStartNotes ==
    ASSUME TypeOK, NEW t \in RecTasks, RecStart(t)
    PROVE  /\ pc'[t] = "r_source" /\ rc'[t].todo \subseteq RowIds /\ rc'[t].snap = rows
           /\ \A r \in rc'[t].todo : Stuck(r)
<1> DEFINE stuck == {r \in RowIds : Stuck(r)}
           claimed == {rows[r].undoOf : r \in {q \in stuck : rows[q].action = "restore"}}
           todo == {r \in stuck : rows[r].action = "restore" \/ r \notin claimed}
<1>0. t \in Tasks /\ rc[t] \in RecJob
  BY DEF Tasks, TypeOK
<1>1. rc' = [rc EXCEPT ![t].todo = todo, ![t].snap = rows] /\ Goto(t, "r_source")
  BY DEF RecStart
<1>2. todo \subseteq RowIds /\ \A r \in todo : Stuck(r)
  OBVIOUS
<1> HIDE DEF todo
<1>3. rc'[t].todo = todo /\ rc'[t].snap = rows
  BY <1>0, <1>1 DEF TypeOK, RecJob
<1> QED BY <1>0, <1>1, <1>2, <1>3, GoesTo

\* The rows that a reconcile has taken are still to do, or in its hands once.
LEMMA RecSteps ==
    ASSUME IInv, [Next]_vars, NEW t \in RecTasks, pc'[t] \in RecPcs
    PROVE  \/ SameJob(t) /\ pc[t] \in RecPcs
           \/ RecStart(t)
           \/ pc[t] \in RecPcs /\ (RecSource(t) \/ RecDest(t) \/ RecWrite(t))
<1>1. TypeOK /\ t \in Tasks /\ "idle" \notin RecPcs
  BY DEF IInv, Tasks, RecPcs
<1>2. CASE SameJob(t)
  BY <1>2 DEF SameJob
<1>3. CASE OwnStep(t)
  BY <1>3, Kinds DEF OwnStep, RecStep, RecSource, RecDest, RecWrite, RecPcs
<1>4. CASE Dead(t)
  BY <1>1, <1>4 DEF Dead
<1> QED BY <1>1, <1>2, <1>3, <1>4, Owners

----------------------------------------------------------------------------
(* An undone move has a succeeded restore.                                 *)

\* Two reconcile runs never overlap.
OneReconcile == \A s, t \in RecTasks : s = t

\* A running reconcile knows the restore rows it has still to settle as they
\* are, and has each of them once.
RestoresRead == \A t \in RecTasks : pc[t] \in RecPcs =>
    /\ pc[t] # "r_source" => rc[t].cur \notin rc[t].todo
    /\ \A r \in RecOf(t) : rc[t].snap[r].action = "restore" =>
         rows[r].status = rc[t].snap[r].status /\ rows[r].undoOf = rc[t].snap[r].undoOf

\* Who writes `undone`.
LEMMA UndoneSteps ==
    ASSUME IInv, [Next]_vars, NEW r \in RowIds, rows'[r].status = "undone", rows[r].status # "undone"
    PROVE  \/ \E t \in UndoTasks : UndoRecord(t) /\ rows' # rows /\ r = rs[t].orig
           \/ \E t \in RecTasks :
                /\ RecWrite(t) /\ rows' # rows /\ r # rc[t].cur /\ r = rc[t].snap[rc[t].cur].undoOf
                /\ rc[t].snap[rc[t].cur].action = "restore" /\ rc[t].verdict # "stayed"
<1>0. TypeOK /\ rows[r] \in Row /\ rows' # rows
  BY DEF IInv, TypeOK
<1>1. ASSUME NEW t \in MoveTasks, MoveStep(t) PROVE FALSE
  <2>1. CASE MoveInsert(t)
    <3>1. PICK x \in mv[t].batch, q \in RowIds :
             rows' = [rows EXCEPT ![q] = [FreeRow EXCEPT !.status = "pending", !.raw = x.raw,
                        !.srcUid = x.uid, !.srcVal = mv[t].val, !.mid = x.mid]]
      BY <1>0, <2>1 DEF MoveInsert
    <3> QED BY <1>0, <3>1 DEF TypeOK, FreeRow
  <2>2. CASE MoveInsertFails(t)
    <3>1. rows'[r] = [rows[r] EXCEPT !.status = "failed"]
      BY <2>2 DEF MoveInsertFails
    <3> QED BY <1>0, <3>1 DEF Row
  <2>3. CASE MoveRecord(t)
    <3>1. mv[t].out[r] \in {"succeeded", "failed", "unknown"}
      BY <1>0 DEF TypeOK, MoveJob
    <3>2. \/ rows'[r] = [rows[r] EXCEPT !.status = "succeeded", !.destUid = mv[t].dest[r],
                            !.destVal = IF mv[t].dest[r] # 0 THEN mv[t].destVal ELSE 0]
          \/ rows'[r] = [rows[r] EXCEPT !.status = mv[t].out[r]]
      BY <1>0, <2>3 DEF MoveRecord
    <3> DEFINE v == IF mv[t].dest[r] # 0 THEN mv[t].destVal ELSE 0
    <3>3. \/ rows'[r] = [rows[r] EXCEPT !.status = "succeeded", !.destUid = mv[t].dest[r], !.destVal = v]
          \/ rows'[r] = [rows[r] EXCEPT !.status = mv[t].out[r]]
      BY <3>2
    <3> HIDE DEF v
    <3> QED BY <1>0, <3>1, <3>3 DEF Row
  <2>4. CASE MoveSend(t)
    BY <1>0, <2>4, UidMoveKeepsRows DEF MoveSend, Named
  <2> QED BY <1>0, <1>1, <2>1, <2>2, <2>3, <2>4
        DEF MoveStep, Scan, MoveAcquire, MoveConnect, MoveFetch, MoveHistory, MoveJudge, db
<1>2. ASSUME NEW t \in UndoTasks, UndoStart(t) \/ UndoStep(t), ~(UndoRecord(t) /\ r = rs[t].orig) PROVE FALSE
  <2>1. CASE UndoClaim(t)
    <3>1. rows'[r] = [rows[r] EXCEPT !.status = "pending"]
      BY <1>0, <2>1 DEF UndoClaim, TypeOK
    <3> QED BY <1>0, <3>1 DEF Row
  <2>2. CASE UndoRelease(t)
    <3>1. rows'[r] = [rows[r] EXCEPT !.status = "succeeded"] \/ rows'[r] = [rows[r] EXCEPT !.status = rows[r].status]
      BY <1>0, <2>2 DEF UndoRelease, TypeOK
    <3> QED BY <1>0, <3>1 DEF Row
  <2>3. CASE UndoInsert(t)
    <3>1. t \in Tasks /\ pc'[t] \in UndoMove
      BY <1>0, <2>3, GoesTo DEF UndoInsert, UndoMove, Tasks
    <3> QED BY <1>0, <2>3, <3>1, NewRestoreRow
  <2>4. CASE UndoSend(t)
    BY <1>0, <2>4, UidMoveKeepsRows DEF UndoSend, Named
  <2>5. CASE UndoJudge(t)
    <3>1. rows'[r] = [rows[r] EXCEPT !.status = "unknown"] \/ rows'[r] = [rows[r] EXCEPT !.status = "failed", !.undoOf = 0]
      BY <1>0, <2>5 DEF UndoJudge, TypeOK
    <3> QED BY <1>0, <3>1 DEF Row
  <2>6. CASE UndoRecord(t)
    <3> DEFINE k == rs[t].row
               o == rs[t].orig
               got == rs[t].got
               val == IF rs[t].got = 0 THEN 0 ELSE rs[t].gotVal
    <3>1. rows' = [rows EXCEPT ![k].status = "succeeded", ![k].destUid = got,
                               ![k].destVal = val, ![o].status = "undone"] /\ r # o
      BY <1>0, <1>2, <2>6 DEF UndoRecord
    <3> HIDE DEF k, o, got, val
    <3>2. rows'[r] = rows[r] \/ rows'[r] = [rows[r] EXCEPT !.status = "succeeded", !.destUid = got, !.destVal = val]
      BY <1>0, <3>1 DEF TypeOK
    <3> QED BY <1>0, <3>2 DEF Row
  <2> QED BY <1>0, <1>2, <2>1, <2>2, <2>3, <2>4, <2>5, <2>6 DEF UndoStart, UndoStep, UndoLocate, UndoRelink, db
<1>3. ASSUME NEW t \in RecTasks, RecWrite(t)
      PROVE  /\ r # rc[t].cur /\ r = rc[t].snap[rc[t].cur].undoOf
             /\ rc[t].snap[rc[t].cur].action = "restore" /\ rc[t].verdict # "stayed"
  <2>1. rows'[r] = Settled(rc[t], r)
    BY <1>0, <1>3 DEF RecWrite
  <2>2. \A u, v : [rows[r] EXCEPT !.status = "succeeded", !.destUid = u, !.destVal = v].status = "succeeded"
    BY <1>0 DEF Row
  <2>3. [rows[r] EXCEPT !.status = "failed"].status = "failed" /\ [rows[r] EXCEPT !.status = "failed", !.undoOf = 0].status = "failed"
    BY <1>0 DEF Row
  <2> QED BY <1>0, <2>1, <2>2, <2>3 DEF Settled, MoveRowAfter, RestoreRowAfter, OriginalAfter
<1>4. CASE Age
  <2>1. rows'[r] = [rows[r] EXCEPT !.old = TRUE]
    BY <1>0, <1>4 DEF Age
  <2> QED BY <1>0, <2>1 DEF Row
<1> QED BY <1>0, <1>1, <1>2, <1>3, <1>4
      DEF Next, Request, Work, Environment, vars, db, ReadTrashed, Ingest, Deliver, HandMove, Purge, Arrive,
          ResetValidity, Crash, RecStart, RecStep, RecSource, RecDest

\* A restore row that reconcile has still to settle, and one that has
\* succeeded, is not changed by anyone but that reconcile.
LEMMA RestoresReadKept ==
    ASSUME IInv, LinkInv, RestoresRead, OneReconcile, [Next]_vars
    PROVE  RestoresRead'
<1> SUFFICES ASSUME NEW t \in RecTasks, pc'[t] \in RecPcs
             PROVE  /\ pc'[t] # "r_source" => rc'[t].cur \notin rc'[t].todo
                    /\ \A r \in RecOf(t)' : rc'[t].snap[r].action = "restore" =>
                         rows'[r].status = rc'[t].snap[r].status /\ rows'[r].undoOf = rc'[t].snap[r].undoOf
  BY DEF RestoresRead
<1>0. TypeOK
  BY DEF IInv
\* Only its own write may touch such a row.
<1>1. ASSUME pc[t] \in RecPcs, NEW r \in RecOf(t), rc[t].snap[r].action = "restore",
             ~(RecWrite(t) /\ r = rc[t].cur)
      PROVE  rows'[r].status = rc[t].snap[r].status /\ rows'[r].undoOf = rc[t].snap[r].undoOf
  <2>1. r \in RowIds /\ rows[r].old /\ rows[r].action = "restore" /\ rows[r].status # "free"
    BY <1>1 DEF IInv, RecInv
  <2>2. ASSUME NEW s \in UndoTasks, UndoJudge(s) \/ UndoRecord(s), r = rs[s].row PROVE FALSE
    <3>1. pc[s] \in UndoMove
      BY <2>2 DEF UndoJudge, UndoRecord, UndoMove
    <3> QED BY <2>1, <2>2, <3>1 DEF LinkInv, OwnRow
  <2>3. ~RestoreSettled(r)
    BY <1>1, <2>2 DEF RestoreSettled, OneReconcile
  <2>4. SameRestore(r)
    BY <2>1, <2>3, RestoreSteps
  <2> QED BY <1>1, <2>4 DEF RestoresRead, SameRestore
<1>2. CASE SameJob(t) /\ pc[t] \in RecPcs /\ ~RecWrite(t)
  <2>1. pc'[t] = pc[t] /\ rc'[t] = rc[t]
    BY <1>2 DEF SameJob
  <2>2. RecOf(t)' = RecOf(t)
    BY <2>1 DEF RecOf
  <2> QED BY <1>1, <1>2, <2>1, <2>2 DEF RestoresRead
<1>3. CASE RecStart(t)
  <2>1. rows' = rows /\ RecOf(t)' = rc'[t].todo /\ pc'[t] = "r_source" /\ rc'[t].snap = rows
    BY <1>0, <1>3, RecStartNotes DEF RecOf, RecStart, db
  <2> QED BY <2>1
<1>4. CASE RecSource(t)
  <2>1. pc[t] = "r_source" /\ pc[t] \in RecPcs /\ ~RecWrite(t)
    BY <1>4 DEF RecSource, RecPcs, RecWrite
  <2>2. PICK r \in rc[t].todo : rc'[t].cur = r /\ rc'[t].todo = rc[t].todo \ {r} /\ rc'[t].snap = rc[t].snap
    BY <1>0, <1>4, RecSourceNotes
  <2>3. RecOf(t)' \subseteq RecOf(t)
    BY <2>1, <2>2 DEF RecOf
  <2> QED BY <1>1, <2>1, <2>2, <2>3
<1>5. CASE RecDest(t) /\ pc'[t] \in {"r_dest", "r_write"}
  <2>1. pc[t] = "r_dest" /\ pc[t] \in RecPcs /\ ~RecWrite(t)
    BY <1>5 DEF RecDest, RecPcs, RecWrite
  <2>2. pc'[t] = "r_write" /\ rc'[t].cur = rc[t].cur /\ rc'[t].todo = rc[t].todo /\ rc'[t].snap = rc[t].snap
    BY <1>0, <1>5, RecDestNotes
  <2>3. RecOf(t)' = RecOf(t)
    BY <2>1, <2>2 DEF RecOf
  <2> QED BY <1>1, <2>1, <2>2, <2>3 DEF RestoresRead
<1>6. ASSUME pc[t] \in {"r_dest", "r_write"}, pc'[t] = "r_source",
             rc'[t].todo = rc[t].todo, rc'[t].snap = rc[t].snap
      PROVE  \A r \in RecOf(t)' : rc'[t].snap[r].action = "restore" =>
               rows'[r].status = rc'[t].snap[r].status /\ rows'[r].undoOf = rc'[t].snap[r].undoOf
  <2>1. RecOf(t)' = rc[t].todo /\ rc[t].todo \subseteq RecOf(t) /\ rc[t].cur \notin rc[t].todo /\ pc[t] \in RecPcs
    BY <1>6 DEF RecOf, RestoresRead, RecPcs
  <2> QED BY <1>1, <1>6, <2>1
<1>7. CASE RecDest(t) /\ pc'[t] \notin {"r_dest", "r_write"}
  <2>1. pc[t] = "r_dest" /\ pc'[t] = "r_source"
    BY <1>7 DEF RecDest, RecPcs
  <2>2. t \in Tasks /\ ~Goto(t, "r_write") /\ ~Forget(t)
    BY <1>0, <1>7, <2>1, GoesTo, ForgetGoes DEF Tasks
  <2>3. NextStuck(t)
    BY <1>7, <2>2 DEF RecDest
  <2>4. rc'[t].todo = rc[t].todo /\ rc'[t].snap = rc[t].snap
    BY <1>0, <2>3 DEF NextStuck, TypeOK, NoRecJob
  <2> QED BY <1>6, <2>1, <2>4
<1>8. CASE RecWrite(t)
  <2>1. pc[t] = "r_write"
    BY <1>8 DEF RecWrite
  <2> QED BY <1>0, <1>6, <1>8, <2>1, RecWriteNotes
<1> QED BY <1>2, <1>3, <1>4, <1>5, <1>7, <1>8, RecSteps

LEMMA UndoneKept ==
    ASSUME IInv, LinkInv, RestoresRead, UndoneHasRestore, [Next]_vars
    PROVE  UndoneHasRestore'
<1> SUFFICES ASSUME NEW r \in RowIds, rows'[r].status = "undone"
             PROVE  \E q \in RowIds : rows'[q].undoOf = r /\ rows'[q].status = "succeeded"
  BY DEF UndoneHasRestore
<1>0. TypeOK /\ r # 0
  BY DEF IInv, RowIds
<1>1. CASE rows[r].status = "undone"
  <2>1. PICK q \in RowIds : rows[q].undoOf = r /\ rows[q].status = "succeeded"
    BY <1>1 DEF UndoneHasRestore
  <2>2. rows[q].action = "restore"
    BY <1>0, <2>1 DEF LinkInv, Links
  <2>3. ASSUME NEW s \in UndoTasks, UndoJudge(s) \/ UndoRecord(s), q = rs[s].row PROVE FALSE
    <3>1. pc[s] \in UndoMove
      BY <2>3 DEF UndoJudge, UndoRecord, UndoMove
    <3> QED BY <2>1, <2>3, <3>1 DEF LinkInv, OwnRow
  <2>4. ASSUME NEW s \in RecTasks, RecWrite(s), q = rc[s].cur PROVE FALSE
    <3>1. pc[s] \in RecPcs /\ q \in RecOf(s)
      BY <2>4 DEF RecWrite, RecPcs, RecOf
    <3>2. rc[s].snap[q].action = "restore" /\ rc[s].snap[q].status \in {"pending", "unknown"}
      BY <2>2, <3>1 DEF IInv, RecInv
    <3> QED BY <2>1, <3>1, <3>2 DEF RestoresRead
  <2>5. SameRestore(q)
    BY <2>1, <2>2, <2>3, <2>4, RestoreSteps DEF RestoreSettled
  <2> QED BY <2>1, <2>5 DEF SameRestore
<1>2. ASSUME NEW t \in UndoTasks, UndoRecord(t), rows' # rows, r = rs[t].orig
      PROVE  \E q \in RowIds : rows'[q].undoOf = r /\ rows'[q].status = "succeeded"
  <2> DEFINE k == rs[t].row
             o == rs[t].orig
             got == rs[t].got
             val == IF rs[t].got = 0 THEN 0 ELSE rs[t].gotVal
  <2>1. k \in RowIds /\ rows[k].undoOf = r /\ rows[k] \in Row /\ k # o
    <3>1. pc[t] \in UndoMove /\ pc[t] \in UndoPcs
      BY <1>2 DEF UndoRecord, UndoMove, UndoPcs
    <3> QED BY <1>0, <1>2, <3>1 DEF LinkInv, OwnRow, TypeOK, IInv, UndoInv, NotHeld
  <2>2. rows' = [rows EXCEPT ![k].status = "succeeded", ![k].destUid = got,
                             ![k].destVal = val, ![o].status = "undone"]
    BY <1>2 DEF UndoRecord
  <2> HIDE DEF k, o, got, val
  <2>3. rows'[k] = [rows[k] EXCEPT !.status = "succeeded", !.destUid = got, !.destVal = val]
    BY <1>0, <2>1, <2>2 DEF TypeOK
  <2>4. rows'[k].undoOf = r /\ rows'[k].status = "succeeded"
    BY <2>1, <2>3 DEF Row
  <2> QED BY <2>1, <2>4
<1>3. ASSUME NEW t \in RecTasks, RecWrite(t), rows' # rows, r # rc[t].cur,
             r = rc[t].snap[rc[t].cur].undoOf, rc[t].snap[rc[t].cur].action = "restore",
             rc[t].verdict # "stayed"
      PROVE  \E q \in RowIds : rows'[q].undoOf = r /\ rows'[q].status = "succeeded"
  <2>1. PICK c : c = rc[t].cur
    OBVIOUS
  <2>2. pc[t] \in RecPcs /\ c \in RecOf(t)
    BY <1>3, <2>1 DEF RecWrite, RecPcs, RecOf
  <2>3. c \in RowIds /\ rows[c].status = rc[t].snap[c].status /\ rows[c].undoOf = r
    BY <1>3, <2>1, <2>2 DEF RestoresRead, IInv, RecInv
  <2>4. rows[c] \in Row
    BY <1>0, <2>3 DEF TypeOK
  <2>5. rows'[c] = Settled(rc[t], c)
    BY <1>3, <2>3 DEF RecWrite
  <2>6. Settled(rc[t], c) = RestoreRowAfter(rc[t], rows[c])
    BY <1>3, <2>1, <2>3 DEF Settled
  <2>7. \A u, v : LET new == [rows[c] EXCEPT !.status = "succeeded", !.destUid = u, !.destVal = v]
                  IN new.status = "succeeded" /\ new.undoOf = rows[c].undoOf
    BY <2>4 DEF Row
  <2>8. rows'[c].status = "succeeded" /\ rows'[c].undoOf = r
    BY <1>3, <2>3, <2>5, <2>6, <2>7 DEF RestoreRowAfter
  <2> QED BY <2>3, <2>8
<1> QED BY <1>1, <1>2, <1>3, UndoneSteps

\* An undone move always has a succeeded restore, whatever undos, reconciles
\* and crashes came between, as long as no two reconcile runs overlap: undo
\* and reconcile write the pair in one transaction, and neither undoes the
\* other's half (restore of mailbox-writer.service.ts, restoreMoved of
\* mailbox-reconcile.service.ts).
THEOREM UndoneHasRestoreHolds ==
    ASSUME OneReconcile
    PROVE  Spec => []UndoneHasRestore
<1>1. Init => RestoresRead /\ UndoneHasRestore
  <2> SUFFICES ASSUME Init PROVE RestoresRead /\ UndoneHasRestore
    OBVIOUS
  <2>1. \A t \in RecTasks : pc[t] \notin RecPcs
    BY Kinds DEF Init, RecPcs
  <2>2. \A r \in RowIds : rows[r].status = "free"
    BY DEF Init, FreeRow
  <2> QED BY <2>1, <2>2 DEF RestoresRead, UndoneHasRestore
<1>2. ASSUME IInv, LinkInv, RestoresRead, UndoneHasRestore, [Next]_vars
      PROVE  (RestoresRead /\ UndoneHasRestore)'
  BY <1>2, RestoresReadKept, UndoneKept
<1> QED BY <1>1, <1>2, Invariant, LinksHold, PTL DEF Spec

----------------------------------------------------------------------------
(* UIDs: what a UID under a UIDVALIDITY names stays true.                  *)

\* Every message of a folder has a UID of its own, below the folder's UIDNEXT.
UidInv ==
    /\ \A f \in Folders : nextUid[f] > 0 /\ validity[f] > 0
    /\ \A m \in Msgs : box[m] \in Folders => 0 < uid[m] /\ uid[m] < nextUid[box[m]]
    /\ \A m, n \in Msgs : box[m] \in Folders /\ box[n] = box[m] /\ uid[n] = uid[m] => n = m

\* A UID of a folder, under a UIDVALIDITY it has or had, names nothing but
\* messages of S.
Holds(f, u, v, S) ==
    /\ v <= validity[f]
    /\ v = validity[f] => u < nextUid[f] /\ \A m \in Msgs : box[m] = f /\ uid[m] = u => m \in S

\* A folder keeps its UIDs but for new ones, or changes its UIDVALIDITY.
FolderKept(f) ==
    \/ validity'[f] > validity[f]
    \/ /\ validity'[f] = validity[f] /\ nextUid'[f] >= nextUid[f]
       /\ \A m \in Msgs : box'[m] = f =>
            (box[m] = f /\ uid'[m] = uid[m]) \/ uid'[m] >= nextUid[f]

LEMMA HoldsKept ==
    ASSUME TypeOK, TypeOK', NEW f \in Folders, FolderKept(f), NEW u \in Nat, NEW v \in Nat, NEW S, Holds(f, u, v, S)
    PROVE  Holds(f, u, v, S)'
<1>1. validity[f] \in Nat /\ validity'[f] \in Nat /\ nextUid[f] \in Nat /\ nextUid'[f] \in Nat
  BY DEF TypeOK
<1>2. \A m \in Msgs : uid'[m] \in Nat
  BY DEF TypeOK
<1>3. CASE validity'[f] > validity[f]
  BY <1>1, <1>3 DEF Holds
<1>4. CASE /\ validity'[f] = validity[f] /\ nextUid'[f] >= nextUid[f]
           /\ \A m \in Msgs : box'[m] = f => (box[m] = f /\ uid'[m] = uid[m]) \/ uid'[m] >= nextUid[f]
  <2>1. CASE v # validity[f]
    BY <1>1, <1>4, <2>1 DEF Holds
  <2>2. CASE v = validity[f]
    <3>1. u < nextUid[f] /\ \A m \in Msgs : box[m] = f /\ uid[m] = u => m \in S
      BY <2>2 DEF Holds
    <3>2. ASSUME NEW m \in Msgs, box'[m] = f, uid'[m] = u PROVE m \in S
      BY <1>1, <1>2, <1>4, <3>1, <3>2
    <3> QED BY <1>1, <1>4, <2>2, <3>1, <3>2 DEF Holds
  <2> QED BY <2>1, <2>2
<1> QED BY <1>3, <1>4 DEF FolderKept

\* Renumbering gives the messages it is about distinct UIDs, from first on.
LEMMA RenumberedApart ==
    ASSUME TypeOK, NEW moved \in SUBSET Msgs, NEW first \in Nat,
           \A m, n \in moved : uid[m] = uid[n] => m = n
    PROVE  /\ \A m \in moved : /\ first <= Renumbered(moved, first)[m]
                               /\ Renumbered(moved, first)[m] < first + Cardinality(moved)
           /\ \A m, n \in moved : Renumbered(moved, first)[m] = Renumbered(moved, first)[n] => m = n
           /\ \A m \in Msgs \ moved : Renumbered(moved, first)[m] = uid[m]
<1> DEFINE Below(m) == {n \in moved : uid[n] < uid[m]}
<1>1. IsFiniteSet(moved) /\ \A m \in moved : uid[m] \in Nat
  BY MailboxAssumption, FS_Subset DEF MailboxAssumption, TypeOK
<1>2. \A m \in moved : IsFiniteSet(Below(m)) /\ Cardinality(Below(m)) \in Nat
  BY <1>1, FS_Subset, FS_CardinalityType
<1>3. Cardinality(moved) \in Nat
  BY <1>1, FS_CardinalityType
<1>4. ASSUME NEW m \in moved PROVE Cardinality(Below(m)) < Cardinality(moved)
  <2>1. Below(m) \subseteq moved /\ m \notin Below(m)
    BY <1>1
  <2>2. Cardinality(Below(m)) <= Cardinality(moved) /\ (Cardinality(Below(m)) = Cardinality(moved) => Below(m) = moved)
    BY <1>1, <2>1, FS_Subset
  <2> QED BY <1>2, <1>3, <2>1, <2>2
<1>5. ASSUME NEW m \in moved, NEW n \in moved, uid[m] < uid[n]
      PROVE  Cardinality(Below(m)) < Cardinality(Below(n))
  <2>1. Below(m) \subseteq Below(n) /\ m \in Below(n) /\ m \notin Below(m)
    BY <1>1, <1>5
  <2>2. Cardinality(Below(m)) <= Cardinality(Below(n)) /\ (Cardinality(Below(m)) = Cardinality(Below(n)) => Below(m) = Below(n))
    BY <1>2, <2>1, FS_Subset
  <2> QED BY <1>2, <2>1, <2>2
<1>6. \A m \in moved : Renumbered(moved, first)[m] = first + Cardinality(Below(m))
  BY DEF Renumbered
<1>7. \A m \in Msgs \ moved : Renumbered(moved, first)[m] = uid[m]
  BY DEF Renumbered
<1>8. ASSUME NEW m \in moved, NEW n \in moved, Renumbered(moved, first)[m] = Renumbered(moved, first)[n]
      PROVE  m = n
  <2> HIDE DEF Below
  <2>1. ~(uid[m] < uid[n]) /\ ~(uid[n] < uid[m])
    BY <1>2, <1>5, <1>6, <1>8
  <2> QED BY <1>1, <2>1
<1> HIDE DEF Below
<1> QED BY <1>2, <1>3, <1>4, <1>6, <1>7, <1>8

\* UID MOVE.
LEMMA UidMoveServer ==
    ASSUME TypeOK, TypeOK', UidInv, NEW held, NEW from \in Folders, NEW to \in Folders \ {from},
           NEW moved \in SUBSET Msgs, \A m \in moved : box[m] = from,
           NEW answer, UidMove(held, from, to, moved, answer)
    PROVE  UidInv' /\ \A f \in Folders : FolderKept(f)
<1> DEFINE new == Renumbered(moved, nextUid[to])
<1>1. \A m, n \in moved : uid[m] = uid[n] => m = n
  BY DEF UidInv
<1>2. nextUid[to] \in Nat /\ nextUid[to] > 0 /\ Cardinality(moved) \in Nat
  <2>1. Cardinality(moved) \in Nat
    BY MailboxAssumption, FS_Subset, FS_CardinalityType DEF MailboxAssumption
  <2> QED BY <2>1 DEF TypeOK, UidInv
<1>3. /\ \A m \in moved : nextUid[to] <= new[m] /\ new[m] < nextUid[to] + Cardinality(moved)
      /\ \A m, n \in moved : new[m] = new[n] => m = n
      /\ \A m \in Msgs \ moved : new[m] = uid[m]
  BY <1>1, <1>2, RenumberedApart
<1>4. /\ uid' = new /\ validity' = validity
      /\ nextUid'[to] = nextUid[to] + Cardinality(moved) /\ \A f \in Folders : f # to => nextUid'[f] = nextUid[f]
      /\ \A m \in Msgs : box'[m] = IF m \in moved THEN to ELSE box[m]
  BY DEF UidMove, TypeOK
<1> HIDE DEF new
<1>5. \A m \in Msgs : uid[m] \in Nat /\ uid'[m] \in Nat
  BY DEF TypeOK
<1>6. \A f \in Folders : nextUid[f] \in Nat /\ nextUid'[f] \in Nat
  BY DEF TypeOK
<1>7. \A f \in Folders : FolderKept(f)
  BY <1>2, <1>3, <1>4, <1>5, <1>6 DEF FolderKept
<1>8. \A f \in Folders : nextUid'[f] > 0 /\ validity'[f] > 0
  BY <1>2, <1>4, <1>6 DEF UidInv
<1>9. ASSUME NEW m \in Msgs, box'[m] \in Folders PROVE 0 < uid'[m] /\ uid'[m] < nextUid'[box'[m]]
  <2>1. CASE m \in moved
    BY <1>2, <1>3, <1>4, <1>5, <2>1
  <2>2. CASE m \notin moved
    <3>1. PICK f \in Folders : f = box[m]
      BY <1>4, <1>9, <2>2
    <3>2. 0 < uid[m] /\ uid[m] < nextUid[f]
      BY <3>1 DEF UidInv
    <3>3. nextUid[f] <= nextUid'[f]
      BY <1>2, <1>4, <1>6
    <3> QED BY <1>3, <1>4, <1>5, <1>6, <2>2, <3>1, <3>2, <3>3
  <2> QED BY <2>1, <2>2
<1>10. ASSUME NEW m \in Msgs, NEW n \in Msgs, box'[m] \in Folders, box'[n] = box'[m], uid'[n] = uid'[m]
       PROVE  n = m
  <2>1. ASSUME NEW a \in moved, NEW b \in Msgs \ moved, box'[a] = box'[b] PROVE uid'[a] # uid'[b]
    <3>1. box[b] = to /\ uid[b] < nextUid[to]
      BY <1>4, <2>1 DEF UidInv
    <3> QED BY <1>2, <1>3, <1>4, <1>5, <2>1, <3>1
  <2>2. CASE m \in moved /\ n \in moved
    BY <1>3, <1>4, <1>10, <2>2
  <2>3. CASE m \notin moved /\ n \notin moved
    BY <1>3, <1>4, <1>10, <2>3 DEF UidInv
  <2> QED BY <1>10, <2>1, <2>2, <2>3
<1> QED BY <1>7, <1>8, <1>9, <1>10 DEF UidInv

LEMMA ArriveServer ==
    ASSUME TypeOK, TypeOK', UidInv, NEW m \in Msgs, NEW f \in Folders, box[m] # f, Arrive(m, f)
    PROVE  UidInv' /\ \A g \in Folders : FolderKept(g)
<1>1. /\ uid'[m] = nextUid[f] /\ box'[m] = f /\ nextUid'[f] = nextUid[f] + 1 /\ validity' = validity
      /\ \A n \in Msgs : n # m => uid'[n] = uid[n] /\ box'[n] = box[n]
      /\ \A g \in Folders : g # f => nextUid'[g] = nextUid[g]
  BY DEF Arrive, TypeOK
<1>2. /\ \A n \in Msgs : uid[n] \in Nat
      /\ \A g \in Folders : nextUid[g] \in Nat /\ nextUid[g] > 0
  BY DEF TypeOK, UidInv
<1>3. \A g \in Folders : FolderKept(g)
  BY <1>1, <1>2 DEF FolderKept
<1>4. \A g \in Folders : nextUid'[g] > 0 /\ validity'[g] > 0
  BY <1>1, <1>2 DEF UidInv
<1>5. ASSUME NEW n \in Msgs, box'[n] \in Folders PROVE 0 < uid'[n] /\ uid'[n] < nextUid'[box'[n]]
  <2>1. PICK g \in Folders : g = box'[n]
    BY <1>5
  <2>2. CASE n = m
    BY <1>1, <1>2, <2>2
  <2>3. CASE n # m
    <3>1. 0 < uid[n] /\ uid[n] < nextUid[g]
      BY <1>1, <2>1, <2>3 DEF UidInv
    <3> QED BY <1>1, <1>2, <2>1, <2>3, <3>1
  <2> QED BY <2>2, <2>3
<1>6. ASSUME NEW a \in Msgs, NEW b \in Msgs, box'[a] \in Folders, box'[b] = box'[a], uid'[b] = uid'[a]
      PROVE  b = a
  <2>1. ASSUME NEW n \in Msgs, n # m, box'[n] = f PROVE uid'[n] # uid'[m]
    <3>1. uid[n] < nextUid[f]
      BY <1>1, <2>1 DEF UidInv
    <3> QED BY <1>1, <1>2, <2>1, <3>1
  <2>2. CASE a # m /\ b # m
    BY <1>1, <1>6, <2>2 DEF UidInv
  <2> QED BY <1>1, <1>6, <2>1, <2>2
<1> QED BY <1>3, <1>4, <1>5, <1>6 DEF UidInv

LEMMA ResetServer ==
    ASSUME TypeOK, TypeOK', UidInv, NEW f \in Folders, ResetValidity(f)
    PROVE  UidInv' /\ \A g \in Folders : FolderKept(g)
<1> DEFINE here == {m \in Msgs : box[m] = f}
           new == Renumbered(here, 1)
<1>1. \A m \in Msgs : m \in here <=> box[m] = f
  OBVIOUS
<1>2. Cardinality(here) \in Nat /\ here \in SUBSET Msgs
  BY MailboxAssumption, FS_Subset, FS_CardinalityType DEF MailboxAssumption
<1>3. \A m, n \in here : uid[m] = uid[n] => m = n
  BY DEF UidInv
<1>4. /\ uid' = new /\ box' = box
      /\ nextUid'[f] = 1 + Cardinality(here) /\ validity'[f] = validity[f] + 1
      /\ \A g \in Folders : g # f => nextUid'[g] = nextUid[g] /\ validity'[g] = validity[g]
  BY DEF ResetValidity, TypeOK
<1> HIDE DEF here
<1>5. /\ \A m \in here : 1 <= new[m] /\ new[m] < 1 + Cardinality(here)
      /\ \A m, n \in here : new[m] = new[n] => m = n
      /\ \A m \in Msgs \ here : new[m] = uid[m]
  BY <1>2, <1>3, RenumberedApart
<1> HIDE DEF new
<1>6. /\ \A m \in Msgs : uid[m] \in Nat /\ uid'[m] \in Nat
      /\ \A g \in Folders : nextUid[g] \in Nat /\ nextUid[g] > 0 /\ validity[g] \in Nat /\ validity[g] > 0
  BY DEF TypeOK, UidInv
<1>7. ASSUME NEW g \in Folders PROVE FolderKept(g)
  <2>1. CASE g = f
    BY <1>4, <1>6, <2>1 DEF FolderKept
  <2>2. CASE g # f
    BY <1>5, <1>4, <1>1, <1>6, <2>2 DEF FolderKept
  <2> QED BY <2>1, <2>2
<1>8. \A g \in Folders : nextUid'[g] > 0 /\ validity'[g] > 0
  BY <1>2, <1>4, <1>6
<1>9. ASSUME NEW n \in Msgs, box'[n] \in Folders PROVE 0 < uid'[n] /\ uid'[n] < nextUid'[box'[n]]
  <2>1. PICK g \in Folders : g = box[n] /\ box'[n] = g
    BY <1>4, <1>9
  <2>2. CASE g = f
    <3>1. n \in here /\ box'[n] = f
      BY <1>1, <2>1, <2>2
    <3>2. 1 <= uid'[n] /\ uid'[n] < nextUid'[f]
      BY <1>5, <1>4, <3>1
    <3> QED BY <1>6, <3>1, <3>2
  <2>3. CASE g # f
    <3>1. 0 < uid[n] /\ uid[n] < nextUid[g]
      BY <2>1 DEF UidInv
    <3> QED BY <1>5, <1>4, <1>1, <2>1, <2>3, <3>1
  <2> QED BY <2>2, <2>3
<1>10. ASSUME NEW a \in Msgs, NEW b \in Msgs, box'[a] \in Folders, box'[b] = box'[a], uid'[b] = uid'[a]
       PROVE  b = a
  <2>1. CASE a \in here
    BY <1>5, <1>4, <1>1, <1>10, <2>1
  <2>2. CASE a \notin here
    BY <1>5, <1>4, <1>1, <1>10, <2>2 DEF UidInv
  <2> QED BY <2>1, <2>2
<1> QED BY <1>7, <1>8, <1>9, <1>10 DEF UidInv

LEMMA SameServer ==
    ASSUME TypeOK, UidInv, UNCHANGED <<uid, nextUid, validity>>,
           \A m \in Msgs : box'[m] = box[m] \/ box'[m] \notin Folders
    PROVE  UidInv' /\ \A g \in Folders : FolderKept(g)
<1>1. \A g \in Folders : nextUid[g] \in Nat
  BY DEF TypeOK
<1> QED BY <1>1 DEF UidInv, FolderKept

\* Every step keeps the folders.
LEMMA NextServer ==
    ASSUME IInv, UidInv, [Next]_vars
    PROVE  UidInv' /\ \A f \in Folders : FolderKept(f)
<1>0. TypeOK /\ TypeOK' /\ "INBOX" \in Folders /\ "Trash" \in Folders \ {"INBOX"} /\ "INBOX" \in Folders \ {"Trash"}
  BY NextType DEF IInv, Folders
<1>1. ASSUME NEW t \in MoveTasks, MoveSend(t) PROVE UidInv' /\ \A f \in Folders : FolderKept(f)
  <2>1. PICK moved \in SUBSET Named(mv[t].held, "INBOX"), answer \in Answer \ {"none"} :
           UidMove(mv[t].held, "INBOX", "Trash", moved, answer)
    BY <1>1 DEF MoveSend
  <2>2. moved \in SUBSET Msgs /\ \A m \in moved : box[m] = "INBOX"
    BY DEF Named
  <2> QED BY <1>0, <2>1, <2>2, UidMoveServer
<1>2. ASSUME NEW t \in UndoTasks, UndoSend(t) PROVE UidInv' /\ \A f \in Folders : FolderKept(f)
  <2>1. PICK moved \in SUBSET Named({rs[t].row}, "Trash"), answer \in Answer \ {"none"} :
           UidMove({rs[t].row}, "Trash", "INBOX", moved, answer)
    BY <1>2 DEF UndoSend
  <2>2. moved \in SUBSET Msgs /\ \A m \in moved : box[m] = "Trash"
    BY DEF Named
  <2> QED BY <1>0, <2>1, <2>2, UidMoveServer
<1>3. ASSUME NEW m \in Msgs, Deliver(m) \/ HandMove(m) PROVE UidInv' /\ \A f \in Folders : FolderKept(f)
  BY <1>0, <1>3, ArriveServer DEF Deliver, HandMove
<1>4. ASSUME NEW m \in Msgs, Purge(m) PROVE UidInv' /\ \A f \in Folders : FolderKept(f)
  <2>1. \A n \in Msgs : box'[n] = box[n] \/ box'[n] \notin Folders
    BY <1>0, <1>4 DEF Purge, TypeOK, Folders
  <2> QED BY <1>0, <1>4, <2>1, SameServer DEF Purge
<1>5. ASSUME NEW f \in Folders, ResetValidity(f) PROVE UidInv' /\ \A g \in Folders : FolderKept(g)
  BY <1>0, <1>5, ResetServer
<1>6. CASE UNCHANGED server
  BY <1>0, <1>6, SameServer DEF server
<1>7. ASSUME NEW t \in MoveTasks, ReadTrashed(t) \/ MoveStep(t), ~MoveSend(t) PROVE UNCHANGED server
  BY <1>7 DEF ReadTrashed, MoveStep, Scan, MoveAcquire, MoveConnect, MoveFetch, MoveHistory, MoveInsert,
              MoveInsertFails, MoveJudge, MoveRecord
<1>8. ASSUME NEW t \in UndoTasks, UndoStart(t) \/ UndoStep(t), ~UndoSend(t) PROVE UNCHANGED server
  BY <1>8 DEF UndoStart, UndoStep, UndoClaim, UndoLocate, UndoInsert, UndoJudge, UndoRecord, UndoRelink, UndoRelease
<1>9. ASSUME NEW t \in RecTasks, RecStart(t) \/ RecStep(t) PROVE UNCHANGED server
  BY <1>9 DEF RecStart, RecStep, RecSource, RecDest, RecWrite
<1> QED BY <1>1, <1>2, <1>3, <1>4, <1>5, <1>6, <1>7, <1>8, <1>9
      DEF Next, Request, Work, Environment, vars, server, Ingest, Age, Crash

----------------------------------------------------------------------------
(* What a step may do to an audit row.                                     *)

\* What the row is about never changes.
SameSubject(r) ==
    /\ rows'[r].status # "free" /\ rows'[r].action = rows[r].action /\ rows'[r].raw = rows[r].raw
    /\ rows'[r].srcUid = rows[r].srcUid /\ rows'[r].srcVal = rows[r].srcVal /\ rows'[r].mid = rows[r].mid
    /\ rows'[r].undoOf \in {rows[r].undoOf, 0}
SameDest(r) == rows'[r].destUid = rows[r].destUid /\ rows'[r].destVal = rows[r].destVal
SameFate(r) == rows'[r].status = rows[r].status /\ rows'[r].hit = rows[r].hit /\ SameDest(r)

\* An apply sends, closes or records the rows it holds.
FateByMove(t, r) ==
    /\ r \in mv[t].held
    /\ \/ MoveSend(t) /\ rows'[r].status = rows[r].status /\ SameDest(r)
       \/ MoveInsertFails(t) /\ rows'[r].status = "failed" /\ rows'[r].hit = rows[r].hit /\ SameDest(r)
       \/ /\ MoveRecord(t) /\ rows'[r].status = mv[t].out[r] /\ rows'[r].hit = rows[r].hit
          /\ \/ SameDest(r)
             \/ rows'[r].destUid = mv[t].dest[r] /\ (mv[t].dest[r] # 0 => rows'[r].destVal = mv[t].destVal)
\* An undo changes the status of its original, and settles its own row.
FateByUndo(t, r) ==
    \/ /\ r = rs[t].orig /\ (UndoClaim(t) \/ UndoRelease(t) \/ UndoRecord(t))
       /\ rows'[r].hit = rows[r].hit /\ SameDest(r) /\ rows'[r].status \in {rows[r].status, "pending", "succeeded", "undone"}
    \/ r = rs[t].row /\ UndoSend(t) /\ rows'[r].status = rows[r].status /\ SameDest(r)
    \/ /\ r = rs[t].row /\ (UndoJudge(t) \/ UndoRecord(t)) /\ rows'[r].hit = rows[r].hit
       /\ \/ SameDest(r)
          \/ UndoRecord(t) /\ rows'[r].destUid = rs[t].got /\ (rs[t].got # 0 => rows'[r].destVal = rs[t].gotVal)
\* A reconcile settles a row, and the original of a restore row.
FateByRec(t, r) ==
    /\ RecWrite(t) /\ rows'[r].hit = rows[r].hit
    /\ \/ /\ r = rc[t].cur
          /\ \/ rc[t].verdict = "stayed" /\ rows'[r].status = "failed" /\ SameDest(r)
             \/ /\ rc[t].verdict # "stayed" /\ rows'[r].status = "succeeded"
                /\ rows'[r].destUid = rc[t].uid /\ rows'[r].destVal = rc[t].val
       \/ /\ r # rc[t].cur /\ r = rc[t].snap[rc[t].cur].undoOf /\ rc[t].snap[rc[t].cur].action = "restore"
          /\ rows'[r].status \in {"succeeded", "undone"}
          /\ SameDest(r) \/ (rc[t].verdict = "stayed" /\ rows'[r].destUid = rc[t].uid /\ rows'[r].destVal = rc[t].val)

\* Updates of a row's fields leave the others alone.
LEMMA RowFields ==
    ASSUME NEW row \in Row
    PROVE  /\ \A s : LET new == [row EXCEPT !.status = s]
                     IN /\ new.status = s /\ new.action = row.action /\ new.raw = row.raw /\ new.mid = row.mid
                        /\ new.srcUid = row.srcUid /\ new.srcVal = row.srcVal /\ new.undoOf = row.undoOf
                        /\ new.hit = row.hit /\ new.destUid = row.destUid /\ new.destVal = row.destVal
           /\ \A s, u, v : LET new == [row EXCEPT !.status = s, !.destUid = u, !.destVal = v]
                     IN /\ new.status = s /\ new.action = row.action /\ new.raw = row.raw /\ new.mid = row.mid
                        /\ new.srcUid = row.srcUid /\ new.srcVal = row.srcVal /\ new.undoOf = row.undoOf
                        /\ new.hit = row.hit /\ new.destUid = u /\ new.destVal = v
           /\ \A s, o : LET new == [row EXCEPT !.status = s, !.undoOf = o]
                     IN /\ new.status = s /\ new.action = row.action /\ new.raw = row.raw /\ new.mid = row.mid
                        /\ new.srcUid = row.srcUid /\ new.srcVal = row.srcVal /\ new.undoOf = o
                        /\ new.hit = row.hit /\ new.destUid = row.destUid /\ new.destVal = row.destVal
           /\ \A h : LET new == [row EXCEPT !.hit = h]
                     IN /\ new.status = row.status /\ new.action = row.action /\ new.raw = row.raw /\ new.mid = row.mid
                        /\ new.srcUid = row.srcUid /\ new.srcVal = row.srcVal /\ new.undoOf = row.undoOf
                        /\ new.hit = h /\ new.destUid = row.destUid /\ new.destVal = row.destVal
           /\ LET new == [row EXCEPT !.old = TRUE]
              IN /\ new.status = row.status /\ new.action = row.action /\ new.raw = row.raw /\ new.mid = row.mid
                 /\ new.srcUid = row.srcUid /\ new.srcVal = row.srcVal /\ new.undoOf = row.undoOf
                 /\ new.hit = row.hit /\ new.destUid = row.destUid /\ new.destVal = row.destVal
BY DEF Row

\* The server's move notes a hit, and nothing else.
LEMMA UidMoveHits ==
    ASSUME TypeOK, NEW held, NEW from, NEW to, NEW moved \in SUBSET Msgs, NEW answer,
           UidMove(held, from, to, moved, answer), NEW r \in RowIds, rows[r].status # "free"
    PROVE  /\ SameSubject(r) /\ rows'[r].status = rows[r].status /\ SameDest(r)
           /\ IF r \in held /\ \E m \in moved : uid[m] = rows[r].srcUid
              THEN rows'[r].hit \in moved /\ uid[rows'[r].hit] = rows[r].srcUid
              ELSE rows'[r].hit = rows[r].hit
<1> DEFINE h == CHOOSE m \in moved : uid[m] = rows[r].srcUid
<1>1. rows[r] \in Row
  BY DEF TypeOK
<1>2. CASE r \in held /\ \E m \in moved : uid[m] = rows[r].srcUid
  <2>1. h \in moved /\ uid[h] = rows[r].srcUid
    BY <1>2
  <2>2. rows'[r] = [rows[r] EXCEPT !.hit = h]
    BY <1>2 DEF UidMove
  <2> HIDE DEF h
  <2> QED BY <1>1, <1>2, <2>1, <2>2, RowFields DEF SameSubject, SameDest
<1>3. CASE ~(r \in held /\ \E m \in moved : uid[m] = rows[r].srcUid)
  <2>1. rows'[r] = rows[r]
    BY <1>3 DEF UidMove
  <2> QED BY <1>3, <2>1 DEF SameSubject, SameDest
<1> QED BY <1>2, <1>3

LEMMA UnchangedRow ==
    ASSUME NEW r \in RowIds, rows[r].status # "free", rows'[r] = rows[r]
    PROVE  SameSubject(r) /\ SameFate(r)
BY DEF SameSubject, SameFate, SameDest

LEMMA RowMove ==
    ASSUME IInv, NEW t \in MoveTasks, MoveStep(t), NEW r \in RowIds, rows[r].status # "free"
    PROVE  SameSubject(r) /\ (SameFate(r) \/ FateByMove(t, r))
<1>0. TypeOK /\ rows[r] \in Row
  BY DEF IInv, TypeOK
<1>1. CASE rows'[r] = rows[r]
  BY <1>1, UnchangedRow
<1>2. CASE MoveInsert(t)
  BY <1>0, <1>1, <1>2 DEF MoveInsert, NextRow, TypeOK
<1>3. CASE MoveInsertFails(t) /\ rows'[r] # rows[r]
  <2>1. r \in mv[t].held /\ rows'[r] = [rows[r] EXCEPT !.status = "failed"]
    BY <1>3 DEF MoveInsertFails
  <2> QED BY <1>0, <1>3, <2>1, RowFields DEF SameSubject, SameDest, FateByMove
<1>4. CASE MoveSend(t)
  <2>1. PICK moved \in SUBSET Named(mv[t].held, "INBOX"), answer \in Answer \ {"none"} :
           UidMove(mv[t].held, "INBOX", "Trash", moved, answer)
    BY <1>4 DEF MoveSend
  <2>2. moved \in SUBSET Msgs
    BY DEF Named
  <2>3. /\ SameSubject(r) /\ rows'[r].status = rows[r].status /\ SameDest(r)
        /\ r \notin mv[t].held => rows'[r].hit = rows[r].hit
    BY <1>0, <2>1, <2>2, UidMoveHits
  <2> QED BY <1>4, <2>3 DEF FateByMove, SameFate
<1>5. CASE MoveRecord(t) /\ rows'[r] # rows[r]
  <2> DEFINE v == IF mv[t].dest[r] # 0 THEN mv[t].destVal ELSE 0
             u == mv[t].dest[r]
             s == mv[t].out[r]
  <2>1. /\ r \in mv[t].held
        /\ \/ rows'[r] = [rows[r] EXCEPT !.status = "succeeded", !.destUid = u, !.destVal = v] /\ s = "succeeded"
           \/ rows'[r] = [rows[r] EXCEPT !.status = s]
    BY <1>5 DEF MoveRecord
  <2>2. s \in {"succeeded", "failed", "unknown"}
    BY <1>0 DEF TypeOK, MoveJob
  <2>3. u # 0 => v = mv[t].destVal
    OBVIOUS
  <2> HIDE DEF v, u, s
  <2>4. CASE rows'[r] = [rows[r] EXCEPT !.status = "succeeded", !.destUid = u, !.destVal = v] /\ s = "succeeded"
    <3>1. SameSubject(r) /\ rows'[r].status = s /\ rows'[r].hit = rows[r].hit /\ rows'[r].destUid = u /\ rows'[r].destVal = v
      BY <1>0, <2>4, RowFields DEF SameSubject
    <3> QED BY <1>5, <2>1, <2>3, <3>1 DEF FateByMove, s, u
  <2>5. CASE rows'[r] = [rows[r] EXCEPT !.status = s]
    <3>1. SameSubject(r) /\ rows'[r].status = s /\ rows'[r].hit = rows[r].hit /\ SameDest(r)
      BY <1>0, <2>2, <2>5, RowFields DEF SameSubject, SameDest
    <3> QED BY <1>5, <2>1, <3>1 DEF FateByMove, s
  <2> QED BY <2>1, <2>4, <2>5
<1> QED BY <1>1, <1>2, <1>3, <1>4, <1>5
        DEF MoveStep, Scan, MoveAcquire, MoveConnect, MoveFetch, MoveHistory, MoveJudge, db

LEMMA RowUndo ==
    ASSUME IInv, NEW t \in UndoTasks, UndoStart(t) \/ UndoStep(t), NEW r \in RowIds, rows[r].status # "free"
    PROVE  SameSubject(r) /\ (SameFate(r) \/ FateByUndo(t, r))
<1>0. TypeOK /\ rows[r] \in Row /\ rows[r].status \in Status
  BY DEF IInv, TypeOK, Row
<1>1. CASE rows'[r] = rows[r]
  BY <1>1, UnchangedRow
<1>2. CASE UndoClaim(t) /\ rows'[r] # rows[r]
  <2>1. r = rs[t].orig /\ rows'[r] = [rows[r] EXCEPT !.status = "pending"]
    BY <1>0, <1>2 DEF UndoClaim, TypeOK
  <2>2. SameSubject(r) /\ rows'[r].status = "pending" /\ rows'[r].hit = rows[r].hit /\ SameDest(r)
    BY <1>0, <2>1, RowFields DEF SameSubject, SameDest
  <2> QED BY <1>2, <2>1, <2>2 DEF FateByUndo
<1>3. CASE UndoRelease(t) /\ rows'[r] # rows[r]
  <2>1. r = rs[t].orig /\ \E s \in {"succeeded", rows[r].status} : rows'[r] = [rows[r] EXCEPT !.status = s]
    BY <1>0, <1>3 DEF UndoRelease, TypeOK
  <2>2. PICK s \in {"succeeded", rows[r].status} : rows'[r] = [rows[r] EXCEPT !.status = s]
    BY <2>1
  <2>3. SameSubject(r) /\ rows'[r].status = s /\ rows'[r].hit = rows[r].hit /\ SameDest(r)
    BY <1>0, <2>2, RowFields DEF SameSubject, SameDest
  <2> QED BY <1>3, <2>1, <2>3 DEF FateByUndo
<1>4. CASE UndoInsert(t)
  BY <1>0, <1>1, <1>4 DEF UndoInsert, NextRow, TypeOK
<1>5. CASE UndoSend(t)
  <2>1. PICK moved \in SUBSET Named({rs[t].row}, "Trash"), answer \in Answer \ {"none"} :
           UidMove({rs[t].row}, "Trash", "INBOX", moved, answer)
    BY <1>5 DEF UndoSend
  <2>2. moved \in SUBSET Msgs
    BY DEF Named
  <2> DEFINE held == {rs[t].row}
  <2>3. r \notin held <=> r # rs[t].row
    OBVIOUS
  <2>4. UidMove(held, "Trash", "INBOX", moved, answer)
    BY <2>1
  <2> HIDE DEF held
  <2>5. /\ SameSubject(r) /\ rows'[r].status = rows[r].status /\ SameDest(r)
        /\ r \notin held => rows'[r].hit = rows[r].hit
    BY <1>0, <2>2, <2>4, UidMoveHits
  <2> QED BY <1>5, <2>3, <2>5 DEF FateByUndo, SameFate
<1>6. CASE UndoJudge(t) /\ rows'[r] # rows[r]
  <2>1. /\ r = rs[t].row
        /\ \/ rows'[r] = [rows[r] EXCEPT !.status = "unknown"]
           \/ rows'[r] = [rows[r] EXCEPT !.status = "failed", !.undoOf = 0]
    BY <1>0, <1>6 DEF UndoJudge, TypeOK
  <2>2. SameSubject(r) /\ rows'[r].hit = rows[r].hit /\ SameDest(r)
    <3>1. CASE rows'[r] = [rows[r] EXCEPT !.status = "unknown"]
      BY <1>0, <3>1, RowFields DEF SameSubject, SameDest
    <3>2. CASE rows'[r] = [rows[r] EXCEPT !.status = "failed", !.undoOf = 0]
      BY <1>0, <3>2, RowFields DEF SameSubject, SameDest
    <3> QED BY <2>1, <3>1, <3>2
  <2> QED BY <1>6, <2>1, <2>2 DEF FateByUndo
<1>7. CASE UndoRecord(t) /\ rows'[r] # rows[r]
  <2> DEFINE k == rs[t].row
             o == rs[t].orig
             got == rs[t].got
             val == IF rs[t].got = 0 THEN 0 ELSE rs[t].gotVal
  <2>0. rows' = [rows EXCEPT ![k].status = "succeeded", ![k].destUid = got,
                             ![k].destVal = val, ![o].status = "undone"]
    BY <1>7 DEF UndoRecord
  <2>1. k # o /\ (got # 0 => val = rs[t].gotVal)
    <3>1. pc[t] = "u_record"
      BY <1>7 DEF UndoRecord
    <3>2. rows[rs[t].row].action = "restore" /\ rows[rs[t].orig].action = "move"
      BY <3>1 DEF IInv, UndoInv, NotHeld, UndoPcs
    <3> QED BY <3>2
  <2> HIDE DEF k, o, got, val
  <2>2. \/ r = k /\ rows'[r] = [rows[r] EXCEPT !.status = "succeeded", !.destUid = got, !.destVal = val]
        \/ r = o /\ rows'[r] = [rows[r] EXCEPT !.status = "undone"]
    BY <1>0, <1>7, <2>0, <2>1 DEF TypeOK
  <2>3. CASE r = k /\ rows'[r] = [rows[r] EXCEPT !.status = "succeeded", !.destUid = got, !.destVal = val]
    <3>1. SameSubject(r) /\ rows'[r].hit = rows[r].hit /\ rows'[r].destUid = got /\ rows'[r].destVal = val
      BY <1>0, <2>3, RowFields DEF SameSubject
    <3> QED BY <1>7, <2>1, <2>3, <3>1 DEF FateByUndo, k, got
  <2>4. CASE r = o /\ rows'[r] = [rows[r] EXCEPT !.status = "undone"]
    <3>1. SameSubject(r) /\ rows'[r].status = "undone" /\ rows'[r].hit = rows[r].hit /\ SameDest(r)
      BY <1>0, <2>4, RowFields DEF SameSubject, SameDest
    <3> QED BY <1>7, <2>4, <3>1 DEF FateByUndo, o
  <2> QED BY <2>2, <2>3, <2>4
<1> QED BY <1>1, <1>2, <1>3, <1>4, <1>5, <1>6, <1>7 DEF UndoStart, UndoStep, UndoLocate, UndoRelink, db

LEMMA RowRec ==
    ASSUME IInv, NEW t \in RecTasks, RecStart(t) \/ RecStep(t), NEW r \in RowIds, rows[r].status # "free"
    PROVE  SameSubject(r) /\ (SameFate(r) \/ FateByRec(t, r))
<1>0. TypeOK /\ rows[r] \in Row
  BY DEF IInv, TypeOK
<1>1. CASE rows'[r] = rows[r]
  BY <1>1, UnchangedRow
<1>2. CASE RecWrite(t) /\ rows'[r] # rows[r]
  <2> DEFINE verdict == rc[t].verdict
             u == rc[t].uid
             v == rc[t].val
             was == rc[t].snap[rc[t].cur]
  <2>1. rows'[r] = Settled(rc[t], r)
    BY <1>2 DEF RecWrite
  <2>2. \/ /\ r = rc[t].cur
           /\ \/ verdict = "stayed" /\ rows'[r] = [rows[r] EXCEPT !.status = "failed"]
              \/ verdict = "stayed" /\ rows'[r] = [rows[r] EXCEPT !.status = "failed", !.undoOf = 0]
              \/ verdict # "stayed" /\ rows'[r] = [rows[r] EXCEPT !.status = "succeeded", !.destUid = u, !.destVal = v]
        \/ /\ r # rc[t].cur /\ r = was.undoOf /\ was.action = "restore"
           /\ \/ verdict = "stayed" /\ rows'[r] = [rows[r] EXCEPT !.status = "succeeded", !.destUid = u, !.destVal = v]
              \/ rows'[r] = [rows[r] EXCEPT !.status = "undone"]
    BY <1>2, <2>1 DEF Settled, MoveRowAfter, RestoreRowAfter, OriginalAfter
  <2> HIDE DEF verdict, u, v, was
  <2>3. ASSUME rows'[r] = [rows[r] EXCEPT !.status = "failed"] \/ rows'[r] = [rows[r] EXCEPT !.status = "failed", !.undoOf = 0]
        PROVE  SameSubject(r) /\ rows'[r].status = "failed" /\ rows'[r].hit = rows[r].hit /\ SameDest(r)
    <3>1. CASE rows'[r] = [rows[r] EXCEPT !.status = "failed"]
      BY <1>0, <3>1, RowFields DEF SameSubject, SameDest
    <3>2. CASE rows'[r] = [rows[r] EXCEPT !.status = "failed", !.undoOf = 0]
      BY <1>0, <3>2, RowFields DEF SameSubject, SameDest
    <3> QED BY <2>3, <3>1, <3>2
  <2>4. ASSUME rows'[r] = [rows[r] EXCEPT !.status = "succeeded", !.destUid = u, !.destVal = v]
        PROVE  /\ SameSubject(r) /\ rows'[r].status = "succeeded" /\ rows'[r].hit = rows[r].hit
               /\ rows'[r].destUid = u /\ rows'[r].destVal = v
    BY <1>0, <2>4, RowFields DEF SameSubject
  <2>5. ASSUME rows'[r] = [rows[r] EXCEPT !.status = "undone"]
        PROVE  SameSubject(r) /\ rows'[r].status = "undone" /\ rows'[r].hit = rows[r].hit /\ SameDest(r)
    BY <1>0, <2>5, RowFields DEF SameSubject, SameDest
  <2>6. SameSubject(r)
    BY <2>2, <2>3, <2>4, <2>5
  <2>7. CASE r = rc[t].cur
    BY <1>2, <2>2, <2>3, <2>4, <2>6, <2>7 DEF FateByRec, verdict, u, v
  <2>8. CASE r # rc[t].cur
    BY <1>2, <2>2, <2>4, <2>5, <2>6, <2>8 DEF FateByRec, verdict, u, v, was
  <2> QED BY <2>7, <2>8
<1> QED BY <1>1, <1>2 DEF RecStart, RecStep, RecSource, RecDest, db

\* Every step leaves a row's subject alone; only the jobs that have the row
\* in hand change what else it says.
LEMMA RowSteps ==
    ASSUME IInv, [Next]_vars, NEW r \in RowIds, rows[r].status # "free"
    PROVE  /\ SameSubject(r)
           /\ \/ SameFate(r)
              \/ \E t \in MoveTasks : FateByMove(t, r)
              \/ \E t \in UndoTasks : FateByUndo(t, r)
              \/ \E t \in RecTasks : FateByRec(t, r)
<1>0. rows[r] \in Row
  BY DEF IInv, TypeOK
<1>1. CASE rows'[r] = rows[r]
  BY <1>1, UnchangedRow
<1>2. CASE Age
  <2>1. rows'[r] = rows[r] \/ rows'[r] = [rows[r] EXCEPT !.old = TRUE]
    BY <1>2 DEF Age
  <2>2. CASE rows'[r] = [rows[r] EXCEPT !.old = TRUE]
    BY <1>0, <2>2, RowFields DEF SameSubject, SameFate, SameDest
  <2> QED BY <1>1, <2>1, <2>2
<1> QED BY <1>1, <1>2, RowMove, RowUndo, RowRec
      DEF Next, Request, Work, Environment, vars, db, ReadTrashed, Ingest, Deliver, HandMove, Purge, Arrive,
          ResetValidity, Crash

\* A new row is a move row of an apply, or the restore row of an undo.
NewMoveRow(t, r) ==
    /\ MoveInsert(t)
    /\ \E x \in mv[t].batch : rows'[r] = [FreeRow EXCEPT !.status = "pending", !.raw = x.raw,
                        !.srcUid = x.uid, !.srcVal = mv[t].val, !.mid = x.mid]
NewUndoRow(t, r) ==
    /\ UndoInsert(t)
    /\ rows'[r] = [FreeRow EXCEPT !.action = "restore",
                        !.status = "pending", !.raw = rows[rs[t].orig].raw, !.srcUid = rs[t].uid,
                        !.srcVal = rs[t].val, !.mid = rows[rs[t].orig].mid, !.undoOf = rs[t].orig]

LEMMA NewRows ==
    ASSUME IInv, [Next]_vars, NEW r \in RowIds, rows[r].status = "free"
    PROVE  \/ rows'[r] = rows[r]
           \/ \E t \in MoveTasks : NewMoveRow(t, r)
           \/ \E t \in UndoTasks : NewUndoRow(t, r)
<1>0. TypeOK
  BY DEF IInv
<1>1. ASSUME NEW t \in MoveTasks, MoveStep(t) PROVE rows'[r] = rows[r] \/ NewMoveRow(t, r)
  <2>1. \A q \in mv[t].held : rows[q].status = "pending"
    BY DEF IInv, HeldFresh
  <2>2. CASE MoveInsert(t) /\ rows' # rows
    <3>1. PICK x \in mv[t].batch, q \in RowIds :
             rows' = [rows EXCEPT ![q] = [FreeRow EXCEPT !.status = "pending", !.raw = x.raw,
                        !.srcUid = x.uid, !.srcVal = mv[t].val, !.mid = x.mid]]
      BY <2>2 DEF MoveInsert
    <3>2. CASE q = r
      <4>1. rows'[r] = [FreeRow EXCEPT !.status = "pending", !.raw = x.raw,
                        !.srcUid = x.uid, !.srcVal = mv[t].val, !.mid = x.mid]
        BY <1>0, <3>1, <3>2 DEF TypeOK
      <4> QED BY <2>2, <3>1, <4>1 DEF NewMoveRow
    <3>3. CASE q # r
      BY <1>0, <3>1, <3>3 DEF TypeOK
    <3> QED BY <3>2, <3>3
  <2>3. CASE MoveInsertFails(t) \/ MoveRecord(t)
    BY <2>1, <2>3 DEF MoveInsertFails, MoveRecord
  <2>4. CASE MoveSend(t)
    BY <2>1, <2>4 DEF MoveSend, UidMove
  <2> QED BY <1>1, <2>2, <2>3, <2>4
        DEF MoveStep, Scan, MoveAcquire, MoveConnect, MoveFetch, MoveHistory, MoveJudge, db
<1>2. ASSUME NEW t \in UndoTasks, UndoStart(t) \/ UndoStep(t) PROVE rows'[r] = rows[r] \/ NewUndoRow(t, r)
  <2>1. pc[t] \in UndoPcs => r # rs[t].orig
    BY DEF IInv, UndoInv, NotHeld
  <2>2. pc[t] \in UndoMove => r # rs[t].row
    BY DEF IInv, UndoInv, UndoMove, UndoPcs
  <2>3. CASE UndoInsert(t) /\ rows' # rows
    <3>1. PICK q \in RowIds :
             rows' = [rows EXCEPT ![q] = [FreeRow EXCEPT !.action = "restore",
                        !.status = "pending", !.raw = rows[rs[t].orig].raw, !.srcUid = rs[t].uid,
                        !.srcVal = rs[t].val, !.mid = rows[rs[t].orig].mid, !.undoOf = rs[t].orig]]
      BY <2>3 DEF UndoInsert
    <3>2. CASE q = r
      BY <1>0, <2>3, <3>1, <3>2 DEF TypeOK, NewUndoRow
    <3>3. CASE q # r
      BY <1>0, <3>1, <3>3 DEF TypeOK
    <3> QED BY <3>2, <3>3
  <2>4. CASE UndoClaim(t) \/ UndoRelease(t)
    BY <1>0, <2>1, <2>4 DEF UndoClaim, UndoRelease, UndoPcs, TypeOK
  <2>5. CASE UndoSend(t)
    BY <2>2, <2>5 DEF UndoSend, UidMove, UndoMove
  <2>6. CASE UndoJudge(t)
    BY <1>0, <2>2, <2>6 DEF UndoJudge, UndoMove, TypeOK
  <2>7. CASE UndoRecord(t)
    BY <1>0, <2>1, <2>2, <2>7 DEF UndoRecord, UndoMove, UndoPcs, TypeOK
  <2> QED BY <1>2, <2>3, <2>4, <2>5, <2>6, <2>7 DEF UndoStart, UndoStep, UndoLocate, UndoRelink, db
<1>3. ASSUME NEW t \in RecTasks, RecStart(t) \/ RecStep(t) PROVE rows'[r] = rows[r]
  <2>1. CASE RecWrite(t)
    <3>1. pc[t] \in RecPcs /\ rc[t].cur \in RecOf(t)
      BY <2>1 DEF RecWrite, RecPcs, RecOf
    <3>2. r # rc[t].cur /\ (rc[t].snap[rc[t].cur].undoOf # 0 => r # rc[t].snap[rc[t].cur].undoOf)
      BY <3>1 DEF IInv, RecInv, NotHeld
    <3>3. r # 0
      BY DEF RowIds
    <3> QED BY <2>1, <3>2, <3>3 DEF RecWrite, Settled
  <2> QED BY <1>3, <2>1 DEF RecStart, RecStep, RecSource, RecDest, db
<1>4. CASE Age
  BY <1>4 DEF Age
<1> QED BY <1>1, <1>2, <1>3, <1>4
      DEF Next, Request, Work, Environment, vars, db, ReadTrashed, Ingest, Deliver, HandMove, Purge, Arrive,
          ResetValidity, Crash

----------------------------------------------------------------------------
(* What the steps of an apply do to its locals.                            *)

\* From the SELECT of INBOX to the end of the run.
InApply == {"m_fetch", "m_history", "m_insert", "m_send", "m_judge", "m_record"}
SamePlan(t) == mv'[t].todo = mv[t].todo /\ mv'[t].val = mv[t].val
SameDests(t) == mv'[t].dest = mv[t].dest /\ mv'[t].destVal = mv[t].destVal
SameHeld(t) == mv'[t].held = mv[t].held /\ SameDests(t)

\* It is over; goes on before INBOX is selected; has chosen its targets; has
\* INBOX selected; begins a chunk; has fetched one.
Over(t) == pc'[t] = "idle" /\ mv'[t] = NoMoveJob
Waits(t) ==
    /\ pc[t] \in {"idle", "m_acquire"} /\ pc'[t] \in {"m_scan", "m_connect"}
    /\ mv'[t].todo = mv[t].todo /\ mv'[t].batch = mv[t].batch /\ SameHeld(t)
Chooses(t) ==
    /\ pc'[t] = "m_acquire" /\ mv'[t].batch = {} /\ mv'[t].held = {}
    /\ \E chosen \in SUBSET Eligible(t) : mv'[t].todo = {TargetOf(i) : i \in chosen}
Selects(t) ==
    /\ pc[t] = "m_connect" /\ pc'[t] = "m_fetch" /\ mv'[t].val = validity["INBOX"]
    /\ mv'[t].todo = mv[t].todo /\ mv'[t].batch = mv[t].batch /\ SameHeld(t)
Proceeds(t) ==
    /\ pc[t] \in InApply /\ pc'[t] = "m_fetch" /\ SamePlan(t) /\ mv'[t].batch = {} /\ mv'[t].held = {}
Fetches(t) ==
    /\ pc[t] = "m_fetch" /\ pc'[t] = "m_history" /\ SameHeld(t)
    /\ mv'[t].val = mv[t].val /\ mv'[t].todo \subseteq mv[t].todo
    /\ \A y \in mv'[t].batch : \E x \in mv[t].todo : Confirmed(x, mv[t].val) /\ y = WithMid(x)
\* It has the targets to write rows for; writes a row, or finds one that is
\* refused; sends; judges.
Checks(t) ==
    /\ pc[t] = "m_history" /\ pc'[t] = "m_insert"
    /\ SamePlan(t) /\ SameHeld(t) /\ mv'[t].batch \subseteq mv[t].batch
WritesRow(t, x, r) ==
    /\ x \in mv[t].batch /\ r \in RowIds /\ rows[r].status = "free"
    /\ mv'[t].held = mv[t].held \cup {r} /\ SameDests(t)
    /\ rows' = [rows EXCEPT ![r] = [FreeRow EXCEPT !.status = "pending", !.raw = x.raw,
                        !.srcUid = x.uid, !.srcVal = mv[t].val, !.mid = x.mid]]
Inserts(t) ==
    /\ pc[t] = "m_insert" /\ pc'[t] \in {"m_insert", "m_send"}
    /\ SamePlan(t) /\ mv'[t].batch \subseteq mv[t].batch
    /\ (SameHeld(t) /\ rows' = rows) \/ \E x \in mv[t].batch, r \in RowIds : WritesRow(t, x, r)
Sends(t) ==
    /\ pc[t] = "m_send" /\ pc'[t] = "m_judge" /\ SamePlan(t)
    /\ mv'[t].batch = mv[t].batch /\ mv'[t].held = mv[t].held /\ mv'[t].destVal = validity["Trash"]
    /\ \E moved \in SUBSET Named(mv[t].held, "INBOX"), answer \in Answer \ {"none"} :
         /\ UidMove(mv[t].held, "INBOX", "Trash", moved, answer) /\ mv'[t].answer = answer
         /\ \A r \in RowIds : mv'[t].dest[r] = CopyUid(r, mv[t].held, "Trash", moved, answer)
Judges(t) ==
    /\ pc[t] = "m_judge" /\ pc'[t] = "m_record" /\ SamePlan(t)
    /\ mv'[t].batch = mv[t].batch /\ SameHeld(t)
    /\ \A r \in RowIds : mv'[t].out[r] \in {Outcome(mv[t], r), "unknown"}

LEMMA ApplyEarly ==
    ASSUME TypeOK, NEW t \in MoveTasks, ReadTrashed(t) \/ Scan(t) \/ MoveAcquire(t) \/ MoveConnect(t)
    PROVE  Over(t) \/ Waits(t) \/ Chooses(t) \/ Selects(t)
<1>0. t \in Tasks /\ mv[t] \in MoveJob
  BY DEF TypeOK, Tasks
<1>1. CASE Forget(t)
  BY <1>0, <1>1, ForgetGoes DEF Forget, Over
<1>2. CASE ReadTrashed(t)
  <2>1. PICK a, b : mv' = [mv EXCEPT ![t].undone = a, ![t].seen = b]
    BY <1>2 DEF ReadTrashed
  <2>2. mv'[t].todo = mv[t].todo /\ mv'[t].batch = mv[t].batch /\ SameHeld(t)
    BY <1>0, <2>1 DEF TypeOK, MoveJob, SameHeld, SameDests
  <2> QED BY <1>0, <1>2, <2>2, GoesTo DEF ReadTrashed, Waits
<1>3. CASE Scan(t) /\ ~Forget(t)
  <2>1. PICK chosen \in SUBSET Eligible(t) :
           mv' = [mv EXCEPT ![t] = [NoMoveJob EXCEPT !.todo = {TargetOf(i) : i \in chosen}]] /\ Goto(t, "m_acquire")
    BY <1>3 DEF Scan
  <2>2. PICK targets : targets = {TargetOf(i) : i \in chosen}
    OBVIOUS
  <2>3. mv'[t].todo = targets /\ mv'[t].batch = {} /\ mv'[t].held = {}
    BY <1>0, <2>1, <2>2 DEF TypeOK, NoMoveJob
  <2> QED BY <1>0, <2>1, <2>2, <2>3, GoesTo DEF Chooses
<1>4. CASE MoveAcquire(t) /\ ~Forget(t)
  BY <1>0, <1>4, GoesTo DEF MoveAcquire, Waits, SameHeld, SameDests
<1>5. CASE MoveConnect(t) /\ ~Forget(t)
  <2>1. mv' = [mv EXCEPT ![t].val = validity["INBOX"]] /\ Goto(t, "m_fetch") /\ pc[t] = "m_connect"
    BY <1>5 DEF MoveConnect, Leave
  <2>2. mv'[t].val = validity["INBOX"] /\ mv'[t].todo = mv[t].todo /\ mv'[t].batch = mv[t].batch /\ SameHeld(t)
    BY <1>0, <2>1 DEF TypeOK, MoveJob, SameHeld, SameDests
  <2> QED BY <1>0, <2>1, <2>2, GoesTo DEF Selects
<1> QED BY <1>1, <1>2, <1>3, <1>4, <1>5

LEMMA ChunkNotes ==
    ASSUME TypeOK, NEW t \in MoveTasks, NEW j, j.todo = mv[t].todo, j.val = mv[t].val, NextChunk(t, j), pc[t] \in InApply
    PROVE  Over(t) \/ Proceeds(t)
<1>0. t \in Tasks /\ mv[t] \in MoveJob
  BY DEF TypeOK, Tasks
<1>1. CASE Forget(t)
  BY <1>0, <1>1, ForgetGoes DEF Forget, Over
<1>2. CASE ~Forget(t)
  <2>1. Goto(t, "m_fetch") /\ mv' = [mv EXCEPT ![t] = [NoMoveJob EXCEPT !.todo = j.todo, !.val = j.val]]
    BY <1>2 DEF NextChunk, Leave
  <2>2. SamePlan(t) /\ mv'[t].batch = {} /\ mv'[t].held = {}
    BY <1>0, <2>1 DEF TypeOK, NoMoveJob, SamePlan
  <2> QED BY <1>0, <2>1, <2>2, GoesTo DEF Proceeds
<1> QED BY <1>1, <1>2

LEMMA ApplyFetches ==
    ASSUME TypeOK, NEW t \in MoveTasks, MoveFetch(t)
    PROVE  Over(t) \/ Fetches(t)
<1>0. t \in Tasks /\ mv[t] \in MoveJob
  BY DEF TypeOK, Tasks
<1>1. CASE Forget(t)
  BY <1>0, <1>1, ForgetGoes DEF Forget, Over
<1>2. CASE ~Forget(t)
  <2>1. PICK b \in SUBSET mv[t].todo :
          LET ok == {x \in b : Confirmed(x, mv[t].val)}
          IN /\ mv' = [mv EXCEPT ![t].todo = @ \ b, ![t].batch = {WithMid(x) : x \in ok}, ![t].skip = {x.raw : x \in b \ ok}]
             /\ Goto(t, "m_history")
    BY <1>2 DEF MoveFetch, Leave
  <2>2. PICK ok, batch, skip : ok = {x \in b : Confirmed(x, mv[t].val)} /\ batch = {WithMid(x) : x \in ok}
               /\ mv' = [mv EXCEPT ![t].todo = @ \ b, ![t].batch = batch, ![t].skip = skip]
    BY <2>1
  <2>3. mv'[t].todo = mv[t].todo \ b /\ mv'[t].batch = batch /\ mv'[t].val = mv[t].val /\ SameHeld(t)
    BY <1>0, <2>2 DEF TypeOK, MoveJob, SameHeld, SameDests
  <2>4. \A y \in batch : \E x \in mv[t].todo : Confirmed(x, mv[t].val) /\ y = WithMid(x)
    BY <2>2
  <2> QED BY <1>0, <2>1, <2>3, <2>4, GoesTo DEF Fetches, MoveFetch
<1> QED BY <1>1, <1>2

LEMMA ApplyChecks ==
    ASSUME TypeOK, NEW t \in MoveTasks, MoveHistory(t)
    PROVE  Over(t) \/ Proceeds(t) \/ Checks(t)
<1>0. t \in Tasks /\ mv[t] \in MoveJob /\ pc[t] = "m_history"
  BY DEF TypeOK, Tasks, MoveHistory
<1>1. CASE Forget(t)
  BY <1>0, <1>1, ForgetGoes DEF Forget, Over
<1>2. CASE NextChunk(t, mv[t])
  BY <1>0, <1>2, ChunkNotes DEF InApply
<1>3. CASE ~Forget(t) /\ ~NextChunk(t, mv[t])
  <2> DEFINE free == {x \in mv[t].batch : ~ActiveMoveOf(x.raw, x.uid, mv[t].val)}
             left == free \ {x \in free : PreviouslyTrashed(x)}
  <2>0. mv' = [mv EXCEPT ![t].batch = left, ![t].skip = {}] /\ Goto(t, "m_insert")
    BY <1>3 DEF MoveHistory, Leave
  <2>1. PICK rest \in SUBSET mv[t].batch :
           mv' = [mv EXCEPT ![t].batch = rest, ![t].skip = {}] /\ Goto(t, "m_insert")
    <3>1. left \in SUBSET mv[t].batch
      OBVIOUS
    <3> HIDE DEF left
    <3> QED BY <2>0, <3>1
  <2>2. mv'[t].batch = rest /\ SamePlan(t) /\ SameHeld(t)
    BY <1>0, <2>1 DEF TypeOK, MoveJob, SamePlan, SameHeld, SameDests
  <2> QED BY <1>0, <2>1, <2>2, GoesTo DEF Checks
<1> QED BY <1>1, <1>2, <1>3

LEMMA ApplyInserts ==
    ASSUME TypeOK, NEW t \in MoveTasks, MoveInsert(t)
    PROVE  Over(t) \/ Proceeds(t) \/ Inserts(t)
<1>0. t \in Tasks /\ mv[t] \in MoveJob /\ pc[t] = "m_insert"
  BY DEF TypeOK, Tasks, MoveInsert
<1>1. CASE Forget(t)
  BY <1>0, <1>1, ForgetGoes DEF Forget, Over
<1>2. CASE NextChunk(t, mv[t])
  BY <1>0, <1>2, ChunkNotes DEF InApply
<1>3. CASE ~Forget(t) /\ ~NextChunk(t, mv[t])
  <2>1. PICK x \in mv[t].batch :
          \/ /\ \E r \in RowIds :
                  /\ NextRow(r)
                  /\ rows' = [rows EXCEPT ![r] = [FreeRow EXCEPT !.status = "pending", !.raw = x.raw,
                        !.srcUid = x.uid, !.srcVal = mv[t].val, !.mid = x.mid]]
                  /\ mv' = [mv EXCEPT ![t].batch = mv[t].batch \ {x}, ![t].held = @ \cup {r}]
             /\ Goto(t, IF mv[t].batch \ {x} = {} THEN "m_send" ELSE "m_insert")
          \/ /\ rows' = rows /\ mv' = [mv EXCEPT ![t].batch = mv[t].batch \ {x}]
             /\ Goto(t, IF mv[t].batch \ {x} = {} THEN "m_send" ELSE "m_insert")
    BY <1>3 DEF MoveInsert, Leave
  <2>2. PICK label \in {"m_insert", "m_send"} : Goto(t, label)
    BY <2>1
  <2>3. pc'[t] \in {"m_insert", "m_send"}
    BY <1>0, <2>2, GoesTo
  <2>4. CASE \E r \in RowIds :
                  /\ NextRow(r)
                  /\ rows' = [rows EXCEPT ![r] = [FreeRow EXCEPT !.status = "pending", !.raw = x.raw,
                        !.srcUid = x.uid, !.srcVal = mv[t].val, !.mid = x.mid]]
                  /\ mv' = [mv EXCEPT ![t].batch = mv[t].batch \ {x}, ![t].held = @ \cup {r}]
    <3>0. PICK left : left = mv[t].batch \ {x}
      OBVIOUS
    <3>1. PICK r \in RowIds :
                  /\ NextRow(r)
                  /\ rows' = [rows EXCEPT ![r] = [FreeRow EXCEPT !.status = "pending", !.raw = x.raw,
                        !.srcUid = x.uid, !.srcVal = mv[t].val, !.mid = x.mid]]
                  /\ mv' = [mv EXCEPT ![t].batch = left, ![t].held = @ \cup {r}]
      BY <2>4, <3>0
    <3>2. mv'[t].batch = left /\ mv'[t].held = mv[t].held \cup {r} /\ SamePlan(t) /\ SameDests(t)
      BY <1>0, <3>1 DEF TypeOK, MoveJob, SamePlan, SameDests
    <3>3. WritesRow(t, x, r)
      BY <3>1, <3>2 DEF WritesRow, NextRow
    <3> QED BY <1>0, <2>3, <3>0, <3>1, <3>2, <3>3 DEF Inserts
  <2>5. CASE rows' = rows /\ mv' = [mv EXCEPT ![t].batch = mv[t].batch \ {x}]
    <3>1. PICK left : left = mv[t].batch \ {x} /\ mv' = [mv EXCEPT ![t].batch = left]
      BY <2>5
    <3>2. mv'[t].batch = left /\ SamePlan(t) /\ SameHeld(t)
      BY <1>0, <3>1 DEF TypeOK, MoveJob, SamePlan, SameHeld, SameDests
    <3> QED BY <1>0, <2>3, <2>5, <3>1, <3>2 DEF Inserts
  <2> QED BY <2>1, <2>4, <2>5
<1> QED BY <1>1, <1>2, <1>3

LEMMA ApplySends ==
    ASSUME TypeOK, NEW t \in MoveTasks, MoveSend(t)
    PROVE  Sends(t)
<1>0. t \in Tasks /\ mv[t] \in MoveJob /\ pc[t] = "m_send" /\ pc'[t] = "m_judge"
  BY GoesTo DEF TypeOK, Tasks, MoveSend
<1>1. PICK moved \in SUBSET Named(mv[t].held, "INBOX"), answer \in Answer \ {"none"} :
         /\ UidMove(mv[t].held, "INBOX", "Trash", moved, answer)
         /\ mv' = [mv EXCEPT ![t].answer = answer, ![t].destVal = validity["Trash"],
                ![t].dest = [r \in RowIds |-> CopyUid(r, mv[t].held, "Trash", moved, answer)]]
  BY DEF MoveSend
<1>2. PICK dest : dest = [r \in RowIds |-> CopyUid(r, mv[t].held, "Trash", moved, answer)]
  OBVIOUS
<1>3. mv' = [mv EXCEPT ![t].answer = answer, ![t].destVal = validity["Trash"], ![t].dest = dest]
  BY <1>1, <1>2
<1>4. /\ SamePlan(t) /\ mv'[t].batch = mv[t].batch /\ mv'[t].held = mv[t].held
      /\ mv'[t].destVal = validity["Trash"] /\ mv'[t].answer = answer /\ mv'[t].dest = dest
  BY <1>0, <1>3 DEF TypeOK, MoveJob, SamePlan
<1>5. \A r \in RowIds : mv'[t].dest[r] = CopyUid(r, mv[t].held, "Trash", moved, answer)
  BY <1>2, <1>4
<1> QED BY <1>0, <1>1, <1>4, <1>5 DEF Sends

LEMMA ApplyJudges ==
    ASSUME TypeOK, NEW t \in MoveTasks, MoveJudge(t)
    PROVE  Judges(t)
<1>0. t \in Tasks /\ mv[t] \in MoveJob /\ pc[t] = "m_judge" /\ pc'[t] = "m_record"
  BY GoesTo DEF TypeOK, Tasks, MoveJudge
<1>1. PICK out :
         /\ mv' = [mv EXCEPT ![t].out = out]
         /\ \/ out = [r \in RowIds |-> Outcome(mv[t], r)]
            \/ out = [r \in RowIds |-> "unknown"]
  BY DEF MoveJudge
<1>2. mv'[t].out = out /\ SamePlan(t) /\ mv'[t].batch = mv[t].batch /\ SameHeld(t)
  BY <1>0, <1>1 DEF TypeOK, MoveJob, SamePlan, SameHeld, SameDests
<1> QED BY <1>0, <1>1, <1>2 DEF Judges

\* An apply stays as it is, or is over, or does one of these.
LEMMA ApplySteps ==
    ASSUME TypeOK, [Next]_vars, NEW t \in MoveTasks
    PROVE  \/ pc'[t] = pc[t] /\ mv'[t] = mv[t]
           \/ Over(t) \/ Waits(t) \/ Chooses(t) \/ Selects(t) \/ Proceeds(t) \/ Fetches(t)
           \/ Checks(t) \/ (MoveInsert(t) /\ Inserts(t)) \/ (MoveSend(t) /\ Sends(t)) \/ Judges(t)
<1>0. t \in Tasks
  BY DEF Tasks
<1>1. CASE SameJob(t) \/ Dead(t)
  BY <1>1 DEF SameJob, Dead, Over
<1>2. CASE MoveInsertFails(t)
  BY <1>0, <1>2, ForgetGoes DEF MoveInsertFails, Leave, Forget, Over
<1>3. CASE MoveRecord(t)
  <2>1. CASE Forget(t)
    BY <1>0, <2>1, ForgetGoes DEF Forget, Over
  <2>2. CASE NextChunk(t, mv[t])
    BY <1>3, <2>2, ChunkNotes DEF MoveRecord, InApply
  <2> QED BY <1>3, <2>1, <2>2 DEF MoveRecord, Leave
<1>4. CASE OwnStep(t)
  BY <1>2, <1>3, <1>4, Kinds, ApplyEarly, ApplyFetches, ApplyChecks, ApplyInserts, ApplySends, ApplyJudges
     DEF OwnStep, MoveStep
<1> QED BY <1>0, <1>1, <1>4, Owners

----------------------------------------------------------------------------
(* What a UID MOVE leaves behind: the UIDs of the rows it was sent for.    *)

LEMMA PlaceNamed ==
    ASSUME UidInv, NEW m \in Msgs, NEW f \in Folders, box[m] = f, validity[f] \in Nat
    PROVE  uid[m] > 0 /\ Holds(f, uid[m], validity[f], {m})
BY DEF UidInv, Holds

\* The source UIDs of the messages that moved name nothing any more, their
\* new UIDs name them.
LEMMA MovedAway ==
    ASSUME TypeOK, TypeOK', UidInv, UidInv', NEW held, NEW from \in Folders, NEW to \in Folders \ {from},
           NEW moved \in SUBSET Named(held, from), NEW answer, UidMove(held, from, to, moved, answer),
           NEW m \in moved
    PROVE  /\ \A u \in Nat, v \in Nat : u = uid[m] /\ v <= validity[from] => Holds(from, u, v, {})'
           /\ uid'[m] > 0 /\ Holds(to, uid[m], validity[to], {m})'
<1>1. /\ moved \subseteq Msgs /\ \A n \in moved : box[n] = from
      /\ m \in Msgs /\ box[m] = from
  BY DEF Named
<1>2. /\ validity' = validity /\ \A f \in Folders : validity[f] \in Nat
      /\ nextUid'[from] = nextUid[from] /\ nextUid[from] \in Nat
      /\ \A n \in Msgs : box'[n] = IF n \in moved THEN to ELSE box[n]
      /\ \A n \in Msgs \ moved : uid'[n] = uid[n]
  BY <1>1 DEF UidMove, TypeOK, Renumbered
<1>3. uid[m] < nextUid[from]
  BY <1>1 DEF UidInv
<1>4. ASSUME NEW n \in Msgs, box'[n] = from, uid'[n] = uid[m] PROVE FALSE
  <2>1. n \notin moved /\ box[n] = from /\ uid[n] = uid[m]
    BY <1>2, <1>4
  <2> QED BY <1>1, <2>1 DEF UidInv
<1>5. uid'[m] > 0 /\ uid'[m] < nextUid'[to] /\ box'[m] = to
  BY <1>1, <1>2 DEF UidInv
<1>6. \A n \in Msgs : box'[n] = to /\ uid'[n] = uid'[m] => n = m
  BY <1>1, <1>5 DEF UidInv
<1> QED BY <1>2, <1>3, <1>4, <1>5, <1>6 DEF Holds

\* Of a row of the MOVE: what it notes, and what COPYUID says of it.
LEMMA SentRow ==
    ASSUME TypeOK, TypeOK', UidInv, UidInv', NEW held, NEW from \in Folders, NEW to \in Folders \ {from},
           NEW moved \in SUBSET Named(held, from), NEW answer, UidMove(held, from, to, moved, answer),
           NEW r \in RowIds, rows[r].status # "free", NEW copied, copied = CopyUid(r, held, to, moved, answer)
    PROVE  \/ /\ rows'[r].hit = rows[r].hit /\ copied = 0
              /\ r \notin held \/ \A m \in moved : uid[m] # rows[r].srcUid
           \/ /\ r \in held
              /\ \E h \in moved : rows'[r].hit = h /\ uid[h] = rows[r].srcUid
                                  /\ copied = IF answer = "copyuid" THEN uid'[h] ELSE 0
<1>0. moved \in SUBSET Msgs /\ \A n \in moved : box[n] = from
  BY DEF Named
<1>1. CASE r \in held /\ \E m \in moved : uid[m] = rows[r].srcUid
  <2>1. PICK h : h = rows'[r].hit /\ h \in moved /\ uid[h] = rows[r].srcUid
    BY <1>0, <1>1, UidMoveHits
  <2>2. PICK c : c = CHOOSE m \in moved : uid[m] = rows[r].srcUid
    OBVIOUS
  <2>3. c \in moved /\ uid[c] = rows[r].srcUid
    BY <1>1, <2>2
  <2>4. c = h
    BY <1>0, <2>1, <2>3 DEF UidInv
  <2>5. copied = IF answer = "copyuid" THEN uid'[h] ELSE 0
    BY <1>1, <2>2, <2>4 DEF CopyUid, UidMove
  <2> QED BY <1>1, <2>1, <2>5
<1>2. CASE ~(r \in held /\ \E m \in moved : uid[m] = rows[r].srcUid)
  <2>1. rows'[r].hit = rows[r].hit
    BY <1>0, <1>2, UidMoveHits
  <2> QED BY <1>2, <2>1 DEF CopyUid
<1> QED BY <1>1, <1>2

----------------------------------------------------------------------------
(* What the steps of an undo do to its locals.                             *)

SameOriginal(t) == rs'[t].orig = rs[t].orig /\ rs'[t].destUid = rs[t].destUid /\ rs'[t].destVal = rs[t].destVal
SamePlace(t) == rs'[t].uid = rs[t].uid /\ rs'[t].val = rs[t].val
SameGot(t) == rs'[t].got = rs[t].got /\ rs'[t].gotVal = rs[t].gotVal

\* It begins; goes on without a change; has found the message in Trash; has
\* written its row; has sent; has looked the restored message up.
Begins(t) == pc'[t] = "u_claim" /\ \E o \in RowIds :
    /\ rows[o].action = "move" /\ rows[o].status = "succeeded" /\ rs'[t].orig = o
    /\ rs'[t].destUid = rows[o].destUid /\ rs'[t].destVal = rows[o].destVal /\ rs'[t].got = 0
GoesForth(t) ==
    /\ \/ pc[t] = "u_claim" /\ pc'[t] = "u_locate"
       \/ pc[t] \in {"u_locate", "u_insert", "u_judge"} /\ pc'[t] = "u_release"
       \/ pc[t] = "u_judge" /\ pc'[t] = "u_record"
       \/ pc[t] = "u_record" /\ pc'[t] = "u_relink"
    /\ rs'[t] = rs[t]
Locates(t) ==
    /\ pc[t] = "u_locate" /\ pc'[t] = "u_insert" /\ SameOriginal(t) /\ SameGot(t)
    /\ rs'[t].uid # 0 /\ Located(rs[t], rows[rs[t].orig].mid, rs'[t].uid) /\ rs'[t].val = validity["Trash"]
Rows(t) ==
    /\ pc[t] = "u_insert" /\ pc'[t] = "u_send" /\ SameOriginal(t) /\ SamePlace(t) /\ SameGot(t)
    /\ \E r \in RowIds :
         /\ rs'[t].row = r /\ rows[r].status = "free"
         /\ rows' = [rows EXCEPT ![r] = [FreeRow EXCEPT !.action = "restore",
                        !.status = "pending", !.raw = rows[rs[t].orig].raw, !.srcUid = rs[t].uid,
                        !.srcVal = rs[t].val, !.mid = rows[rs[t].orig].mid, !.undoOf = rs[t].orig]]
SendsBack(t) ==
    /\ pc[t] = "u_send" /\ pc'[t] = "u_judge" /\ SameOriginal(t) /\ SamePlace(t) /\ rs'[t].row = rs[t].row
    /\ rs'[t].gotVal = validity["INBOX"]
    /\ \E moved \in SUBSET Named({rs[t].row}, "Trash"), answer \in Answer \ {"none"} :
         /\ UidMove({rs[t].row}, "Trash", "INBOX", moved, answer)
         /\ rs'[t].got = CopyUid(rs[t].row, {rs[t].row}, "INBOX", moved, answer)
LooksUp(t) ==
    /\ pc[t] = "u_judge" /\ pc'[t] = "u_record" /\ SameOriginal(t) /\ SamePlace(t) /\ rs'[t].row = rs[t].row
    /\ Found("INBOX", rows[rs[t].row].mid, rs'[t].got) /\ rs'[t].gotVal = validity["INBOX"]

LEMMA UndoNotes ==
    ASSUME TypeOK, NEW t \in UndoTasks, UndoStart(t) \/ UndoStep(t), pc'[t] \in UndoPcs
    PROVE  Begins(t) \/ GoesForth(t) \/ Locates(t) \/ Rows(t) \/ (UndoSend(t) /\ SendsBack(t)) \/ LooksUp(t)
<1>0. t \in Tasks /\ rs[t] \in UndoJob /\ ~Forget(t) /\ ~Leave(t)
  BY ForgetGoes DEF TypeOK, Tasks, UndoPcs, Leave
<1>1. CASE UndoStart(t)
  <2>0. PICK o \in RowIds :
           /\ rows[o].action = "move" /\ rows[o].status = "succeeded"
           /\ rs' = [rs EXCEPT ![t] = [NoUndoJob EXCEPT !.orig = o,
                      !.destUid = rows[o].destUid, !.destVal = rows[o].destVal]]
    BY <1>1 DEF UndoStart
  <2>1. PICK u, v : /\ u = rows[o].destUid /\ v = rows[o].destVal
                    /\ rs' = [rs EXCEPT ![t] = [NoUndoJob EXCEPT !.orig = o, !.destUid = u, !.destVal = v]]
    BY <2>0
  <2>2. rs'[t].orig = o /\ rs'[t].destUid = u /\ rs'[t].destVal = v /\ rs'[t].got = 0
    BY <1>0, <2>1 DEF TypeOK, NoUndoJob
  <2>3. pc'[t] = "u_claim"
    BY <1>0, <1>1, GoesTo DEF UndoStart
  <2> QED BY <2>0, <2>1, <2>2, <2>3 DEF Begins
<1>2. CASE UndoClaim(t) \/ UndoRecord(t)
  BY <1>0, <1>2, GoesTo DEF UndoClaim, UndoRecord, GoesForth
<1>3. CASE UndoLocate(t)
  <2>1. CASE Goto(t, "u_release") /\ rs' = rs
    BY <1>0, <1>3, <2>1, GoesTo DEF UndoLocate, GoesForth
  <2>2. ASSUME NEW u, u # 0, Located(rs[t], rows[rs[t].orig].mid, u), Goto(t, "u_insert"),
               rs' = [rs EXCEPT ![t].uid = u, ![t].val = validity["Trash"]]
        PROVE  Locates(t)
    <3>1. rs'[t].uid = u /\ rs'[t].val = validity["Trash"] /\ SameOriginal(t) /\ SameGot(t)
      BY <1>0, <2>2 DEF TypeOK, UndoJob, SameOriginal, SameGot
    <3> QED BY <1>0, <1>3, <2>2, <3>1, GoesTo DEF UndoLocate, Locates
  <2> QED BY <1>3, <2>1, <2>2 DEF UndoLocate
<1>4. CASE UndoInsert(t)
  <2>1. CASE Goto(t, "u_release") /\ rs' = rs
    BY <1>0, <1>4, <2>1, GoesTo DEF UndoInsert, GoesForth
  <2>2. CASE ~(Goto(t, "u_release") /\ rs' = rs)
    <3>1. PICK r \in RowIds :
           /\ NextRow(r) /\ Goto(t, "u_send") /\ rs' = [rs EXCEPT ![t].row = r]
           /\ rows' = [rows EXCEPT ![r] = [FreeRow EXCEPT !.action = "restore",
                        !.status = "pending", !.raw = rows[rs[t].orig].raw, !.srcUid = rs[t].uid,
                        !.srcVal = rs[t].val, !.mid = rows[rs[t].orig].mid, !.undoOf = rs[t].orig]]
      BY <1>4, <2>2 DEF UndoInsert
    <3>2. rs'[t].row = r /\ SameOriginal(t) /\ SamePlace(t) /\ SameGot(t)
      BY <1>0, <3>1 DEF TypeOK, UndoJob, SameOriginal, SamePlace, SameGot
    <3> QED BY <1>0, <1>4, <3>1, <3>2, GoesTo DEF UndoInsert, Rows, NextRow
  <2> QED BY <2>1, <2>2
<1>5. CASE UndoSend(t)
  <2>1. PICK moved \in SUBSET Named({rs[t].row}, "Trash"), answer \in Answer \ {"none"} :
         /\ UidMove({rs[t].row}, "Trash", "INBOX", moved, answer)
         /\ rs' = [rs EXCEPT ![t].answer = answer, ![t].gotVal = validity["INBOX"],
                ![t].got = CopyUid(rs[t].row, {rs[t].row}, "INBOX", moved, answer)]
    BY <1>5 DEF UndoSend
  <2>2. PICK got : got = CopyUid(rs[t].row, {rs[t].row}, "INBOX", moved, answer)
    OBVIOUS
  <2>3. rs' = [rs EXCEPT ![t].answer = answer, ![t].gotVal = validity["INBOX"], ![t].got = got]
    BY <2>1, <2>2
  <2>4. /\ rs'[t].got = got /\ rs'[t].gotVal = validity["INBOX"] /\ SameOriginal(t) /\ SamePlace(t)
        /\ rs'[t].row = rs[t].row
    BY <1>0, <2>3 DEF TypeOK, UndoJob, SameOriginal, SamePlace
  <2>5. pc[t] = "u_send" /\ pc'[t] = "u_judge"
    BY <1>0, <1>5, GoesTo DEF UndoSend
  <2> QED BY <1>5, <2>1, <2>2, <2>4, <2>5 DEF SendsBack
<1>6. CASE UndoJudge(t)
  <2>0. pc[t] = "u_judge"
    BY <1>6 DEF UndoJudge
  <2>1. CASE rs' = rs
    BY <1>0, <1>6, <2>1, GoesTo DEF UndoJudge, GoesForth
  <2>2. CASE rs' # rs
    <3>1. PICK u : /\ Found("INBOX", rows[rs[t].row].mid, u) /\ Goto(t, "u_record")
                   /\ rs' = [rs EXCEPT ![t].got = u, ![t].gotVal = validity["INBOX"]]
      BY <1>0, <1>6, <2>2 DEF UndoJudge
    <3>2. /\ rs'[t].got = u /\ rs'[t].gotVal = validity["INBOX"] /\ SameOriginal(t) /\ SamePlace(t)
          /\ rs'[t].row = rs[t].row
      BY <1>0, <3>1 DEF TypeOK, UndoJob, SameOriginal, SamePlace
    <3> QED BY <1>0, <2>0, <3>1, <3>2, GoesTo DEF LooksUp
  <2> QED BY <2>1, <2>2
<1>7. CASE UndoRelink(t) \/ UndoRelease(t)
  BY <1>0, <1>7 DEF UndoRelink, UndoRelease
<1> QED BY <1>1, <1>2, <1>3, <1>4, <1>5, <1>6, <1>7 DEF UndoStep

\* A running undo stays as it is, or does one of these.
LEMMA UndoSteps ==
    ASSUME IInv, [Next]_vars, NEW t \in UndoTasks, pc'[t] \in UndoPcs
    PROVE  \/ pc'[t] = pc[t] /\ rs'[t] = rs[t]
           \/ Begins(t) \/ GoesForth(t) \/ Locates(t) \/ (UndoInsert(t) /\ Rows(t))
           \/ (UndoSend(t) /\ SendsBack(t)) \/ LooksUp(t)
<1>0. TypeOK /\ t \in Tasks /\ "idle" \notin UndoPcs
  BY DEF IInv, Tasks, UndoPcs
<1>1. CASE SameJob(t) \/ Dead(t)
  BY <1>0, <1>1 DEF SameJob, Dead
<1>2. CASE OwnStep(t)
  <2>1. UndoStart(t) \/ UndoStep(t)
    BY <1>2, Kinds DEF OwnStep
  <2>2. Rows(t) => UndoInsert(t)
    BY <2>1 DEF Rows, UndoStart, UndoStep, UndoClaim, UndoLocate, UndoSend, UndoJudge, UndoRecord, UndoRelink, UndoRelease
  <2> QED BY <1>0, <2>1, <2>2, UndoNotes
<1> QED BY <1>0, <1>1, <1>2, Owners

----------------------------------------------------------------------------
(* What the rows say of INBOX.                                             *)

\* The source UID of a move row is one that INBOX had; it has left INBOX; the
\* row did not move its message, or INBOX is not what it was.
Known(r) == Holds("INBOX", rows[r].srcUid, rows[r].srcVal, Msgs)
Left(r) == Holds("INBOX", rows[r].srcUid, rows[r].srcVal, {})
NotMoved(r) == rows[r].hit = None \/ rows[r].srcVal < validity["INBOX"]
IsMove(r) == rows[r].action = "move" /\ rows[r].status # "free"

MoveRowsTrue == \A r \in RowIds : IsMove(r) =>
    /\ rows[r].srcUid > 0 /\ Known(r)
    /\ rows[r].hit # None => Left(r)
    /\ Trashed(r) => Left(r)
    /\ rows[r].status = "failed" => NotMoved(r)
\* An undo is only about a message that has left INBOX.
LinksLeft == \A r \in RowIds : rows[r].undoOf # 0 => Left(rows[r].undoOf)
UndoTrue == \A t \in UndoTasks : pc[t] \in UndoPcs => Left(rs[t].orig)
\* The chunk of an apply: what it has confirmed, sent and judged.
ApplyTrue == \A t \in MoveTasks :
    /\ pc[t] \in InApply => mv[t].val <= validity["INBOX"]
    /\ pc[t] \in {"m_history", "m_insert"} =>
         \A x \in mv[t].batch : x.uid > 0 /\ Holds("INBOX", x.uid, mv[t].val, Msgs)
    /\ \A r \in mv[t].held :
         /\ pc[t] \notin {"m_judge", "m_record"} => rows[r].hit = None
         /\ pc[t] = "m_judge" =>
              /\ mv[t].answer = "copyuid" => (mv[t].dest[r] # 0 <=> rows[r].hit # None)
              /\ mv[t].answer = "ok" /\ Uidplus => rows[r].hit = None
         /\ pc[t] = "m_record" =>
              /\ mv[t].out[r] = "succeeded" => Left(r)
              /\ mv[t].out[r] = "failed" => NotMoved(r)
\* A reconcile: what it has read of the rows to settle, seen in INBOX for the
\* one at hand, and decided.
RecTrue == \A t \in RecTasks : pc[t] \in RecPcs =>
    /\ \A r \in RecOf(t) :
         /\ rc[t].snap[r].action = "move" =>
              rc[t].snap[r].srcUid = rows[r].srcUid /\ rc[t].snap[r].srcVal = rows[r].srcVal
         /\ rc[t].snap[r].undoOf # 0 => Left(rc[t].snap[r].undoOf)
    /\ pc[t] # "r_source" /\ rc[t].snap[rc[t].cur].action = "move" =>
         /\ pc[t] = "r_dest" =>
              /\ Left(rc[t].cur)
              /\ rc[t].source.present = "na" => rows[rc[t].cur].srcVal < validity["INBOX"]
         /\ pc[t] = "r_write" => IF rc[t].verdict = "stayed" THEN NotMoved(rc[t].cur) ELSE Left(rc[t].cur)
TruthInv == MoveRowsTrue /\ LinksLeft /\ UndoTrue /\ ApplyTrue /\ RecTrue

\* Where it is true, it stays true.
LEMMA LeftStays ==
    ASSUME IInv, UidInv, [Next]_vars, NEW r \in RowIds, rows[r].status # "free"
    PROVE  /\ SameSubject(r)
           /\ Left(r) => Left(r)'
           /\ Known(r) => Known(r)'
           /\ rows[r].srcVal < validity["INBOX"] => rows'[r].srcVal < validity'["INBOX"]
           /\ NotMoved(r) /\ rows'[r].hit = rows[r].hit => NotMoved(r)'
<1>0. TypeOK /\ TypeOK' /\ "INBOX" \in Folders
  BY NextType DEF IInv, Folders
<1>1. SameSubject(r)
  BY RowSteps
<1>2. FolderKept("INBOX")
  BY <1>0, NextServer
<1>3. PICK u \in Nat, v \in Nat : u = rows[r].srcUid /\ v = rows[r].srcVal
  BY <1>0 DEF TypeOK, Row
<1>4. rows'[r].srcUid = u /\ rows'[r].srcVal = v
  BY <1>1, <1>3 DEF SameSubject
<1>5. \A S : Holds("INBOX", u, v, S) => Holds("INBOX", u, v, S)'
  BY <1>0, <1>2, HoldsKept
<1>6. validity["INBOX"] \in Nat /\ validity'["INBOX"] \in Nat /\ validity'["INBOX"] >= validity["INBOX"]
  BY <1>0, <1>2 DEF FolderKept, TypeOK
<1>7. Msgs' = Msgs
  OBVIOUS
<1> QED BY <1>1, <1>3, <1>4, <1>5, <1>6 DEF Left, Known, NotMoved

\* A row that an apply holds, or that an undo or a reconcile is about, is
\* not sent by another.
LEMMA HitSteps ==
    ASSUME IInv, [Next]_vars, NEW r \in RowIds, IsMove(r), rows'[r].hit # rows[r].hit
    PROVE  \E t \in MoveTasks : r \in mv[t].held /\ MoveSend(t)
<1>1. ASSUME NEW t \in UndoTasks, FateByUndo(t, r) PROVE FALSE
  <2>1. UndoSend(t) /\ r = rs[t].row
    BY <1>1 DEF FateByUndo
  <2> QED BY <2>1 DEF IInv, UndoInv, UndoSend, UndoPcs, IsMove
<1> QED BY <1>1, RowSteps DEF SameFate, FateByMove, FateByRec, IsMove

\* What the server moved for a move row has left INBOX.
LEMMA HitLeft ==
    ASSUME IInv, UidInv, MoveRowsTrue, [Next]_vars, NEW r \in RowIds, IsMove(r), rows'[r].hit # None
    PROVE  Left(r)'
<1>0. TypeOK /\ TypeOK' /\ UidInv' /\ "INBOX" \in Folders /\ "Trash" \in Folders \ {"INBOX"}
  BY NextType, NextServer DEF IInv, Folders
<1>1. CASE rows'[r].hit = rows[r].hit
  BY <1>1, LeftStays DEF MoveRowsTrue, IsMove
<1>2. CASE rows'[r].hit # rows[r].hit
  <2>1. PICK t \in MoveTasks : r \in mv[t].held /\ MoveSend(t)
    BY <1>2, HitSteps
  <2>2. PICK held : held = mv[t].held
    OBVIOUS
  <2>3. PICK moved \in SUBSET Named(held, "INBOX"), answer \in Answer \ {"none"} :
           UidMove(held, "INBOX", "Trash", moved, answer)
    BY <2>1, <2>2 DEF MoveSend
  <2>4. PICK copied : copied = CopyUid(r, held, "Trash", moved, answer)
    OBVIOUS
  <2>5. PICK h \in moved : rows'[r].hit = h /\ uid[h] = rows[r].srcUid
    BY <1>0, <1>2, <2>3, <2>4, SentRow DEF IsMove
  <2>6. PICK u \in Nat, v \in Nat : u = rows[r].srcUid /\ v = rows[r].srcVal
    BY <1>0 DEF TypeOK, Row
  <2>7. v <= validity["INBOX"]
    BY <2>6 DEF MoveRowsTrue, Known, Holds
  <2>8. Holds("INBOX", u, v, {})'
    BY <1>0, <2>3, <2>5, <2>6, <2>7, MovedAway
  <2>9. rows'[r].srcUid = u /\ rows'[r].srcVal = v
    BY <2>6, LeftStays DEF SameSubject, IsMove
  <2> QED BY <2>8, <2>9 DEF Left
<1> QED BY <1>1, <1>2

LEMMA MoveRowsKept ==
    ASSUME IInv, UidInv, TruthInv, [Next]_vars
    PROVE  MoveRowsTrue'
<1> SUFFICES ASSUME NEW r \in RowIds, IsMove(r)'
             PROVE  /\ rows'[r].srcUid > 0 /\ Known(r)'
                    /\ rows'[r].hit # None => Left(r)'
                    /\ Trashed(r)' => Left(r)'
                    /\ rows'[r].status = "failed" => NotMoved(r)'
  BY DEF MoveRowsTrue
<1>0. TypeOK /\ TypeOK' /\ "INBOX" \in Folders /\ MoveRowsTrue
  BY NextType DEF IInv, Folders, TruthInv
<1>1. CASE rows[r].status = "free"
  <2>1. PICK t \in MoveTasks : NewMoveRow(t, r)
    BY <1>1, NewRows DEF IsMove, NewUndoRow, FreeRow
  <2>2. PICK x \in mv[t].batch : rows'[r] = [FreeRow EXCEPT !.status = "pending", !.raw = x.raw,
                        !.srcUid = x.uid, !.srcVal = mv[t].val, !.mid = x.mid]
    BY <2>1 DEF NewMoveRow
  <2>3. /\ rows'[r].status = "pending" /\ rows'[r].hit = None
        /\ rows'[r].srcUid = x.uid /\ rows'[r].srcVal = mv[t].val
    BY <2>2 DEF FreeRow
  <2>4. pc[t] = "m_insert" /\ x.uid \in Nat /\ mv[t].val \in Nat
    BY <1>0, <2>1 DEF NewMoveRow, MoveInsert, TypeOK, MoveJob, Target
  <2>5. x.uid > 0 /\ Holds("INBOX", x.uid, mv[t].val, Msgs)
    BY <2>4 DEF TruthInv, ApplyTrue
  <2>6. PICK u \in Nat, v \in Nat : u = x.uid /\ v = mv[t].val
    BY <2>4
  <2>7. Holds("INBOX", u, v, Msgs)'
    BY <1>0, <2>5, <2>6, NextServer, HoldsKept
  <2> QED BY <2>3, <2>5, <2>6, <2>7 DEF Known, Trashed
<1>2. CASE rows[r].status # "free"
  <2>1. SameSubject(r) /\ (Left(r) => Left(r)') /\ (Known(r) => Known(r)')
        /\ (NotMoved(r) /\ rows'[r].hit = rows[r].hit => NotMoved(r)')
    BY <1>2, LeftStays
  <2>2. IsMove(r)
    BY <1>2, <2>1 DEF SameSubject, IsMove
  <2>3. rows'[r].srcUid > 0 /\ Known(r)' /\ (rows'[r].hit # None => Left(r)')
    BY <1>0, <2>1, <2>2, HitLeft DEF MoveRowsTrue, SameSubject
  <2>4. CASE SameFate(r)
    BY <1>0, <2>1, <2>2, <2>3, <2>4 DEF MoveRowsTrue, SameFate, Trashed, IsMove
  <2>5. ASSUME NEW t \in MoveTasks, FateByMove(t, r)
        PROVE  (Trashed(r)' => Left(r)') /\ (rows'[r].status = "failed" => NotMoved(r)')
    <3>1. r \in mv[t].held /\ rows[r].status = "pending"
      BY <2>5 DEF FateByMove, IInv, HeldFresh
    <3>2. CASE MoveInsertFails(t) /\ rows'[r].status = "failed" /\ rows'[r].hit = rows[r].hit
      <4>1. pc[t] = "m_insert"
        BY <3>2 DEF MoveInsertFails
      <4>2. NotMoved(r)
        BY <3>1, <4>1 DEF TruthInv, ApplyTrue, NotMoved
      <4> QED BY <2>1, <3>2, <4>2 DEF Trashed
    <3>3. CASE MoveRecord(t) /\ rows'[r].status = mv[t].out[r] /\ rows'[r].hit = rows[r].hit
      <4>1. pc[t] = "m_record"
        BY <3>3 DEF MoveRecord
      <4>2. (mv[t].out[r] = "succeeded" => Left(r)) /\ (mv[t].out[r] = "failed" => NotMoved(r))
        BY <3>1, <4>1 DEF TruthInv, ApplyTrue
      <4>3. mv[t].out[r] # "undone"
        <5>1. mv[t] \in MoveJob
          BY <1>0 DEF TypeOK
        <5>2. mv[t].out[r] \in {"succeeded", "failed", "unknown"}
          BY <5>1 DEF MoveJob
        <5> QED BY <5>2
      <4> QED BY <2>1, <3>3, <4>2, <4>3 DEF Trashed
    <3> QED BY <2>5, <3>1, <3>2, <3>3 DEF FateByMove, Trashed
  <2>6. ASSUME NEW t \in UndoTasks, FateByUndo(t, r)
        PROVE  (Trashed(r)' => Left(r)') /\ (rows'[r].status = "failed" => NotMoved(r)')
    <3>1. ASSUME UndoSend(t) \/ UndoJudge(t) \/ UndoRecord(t), r = rs[t].row PROVE FALSE
      BY <2>2, <3>1 DEF IInv, UndoInv, UndoSend, UndoJudge, UndoRecord, UndoPcs, IsMove
    <3>2. /\ r = rs[t].orig /\ (UndoClaim(t) \/ UndoRelease(t) \/ UndoRecord(t))
          /\ rows'[r].hit = rows[r].hit /\ rows'[r].status \in {rows[r].status, "pending", "succeeded", "undone"}
      BY <2>6, <3>1 DEF FateByUndo
    <3>3. Left(r)
      BY <3>2 DEF UndoClaim, UndoRelease, UndoRecord, UndoPcs, TruthInv, UndoTrue
    <3> QED BY <1>0, <2>1, <2>2, <3>2, <3>3 DEF MoveRowsTrue
  <2>7. ASSUME NEW t \in RecTasks, FateByRec(t, r)
        PROVE  (Trashed(r)' => Left(r)') /\ (rows'[r].status = "failed" => NotMoved(r)')
    <3>1. pc[t] = "r_write" /\ pc[t] \in RecPcs /\ rc[t].cur \in RecOf(t) /\ r # 0
      BY <2>7 DEF FateByRec, RecWrite, RecPcs, RecOf, RowIds
    <3>2. CASE r = rc[t].cur
      <4>1. rc[t].snap[rc[t].cur].action = "move"
        BY <2>2, <3>1, <3>2 DEF IInv, RecInv, IsMove
      <4>2. IF rc[t].verdict = "stayed" THEN NotMoved(r) ELSE Left(r)
        BY <3>1, <3>2, <4>1 DEF TruthInv, RecTrue
      <4> QED BY <2>1, <2>7, <3>2, <4>2 DEF FateByRec, Trashed
    <3>3. CASE r # rc[t].cur
      <4>1. r = rc[t].snap[rc[t].cur].undoOf /\ rows'[r].status \in {"succeeded", "undone"}
        BY <2>7, <3>3 DEF FateByRec
      <4>2. Left(r)
        BY <3>1, <4>1 DEF TruthInv, RecTrue
      <4> QED BY <2>1, <4>1, <4>2
    <3> QED BY <3>2, <3>3
  <2> QED BY <1>2, <2>3, <2>4, <2>5, <2>6, <2>7, RowSteps
<1> QED BY <1>1, <1>2

LEMMA LinksLeftKept ==
    ASSUME IInv, UidInv, TruthInv, [Next]_vars
    PROVE  LinksLeft'
<1> SUFFICES ASSUME NEW r \in RowIds, rows'[r].undoOf # 0
             PROVE  Left(rows[r].undoOf)'
  BY DEF LinksLeft
<1>1. ASSUME NEW o \in RowIds, rows[o].status # "free", Left(o), rows'[r].undoOf = o
      PROVE  Left(rows[r].undoOf)'
  BY <1>1, LeftStays DEF Left
<1>2. CASE rows'[r].undoOf = rows[r].undoOf
  <2>1. PICK o : o = rows[r].undoOf
    OBVIOUS
  <2>2. o \in RowIds /\ rows[o].status # "free" /\ Left(o) /\ rows'[r].undoOf = o
    BY <1>2, <2>1 DEF TruthInv, LinksLeft, IInv, OriginalsFree, NotHeld
  <2> QED BY <1>1, <2>2
<1>3. ASSUME NEW t \in UndoTasks, NewUndoRow(t, r) PROVE Left(rows[r].undoOf)'
  <2>1. PICK o : o = rs[t].orig
    OBVIOUS
  <2>2. rows'[r].undoOf = o /\ pc[t] \in UndoPcs
    BY <1>3, <2>1 DEF NewUndoRow, FreeRow, UndoInsert, UndoPcs
  <2>3. o \in RowIds /\ rows[o].status # "free" /\ Left(o)
    BY <2>1, <2>2 DEF IInv, UndoInv, NotHeld, TruthInv, UndoTrue
  <2> QED BY <1>1, <2>2, <2>3
<1>4. ASSUME NEW t \in MoveTasks, NewMoveRow(t, r) PROVE FALSE
  <2>1. PICK x : rows'[r] = [FreeRow EXCEPT !.status = "pending", !.raw = x.raw,
                        !.srcUid = x.uid, !.srcVal = mv[t].val, !.mid = x.mid]
    BY <1>4 DEF NewMoveRow
  <2> QED BY <2>1 DEF FreeRow
<1>5. CASE rows[r].status # "free"
  BY <1>2, <1>5, RowSteps DEF SameSubject
<1>6. CASE rows[r].status = "free"
  BY <1>2, <1>3, <1>4, <1>6, NewRows
<1> QED BY <1>5, <1>6

LEMMA UndoTrueKept ==
    ASSUME IInv, UidInv, TruthInv, [Next]_vars
    PROVE  UndoTrue'
<1> SUFFICES ASSUME NEW t \in UndoTasks, pc'[t] \in UndoPcs
             PROVE  Left(rs[t].orig)'
  BY DEF UndoTrue
<1>1. ASSUME NEW o \in RowIds, rows[o].status # "free", Left(o), rs'[t].orig = o
      PROVE  Left(rs[t].orig)'
  BY <1>1, LeftStays DEF Left
<1>2. CASE pc[t] \in UndoPcs /\ rs'[t].orig = rs[t].orig
  <2>1. PICK o : o = rs[t].orig
    OBVIOUS
  <2>2. o \in RowIds /\ rows[o].status # "free" /\ Left(o)
    BY <1>2, <2>1 DEF IInv, UndoInv, NotHeld, TruthInv, UndoTrue
  <2> QED BY <1>1, <1>2, <2>1, <2>2
<1>3. CASE Begins(t)
  <2>1. PICK o \in RowIds : rows[o].action = "move" /\ rows[o].status = "succeeded" /\ rs'[t].orig = o
    BY <1>3 DEF Begins
  <2>2. Left(o)
    BY <2>1 DEF TruthInv, MoveRowsTrue, IsMove, Trashed
  <2> QED BY <1>1, <2>1, <2>2
<1> QED BY <1>2, <1>3, UndoSteps
        DEF GoesForth, Locates, Rows, SendsBack, LooksUp, SameOriginal, UndoPcs

LEMMA HeldRow ==
    ASSUME IInv, UidInv, [Next]_vars, NEW t \in MoveTasks, NEW r \in mv[t].held
    PROVE  /\ r \in RowIds /\ IsMove(r) /\ rows[r].status = "pending"
           /\ Left(r) => Left(r)'
           /\ MoveSend(t) \/ (rows'[r].hit = rows[r].hit /\ (NotMoved(r) => NotMoved(r)'))
<1>1. r \in RowIds /\ IsMove(r) /\ rows[r].status = "pending"
  BY DEF IInv, TypeOK, MoveJob, HeldFresh, IsMove
<1>2. ASSUME NEW s \in MoveTasks, r \in mv[s].held PROVE s = t
  BY <1>2 DEF IInv, HeldApart
<1>3. ~MoveSend(t) => rows'[r].hit = rows[r].hit
  BY <1>1, <1>2, HitSteps
<1> QED BY <1>1, <1>3, LeftStays DEF IsMove

\* A confirmed target has a UID of INBOX.
LEMMA ConfirmedKnown ==
    ASSUME TypeOK, UidInv, NEW x \in Target, NEW v \in Nat, v <= validity["INBOX"], Confirmed(x, v)
    PROVE  x.uid > 0 /\ Holds("INBOX", x.uid, v, Msgs)
<1>1. PICK m \in Msgs : box[m] = "INBOX" /\ uid[m] = x.uid
  BY DEF Confirmed, Present, MsgsAt
<1>2. uid[m] > 0 /\ uid[m] < nextUid["INBOX"]
  BY <1>1 DEF UidInv, Folders
<1> QED BY <1>1, <1>2 DEF Holds

LEMMA ApplyTrueKept ==
    ASSUME IInv, UidInv, TruthInv, [Next]_vars
    PROVE  ApplyTrue'
<1>0. TypeOK /\ TypeOK' /\ UidInv' /\ "INBOX" \in Folders /\ "Trash" \in Folders \ {"INBOX"} /\ IInv'
  BY NextType, NextServer, NextInv DEF IInv, Folders
<1>1. validity["INBOX"] \in Nat /\ validity'["INBOX"] \in Nat /\ validity'["INBOX"] >= validity["INBOX"]
  BY <1>0, NextServer DEF FolderKept, TypeOK
<1> SUFFICES ASSUME NEW t \in MoveTasks
             PROVE  /\ pc'[t] \in InApply => mv'[t].val <= validity'["INBOX"]
                    /\ pc'[t] \in {"m_history", "m_insert"} =>
                         \A x \in mv'[t].batch : x.uid > 0 /\ Holds("INBOX", x.uid, mv[t].val, Msgs)'
                    /\ \A r \in mv'[t].held :
                         /\ pc'[t] \notin {"m_judge", "m_record"} => rows'[r].hit = None
                         /\ pc'[t] = "m_judge" =>
                              /\ mv'[t].answer = "copyuid" => (mv'[t].dest[r] # 0 <=> rows'[r].hit # None)
                              /\ mv'[t].answer = "ok" /\ Uidplus => rows'[r].hit = None
                         /\ pc'[t] = "m_record" =>
                              /\ mv'[t].out[r] = "succeeded" => Left(r)'
                              /\ mv'[t].out[r] = "failed" => NotMoved(r)'
  BY DEF ApplyTrue
<1>2. /\ mv[t] \in MoveJob /\ mv'[t] \in MoveJob /\ mv[t].val \in Nat /\ mv'[t].val \in Nat
      /\ mv[t].batch \subseteq Target /\ mv[t].todo \subseteq Target
  BY <1>0 DEF TypeOK, MoveJob
<1>3. pc[t] \in InApply => mv[t].val <= validity["INBOX"]
  BY DEF TruthInv, ApplyTrue
<1>4. pc'[t] \in InApply => mv'[t].val <= validity'["INBOX"]
  BY <1>0, <1>1, <1>2, <1>3, ApplySteps
     DEF Over, Waits, Chooses, Selects, Proceeds, Fetches, Checks, Inserts, Sends, Judges, SamePlan, InApply
<1>5. ASSUME pc'[t] \in {"m_history", "m_insert"}, NEW x \in mv'[t].batch
      PROVE  x.uid > 0 /\ Holds("INBOX", x.uid, mv[t].val, Msgs)'
  <2>1. ASSUME NEW y \in Target, y.uid > 0, Holds("INBOX", y.uid, mv[t].val, Msgs), x.uid = y.uid, mv'[t].val = mv[t].val
        PROVE  x.uid > 0 /\ Holds("INBOX", x.uid, mv[t].val, Msgs)'
    <3>1. PICK u \in Nat, v \in Nat : u = y.uid /\ v = mv[t].val
      BY <1>2 DEF Target
    <3>2. Holds("INBOX", u, v, Msgs)'
      BY <1>0, <2>1, <3>1, NextServer, HoldsKept
    <3> QED BY <2>1, <3>1, <3>2
  <2>2. CASE Fetches(t)
    <3>1. PICK y \in mv[t].todo : Confirmed(y, mv[t].val) /\ x = WithMid(y)
      BY <1>5, <2>2 DEF Fetches
    <3>2. x.uid = y.uid /\ y \in Target
      BY <1>2, <3>1 DEF WithMid, Target
    <3>3. pc[t] \in InApply /\ mv'[t].val = mv[t].val
      BY <2>2 DEF Fetches, InApply
    <3>4. y.uid > 0 /\ Holds("INBOX", y.uid, mv[t].val, Msgs)
      BY <1>0, <1>2, <1>3, <3>1, <3>2, <3>3, ConfirmedKnown
    <3> QED BY <2>1, <3>2, <3>3, <3>4
  <2>3. CASE pc[t] \in {"m_history", "m_insert"} /\ x \in mv[t].batch /\ mv'[t].val = mv[t].val
    <3>1. x \in Target /\ x.uid > 0 /\ Holds("INBOX", x.uid, mv[t].val, Msgs)
      BY <1>2, <2>3 DEF TruthInv, ApplyTrue
    <3> QED BY <2>1, <2>3, <3>1
  <2> QED BY <1>0, <1>5, <2>2, <2>3, ApplySteps
          DEF Over, Waits, Chooses, Selects, Proceeds, Checks, Inserts, Sends, Judges, SamePlan
<1>6. ASSUME NEW r \in mv'[t].held
      PROVE  /\ pc'[t] \notin {"m_judge", "m_record"} => rows'[r].hit = None
             /\ pc'[t] = "m_judge" =>
                  /\ mv'[t].answer = "copyuid" => (mv'[t].dest[r] # 0 <=> rows'[r].hit # None)
                  /\ mv'[t].answer = "ok" /\ Uidplus => rows'[r].hit = None
             /\ pc'[t] = "m_record" =>
                  /\ mv'[t].out[r] = "succeeded" => Left(r)'
                  /\ mv'[t].out[r] = "failed" => NotMoved(r)'
  <2>0. MoveSend(t) => pc[t] = "m_send" /\ pc'[t] = "m_judge"
    BY <1>0, ApplySends DEF Sends
  <2>1. CASE pc'[t] = pc[t] /\ mv'[t] = mv[t]
    BY <1>6, <2>0, <2>1, HeldRow DEF TruthInv, ApplyTrue
  <2>2. CASE Over(t) \/ Chooses(t) \/ Proceeds(t)
    BY <1>6, <2>2 DEF Over, Chooses, Proceeds, NoMoveJob
  <2>3. CASE Waits(t) \/ Selects(t) \/ Fetches(t) \/ Checks(t) \/ (Inserts(t) /\ SameHeld(t))
    <3>1. r \in mv[t].held /\ pc[t] \notin {"m_judge", "m_record"} /\ pc'[t] \notin {"m_judge", "m_record"}
      BY <1>6, <2>3 DEF Waits, Selects, Fetches, Checks, Inserts, SameHeld
    <3>2. rows[r].hit = None /\ rows'[r].hit = rows[r].hit
      BY <2>0, <3>1, HeldRow DEF TruthInv, ApplyTrue
    <3> QED BY <3>1, <3>2
  <2>4. ASSUME Inserts(t), NEW x, NEW q, WritesRow(t, x, q) PROVE rows'[r].hit = None
    <3>1. CASE r = q
      BY <1>0, <2>4, <3>1 DEF WritesRow, FreeRow, TypeOK
    <3>2. CASE r # q
      <4>1. r \in mv[t].held /\ pc[t] \notin {"m_judge", "m_record"}
        BY <1>6, <2>4, <3>2 DEF WritesRow, Inserts
      <4> QED BY <2>0, <2>4, <4>1, HeldRow DEF TruthInv, ApplyTrue, Inserts
    <3> QED BY <3>1, <3>2
  <2>5. CASE MoveSend(t) /\ Sends(t)
    <3>1. pc[t] = "m_send" /\ r \in mv[t].held
      BY <1>6, <2>5 DEF Sends
    <3>2. rows[r].hit = None /\ r \in RowIds /\ rows[r].status # "free"
      BY <3>1, HeldRow DEF TruthInv, ApplyTrue
    <3>3. PICK held : held = mv[t].held
      OBVIOUS
    <3>4. PICK moved \in SUBSET Named(held, "INBOX"), answer \in Answer \ {"none"} :
             /\ UidMove(held, "INBOX", "Trash", moved, answer) /\ mv'[t].answer = answer
             /\ \A q \in RowIds : mv'[t].dest[q] = CopyUid(q, held, "Trash", moved, answer)
      BY <2>5, <3>3 DEF Sends
    <3>5. PICK copied : copied = CopyUid(r, held, "Trash", moved, answer) /\ mv'[t].dest[r] = copied
      BY <3>2, <3>4
    <3>6. \/ rows'[r].hit = None /\ copied = 0
          \/ \E h \in moved : rows'[r].hit = h /\ copied = IF answer = "copyuid" THEN uid'[h] ELSE 0
      BY <1>0, <3>2, <3>4, <3>5, SentRow
    <3>7. \A h \in moved : h # None /\ uid'[h] > 0
      BY <1>0, <3>4, MovedAway, MailboxAssumption DEF MailboxAssumption, Named
    <3>8. answer = "ok" /\ Uidplus => moved = {}
      BY <3>4 DEF UidMove
    <3> QED BY <2>5, <3>4, <3>5, <3>6, <3>7, <3>8 DEF Sends
  <2>6. CASE Judges(t)
    <3>1. r \in mv[t].held /\ pc[t] = "m_judge" /\ pc'[t] = "m_record"
      BY <1>6, <2>6 DEF Judges, SameHeld
    <3>2. r \in RowIds /\ IsMove(r) /\ (Left(r) => Left(r)') /\ (NotMoved(r) => NotMoved(r)')
      BY <2>0, <3>1, HeldRow
    <3>3. Known(r) /\ (rows[r].hit # None => Left(r))
      BY <3>2 DEF TruthInv, MoveRowsTrue
    <3>4. /\ mv[t].answer = "copyuid" => (mv[t].dest[r] # 0 <=> rows[r].hit # None)
          /\ mv[t].answer = "ok" /\ Uidplus => rows[r].hit = None
      BY <3>1 DEF TruthInv, ApplyTrue
    <3>5. rows[r].srcUid \in Nat /\ rows[r].srcVal \in Nat
      BY <1>0, <3>2 DEF TypeOK, Row
    <3>6. Present("INBOX", rows[r].srcUid) => NotMoved(r)
      BY <1>1, <3>3, <3>5 DEF Present, MsgsAt, Left, Known, Holds, NotMoved
    <3>7. ~Present("INBOX", rows[r].srcUid) => Left(r)
      BY <3>3 DEF Present, MsgsAt, Left, Known, Holds
    <3>8. /\ Outcome(mv[t], r) = "succeeded" => Left(r)
          /\ Outcome(mv[t], r) = "failed" => NotMoved(r)
      BY <3>3, <3>4, <3>6, <3>7 DEF Outcome, NotMoved
    <3>9. mv'[t].out[r] \in {Outcome(mv[t], r), "unknown"}
      BY <2>6, <3>2 DEF Judges
    <3> QED BY <3>1, <3>2, <3>8, <3>9
  <2> QED BY <1>0, <2>1, <2>2, <2>3, <2>4, <2>5, <2>6, ApplySteps DEF Inserts
<1> QED BY <1>4, <1>5, <1>6

LEMMA RecRow ==
    ASSUME IInv, UidInv, [Next]_vars, NEW t \in RecTasks, pc[t] \in RecPcs, NEW r \in RecOf(t)
    PROVE  /\ r \in RowIds /\ rows[r].status # "free" /\ rows[r].action = rc[t].snap[r].action
           /\ Left(r) => Left(r)'
           /\ IsMove(r) /\ NotMoved(r) => NotMoved(r)'
<1>1. r \in RowIds /\ rows[r].status # "free" /\ rows[r].old /\ rows[r].action = rc[t].snap[r].action
  BY DEF IInv, RecInv
<1>2. IsMove(r) => rows'[r].hit = rows[r].hit
  BY <1>1, HitSteps DEF IInv, HeldFresh
<1> QED BY <1>1, <1>2, LeftStays

\* What the source folder says of a move row.
LEMMA SourceSays ==
    ASSUME TypeOK, UidInv, MoveRowsTrue, NEW r \in RowIds, IsMove(r), NEW mid,
           NEW source, source = ProbeOf("INBOX", rows[r].srcUid, rows[r].srcVal, mid)
    PROVE  IF source.present = "yes" THEN NotMoved(r)
           ELSE Left(r) /\ (source.present = "na" => rows[r].srcVal < validity["INBOX"])
<1>1. PICK u \in Nat, v \in Nat : u = rows[r].srcUid /\ v = rows[r].srcVal
  BY DEF TypeOK, Row
<1>2. u > 0 /\ Holds("INBOX", u, v, Msgs) /\ (rows[r].hit # None => Holds("INBOX", u, v, {}))
  BY <1>1 DEF MoveRowsTrue, Known, Left
<1>3. validity["INBOX"] \in Nat
  BY DEF TypeOK, Folders
<1>4. CASE v = validity["INBOX"] /\ Present("INBOX", u)
  <2>1. source.present = "yes"
    BY <1>1, <1>2, <1>4 DEF ProbeOf
  <2>2. rows[r].hit = None
    BY <1>2, <1>4 DEF Present, MsgsAt, Holds
  <2> QED BY <2>1, <2>2 DEF NotMoved
<1>5. CASE v = validity["INBOX"] /\ ~Present("INBOX", u)
  <2>1. source.present = "no"
    BY <1>1, <1>2, <1>5 DEF ProbeOf
  <2>2. Holds("INBOX", u, v, {})
    BY <1>2, <1>5 DEF Present, MsgsAt, Holds
  <2> QED BY <1>1, <2>1, <2>2 DEF Left
<1>6. CASE v # validity["INBOX"]
  <2>1. source.present = "na"
    BY <1>1, <1>6 DEF ProbeOf
  <2>2. v < validity["INBOX"]
    BY <1>2, <1>3, <1>6 DEF Holds
  <2>3. Holds("INBOX", u, v, {})
    BY <1>3, <2>2 DEF Holds
  <2> QED BY <1>1, <2>1, <2>2, <2>3 DEF Left
<1> QED BY <1>4, <1>5, <1>6

LEMMA RecTrueKept ==
    ASSUME IInv, UidInv, TruthInv, [Next]_vars
    PROVE  RecTrue'
<1> SUFFICES ASSUME NEW t \in RecTasks, pc'[t] \in RecPcs
             PROVE  /\ \A r \in RecOf(t)' :
                         /\ rc'[t].snap[r].action = "move" =>
                              rc'[t].snap[r].srcUid = rows'[r].srcUid /\ rc'[t].snap[r].srcVal = rows'[r].srcVal
                         /\ rc'[t].snap[r].undoOf # 0 => Left(rc[t].snap[r].undoOf)'
                    /\ pc'[t] # "r_source" /\ rc'[t].snap[rc'[t].cur].action = "move" =>
                         /\ pc'[t] = "r_dest" =>
                              /\ Left(rc[t].cur)'
                              /\ rc'[t].source.present = "na" => rows'[rc'[t].cur].srcVal < validity'["INBOX"]
                         /\ pc'[t] = "r_write" =>
                              IF rc'[t].verdict = "stayed" THEN NotMoved(rc[t].cur)' ELSE Left(rc[t].cur)'
  BY DEF RecTrue
<1>0. TypeOK
  BY DEF IInv
\* What it has read stays as it was.
<1>1. ASSUME pc[t] \in RecPcs, NEW r \in RecOf(t), rc'[t].snap = rc[t].snap
      PROVE  /\ rc'[t].snap[r].action = "move" =>
                  rc'[t].snap[r].srcUid = rows'[r].srcUid /\ rc'[t].snap[r].srcVal = rows'[r].srcVal
             /\ rc'[t].snap[r].undoOf # 0 => Left(rc[t].snap[r].undoOf)'
  <2>1. r \in RowIds /\ rows[r].status # "free"
    BY <1>1, RecRow
  <2>2. SameSubject(r)
    BY <2>1, LeftStays
  <2>3. PICK o : o = rc[t].snap[r].undoOf
    OBVIOUS
  <2>4. o # 0 => o \in RowIds /\ rows[o].status # "free" /\ Left(o)
    BY <1>1, <2>3 DEF IInv, RecInv, NotHeld, TruthInv, RecTrue
  <2>5. o # 0 => Left(o)'
    BY <2>4, LeftStays
  <2> QED BY <1>1, <2>2, <2>3, <2>5 DEF SameSubject, TruthInv, RecTrue, Left
\* So does what it has seen and decided of the row at hand.
<1>2. ASSUME pc[t] \in RecPcs, pc[t] # "r_source", rc'[t].cur = rc[t].cur, rc[t].snap[rc[t].cur].action = "move"
      PROVE  /\ Left(rc[t].cur) => Left(rc[t].cur)'
             /\ NotMoved(rc[t].cur) => NotMoved(rc[t].cur)'
             /\ rows[rc[t].cur].srcVal < validity["INBOX"] =>
                  NotMoved(rc[t].cur)' /\ rows'[rc'[t].cur].srcVal < validity'["INBOX"]
  <2>1. PICK c : c = rc[t].cur
    OBVIOUS
  <2>2. c \in RecOf(t)
    BY <1>2, <2>1 DEF RecOf
  <2>3. /\ c \in RowIds /\ rows[c].status # "free" /\ IsMove(c)
        /\ Left(c) => Left(c)'
        /\ NotMoved(c) => NotMoved(c)'
    BY <1>2, <2>1, <2>2, RecRow DEF IsMove
  <2>4. rows[c].srcVal < validity["INBOX"] => NotMoved(c)' /\ rows'[c].srcVal < validity'["INBOX"]
    BY <2>3, LeftStays DEF NotMoved
  <2> QED BY <1>2, <2>1, <2>3, <2>4 DEF Left, NotMoved
<1>3. CASE SameJob(t) /\ pc[t] \in RecPcs
  <2>1. pc'[t] = pc[t] /\ rc'[t] = rc[t]
    BY <1>3 DEF SameJob
  <2>2. RecOf(t)' = RecOf(t)
    BY <2>1 DEF RecOf
  <2>3. pc[t] # "r_source" /\ rc[t].snap[rc[t].cur].action = "move" =>
           /\ pc[t] = "r_dest" => Left(rc[t].cur) /\ (rc[t].source.present = "na" => rows[rc[t].cur].srcVal < validity["INBOX"])
           /\ pc[t] = "r_write" => IF rc[t].verdict = "stayed" THEN NotMoved(rc[t].cur) ELSE Left(rc[t].cur)
    BY <1>3 DEF TruthInv, RecTrue
  <2> QED BY <1>1, <1>2, <1>3, <2>1, <2>2, <2>3
<1>4. CASE RecStart(t)
  <2>1. rows' = rows /\ RecOf(t)' = rc'[t].todo /\ pc'[t] = "r_source" /\ rc'[t].snap = rows /\ rc'[t].todo \subseteq RowIds
    BY <1>0, <1>4, RecStartNotes DEF RecOf, RecStart, db
  <2>2. ASSUME NEW r \in RowIds, rows[r].undoOf # 0 PROVE Left(rc[t].snap[r].undoOf)'
    <3>1. PICK o : o = rows[r].undoOf
      OBVIOUS
    <3>2. o \in RowIds /\ rows[o].status # "free" /\ Left(o)
      BY <2>2, <3>1 DEF IInv, OriginalsFree, NotHeld, TruthInv, LinksLeft
    <3>3. Left(o)'
      BY <3>2, LeftStays
    <3> QED BY <2>1, <3>1, <3>3 DEF Left
  <2> QED BY <2>1, <2>2
<1>5. CASE RecSource(t)
  <2>1. pc[t] = "r_source" /\ pc[t] \in RecPcs
    BY <1>5 DEF RecSource, RecPcs
  <2>2. PICK r \in rc[t].todo :
             LET row == rc[t].snap[r]
                 source == ProbeOf(SourceOf(row), row.srcUid, row.srcVal, row.mid)
             IN /\ rc'[t].cur = r /\ rc'[t].todo = rc[t].todo \ {r} /\ rc'[t].snap = rc[t].snap
                /\ rc'[t].source = source
                /\ IF source.present = "yes"
                   THEN pc'[t] = "r_write" /\ rc'[t].verdict = "stayed"
                   ELSE pc'[t] = "r_dest"
    BY <1>0, <1>5, RecSourceNotes
  <2>3. RecOf(t)' \subseteq RecOf(t) /\ r \in RecOf(t) /\ rc'[t].cur = r /\ rc'[t].snap = rc[t].snap
    BY <2>1, <2>2 DEF RecOf
  <2>4. ASSUME rc[t].snap[r].action = "move"
        PROVE  /\ pc'[t] = "r_dest" => Left(r)' /\ (rc'[t].source.present = "na" => rows'[r].srcVal < validity'["INBOX"])
               /\ pc'[t] = "r_write" => rc'[t].verdict = "stayed" /\ NotMoved(r)'
    <3>1. r \in RowIds /\ IsMove(r) /\ (Left(r) => Left(r)') /\ (NotMoved(r) => NotMoved(r)')
          /\ (rows[r].srcVal < validity["INBOX"] => rows'[r].srcVal < validity'["INBOX"])
      BY <2>1, <2>3, <2>4, RecRow, LeftStays DEF IsMove
    <3>2. rc[t].snap[r].srcUid = rows[r].srcUid /\ rc[t].snap[r].srcVal = rows[r].srcVal
      BY <2>1, <2>3, <2>4 DEF TruthInv, RecTrue
    <3>3. rc'[t].source = ProbeOf("INBOX", rows[r].srcUid, rows[r].srcVal, rc[t].snap[r].mid)
      BY <2>2, <2>4, <3>2 DEF SourceOf
    <3>4. IF rc'[t].source.present = "yes" THEN NotMoved(r)
          ELSE Left(r) /\ (rc'[t].source.present = "na" => rows[r].srcVal < validity["INBOX"])
      BY <1>0, <3>1, <3>3, SourceSays DEF TruthInv
    <3> QED BY <2>2, <3>1, <3>4
  <2>5. pc'[t] \in {"r_dest", "r_write"}
    BY <2>2
  <2> QED BY <1>1, <2>1, <2>3, <2>4 DEF Left, NotMoved
<1>6. CASE RecDest(t) /\ pc'[t] \in {"r_dest", "r_write"}
  <2>1. pc[t] = "r_dest" /\ pc[t] \in RecPcs
    BY <1>6 DEF RecDest, RecPcs
  <2> DEFINE row == rc[t].snap[rc[t].cur]
             D == ProbeOf(DestOf(row), row.destUid, row.destVal, row.mid)
             v == Verdict(rc[t].source, D, row)
  <2>2. /\ pc'[t] = "r_write" /\ rc'[t].cur = rc[t].cur /\ rc'[t].todo = rc[t].todo /\ rc'[t].snap = rc[t].snap
        /\ rc'[t].verdict = v[1]
    BY <1>0, <1>6, RecDestNotes
  <2> HIDE DEF D
  <2>3. v[1] = "stayed" => rc[t].source.present = "na"
    BY DEF Verdict
  <2> HIDE DEF v, row
  <2>4. RecOf(t)' = RecOf(t)
    BY <2>1, <2>2 DEF RecOf
  <2>5. rc[t].snap[rc[t].cur].action = "move" =>
           Left(rc[t].cur) /\ (rc[t].source.present = "na" => rows[rc[t].cur].srcVal < validity["INBOX"])
    BY <2>1 DEF TruthInv, RecTrue
  <2> QED BY <1>1, <1>2, <2>1, <2>2, <2>3, <2>4, <2>5
<1>7. ASSUME pc[t] \in {"r_dest", "r_write"}, pc'[t] = "r_source",
             rc'[t].todo = rc[t].todo, rc'[t].snap = rc[t].snap
      PROVE  \A r \in RecOf(t)' :
                  /\ rc'[t].snap[r].action = "move" =>
                       rc'[t].snap[r].srcUid = rows'[r].srcUid /\ rc'[t].snap[r].srcVal = rows'[r].srcVal
                  /\ rc'[t].snap[r].undoOf # 0 => Left(rc[t].snap[r].undoOf)'
  <2>1. RecOf(t)' = rc[t].todo /\ rc[t].todo \subseteq RecOf(t) /\ pc[t] \in RecPcs
    BY <1>7 DEF RecOf, RecPcs
  <2> QED BY <1>1, <1>7, <2>1
<1>8. CASE RecDest(t) /\ pc'[t] \notin {"r_dest", "r_write"}
  <2>1. pc[t] = "r_dest" /\ pc'[t] = "r_source"
    BY <1>8 DEF RecDest, RecPcs
  <2>2. t \in Tasks /\ ~Goto(t, "r_write") /\ ~Forget(t)
    BY <1>0, <1>8, <2>1, GoesTo, ForgetGoes DEF Tasks
  <2>3. NextStuck(t)
    BY <1>8, <2>2 DEF RecDest
  <2>4. rc'[t].todo = rc[t].todo /\ rc'[t].snap = rc[t].snap
    BY <1>0, <2>3 DEF NextStuck, TypeOK, NoRecJob
  <2> QED BY <1>7, <2>1, <2>4
<1>9. CASE RecWrite(t)
  <2>1. pc[t] = "r_write"
    BY <1>9 DEF RecWrite
  <2>2. pc'[t] = "r_source" /\ rc'[t].todo = rc[t].todo /\ rc'[t].snap = rc[t].snap
    BY <1>0, <1>9, RecWriteNotes
  <2> QED BY <1>7, <2>1, <2>2
<1> QED BY <1>3, <1>4, <1>5, <1>6, <1>8, <1>9, RecSteps

\* Every message starts under a UID of its own, and nothing has been done.
LEMMA TruthInit ==
    ASSUME Init
    PROVE  UidInv /\ TruthInv
<1> DEFINE there == {m \in Msgs : InitUid[m] # 0}
<1>1. Cardinality(there) \in Nat
  BY MailboxAssumption, FS_Subset, FS_CardinalityType DEF MailboxAssumption
<1>2. \A m \in Msgs : InitUid[m] \in Nat /\ InitUid[m] <= Cardinality(there)
  BY MailboxAssumption DEF MailboxAssumption
<1>3. \A m, n \in Msgs : InitUid[m] = InitUid[n] /\ InitUid[m] # 0 => m = n
  BY MailboxAssumption DEF MailboxAssumption
<1>4. /\ nextUid["INBOX"] = 1 + Cardinality(there) /\ nextUid["Trash"] = 1
      /\ uid = InitUid /\ \A m \in Msgs : box[m] = IF InitUid[m] = 0 THEN "none" ELSE "INBOX"
      /\ \A f \in Folders : validity[f] = 1
  BY DEF Init, Folders
<1> HIDE DEF there
<1>5. UidInv
  BY <1>1, <1>2, <1>3, <1>4 DEF UidInv, Folders
<1>6. /\ \A t \in Tasks : pc[t] = "idle"
      /\ \A r \in RowIds : rows[r].status = "free" /\ rows[r].undoOf = 0
      /\ \A t \in MoveTasks : mv[t].held = {}
  BY DEF Init, FreeRow, NoMoveJob
<1>7. "idle" \notin UndoPcs /\ "idle" \notin RecPcs /\ "idle" \notin InApply
  BY DEF UndoPcs, RecPcs, InApply
<1>8. MoveRowsTrue /\ LinksLeft
  BY <1>6 DEF MoveRowsTrue, LinksLeft, IsMove
<1>9. UndoTrue /\ ApplyTrue /\ RecTrue
  BY <1>6, <1>7, Kinds DEF UndoTrue, ApplyTrue, RecTrue
<1> QED BY <1>5, <1>8, <1>9 DEF TruthInv

\* Known messages keep their UIDs, and what rows and jobs say of what moved
\* stays so: the invariant from which the truth of the rows follows.
THEOREM TruthHolds == Spec => [](UidInv /\ TruthInv)
<1>1. Init => UidInv /\ TruthInv
  BY TruthInit
<1>2. ASSUME IInv, UidInv, TruthInv, [Next]_vars PROVE (UidInv /\ TruthInv)'
  BY <1>2, NextServer, MoveRowsKept, LinksLeftKept, UndoTrueKept, ApplyTrueKept, RecTrueKept DEF TruthInv
<1> QED BY <1>1, <1>2, Invariant, PTL DEF Spec

\* What the audit rows say of INBOX is true, whatever failed, crashed, raced or
\* was moved by hand: a move row that reads failed did not move its message,
\* unless INBOX has a new UIDVALIDITY since, and the UID of one that reads
\* succeeded or undone has left INBOX (moveToTrash and restore of
\* mailbox-writer.service.ts, reconcile of mailbox-reconcile.service.ts).
THEOREM RowsTellWhatMoved == Spec => [](FailedNotMoved /\ SucceededHasLeft)
<1>1. ASSUME TypeOK, TruthInv PROVE FailedNotMoved
  <2> SUFFICES ASSUME NEW r \in RowIds, rows[r].action = "move", rows[r].status = "failed", rows[r].hit # None
               PROVE  rows[r].srcVal # validity["INBOX"]
    BY DEF FailedNotMoved
  <2>1. rows[r].srcVal < validity["INBOX"]
    BY <1>1 DEF TruthInv, MoveRowsTrue, IsMove, NotMoved
  <2>2. validity["INBOX"] \in Nat
    BY <1>1 DEF TypeOK, Folders
  <2> QED BY <2>1, <2>2
<1>2. ASSUME TruthInv PROVE SucceededHasLeft
  <2> SUFFICES ASSUME NEW r \in RowIds, Trashed(r), rows[r].srcVal = validity["INBOX"]
               PROVE  ~Present("INBOX", rows[r].srcUid)
    BY DEF SucceededHasLeft
  <2>1. Left(r)
    BY <1>2 DEF TruthInv, MoveRowsTrue, IsMove, Trashed
  <2> QED BY <2>1 DEF Left, Holds, Present, MsgsAt
<1> QED BY <1>1, <1>2, TruthHolds, TypeCorrect, PTL

----------------------------------------------------------------------------
(* The message that was meant.                                             *)

\* A message whose stored headers yield no Message-ID shares the one of its
\* envelope with no other.
GarbledUnique == \A m \in Garbled, n \in Msgs : Mid[n] = Mid[m] /\ Mid[m] # None => n = m

\* The messages that a RawEmail of m cannot tell from m.
Same(m) == IF StoredMid(m) = None THEN {m} ELSE {n \in Msgs : Mid[n] = StoredMid(m)}

\* It is the Message-ID of RawEmail i; the UID names what RawEmail i is of.
Meant(i, mid) == i \in RawIds /\ raws[i].msg # None /\ mid = Mid[raws[i].msg]
Names(f, u, v, i) == i \in RawIds /\ raws[i].msg # None /\ Holds(f, u, v, Same(raws[i].msg))

\* What is written in a RawEmail.
RawsMean == \A i \in RawIds :
    raws[i].msg # None /\ raws[i].val # 0 => Names("INBOX", raws[i].uid, raws[i].val, i)
\* What is written in an audit row.
RowMeans(row) ==
    /\ Meant(row.raw, row.mid)
    /\ row.hit # None => row.hit \in Same(raws[row.raw].msg)
    /\ Names(SourceOf(row), row.srcUid, row.srcVal, row.raw)
    /\ row.destUid # 0 => Names(DestOf(row), row.destUid, row.destVal, row.raw)
    /\ row.undoOf # 0 => rows[row.undoOf].raw = row.raw
RowsMean == \A r \in RowIds : rows[r].status # "free" => RowMeans(rows[r])
\* What an apply knows of its targets, and of the rows it holds.
TargetMeans(x) ==
    /\ x.raw \in RawIds /\ raws[x.raw].msg # None /\ x.mid = StoredMid(raws[x.raw].msg)
    /\ x.val # 0 => Names("INBOX", x.uid, x.val, x.raw)
ApplyMeans == \A t \in MoveTasks :
    /\ \A x \in mv[t].todo : TargetMeans(x)
    /\ pc[t] \in InApply => mv[t].val = validity["INBOX"]
    /\ pc[t] \in {"m_history", "m_insert"} =>
         \A x \in mv[t].batch : Meant(x.raw, x.mid) /\ Names("INBOX", x.uid, mv[t].val, x.raw)
    /\ \A r \in mv[t].held :
         /\ pc[t] \in {"m_insert", "m_send", "m_judge", "m_record"} /\ rows[r].srcVal = mv[t].val
         /\ pc[t] \in {"m_judge", "m_record"} /\ mv[t].dest[r] # 0 =>
              Names("Trash", mv[t].dest[r], mv[t].destVal, rows[r].raw)
\* What an undo knows of the message it restores.
UndoMeans == \A t \in UndoTasks : pc[t] \in UndoPcs =>
    /\ rs[t].destUid # 0 => Names("Trash", rs[t].destUid, rs[t].destVal, rows[rs[t].orig].raw)
    /\ pc[t] = "u_insert" => Names("Trash", rs[t].uid, rs[t].val, rows[rs[t].orig].raw)
    /\ pc[t] \in {"u_insert", "u_send"} => rs[t].val = validity["Trash"]
    /\ pc[t] = "u_send" => rows[rs[t].row].srcVal = rs[t].val
    /\ pc[t] \in UndoMove => rows[rs[t].row].raw = rows[rs[t].orig].raw
    /\ rs[t].got # 0 => rs[t].gotVal > 0 /\ Names("INBOX", rs[t].got, rs[t].gotVal, rows[rs[t].orig].raw)
\* What a reconcile has read, what it has seen of the row at hand in its source
\* folder, and what it has decided of it.
ReadMeans(t) == \A r \in RecOf(t) : RowMeans(rc[t].snap[r]) /\ rows[r].raw = rc[t].snap[r].raw
SeenMeans(t) ==
    LET row == rc[t].snap[rc[t].cur] IN
    /\ rc[t].source.val > 0
    /\ \A u \in rc[t].source.hits : Names(SourceOf(row), u, rc[t].source.val, row.raw)
DecidedMeans(t) ==
    LET row == rc[t].snap[rc[t].cur] IN
    /\ rc[t].val > 0
    /\ Names(IF rc[t].verdict = "stayed" THEN SourceOf(row) ELSE DestOf(row), rc[t].uid, rc[t].val, row.raw)
RecMeans == \A t \in RecTasks : pc[t] \in RecPcs =>
    ReadMeans(t) /\ (pc[t] = "r_dest" => SeenMeans(t)) /\ (pc[t] = "r_write" => DecidedMeans(t))
MeansInv == RawsMean /\ RowsMean /\ ApplyMeans /\ UndoMeans /\ RecMeans

\* A stored RawEmail stays of the same message; it is pointed at another UID
\* by an undo or a reconcile, and only at one that is known.
Pointed(i, u, v) ==
    raws'[i].msg = raws[i].msg /\ raws'[i].uid = u /\ raws'[i].val = IF v = 0 THEN raws[i].val ELSE v
LEMMA RawSteps ==
    ASSUME TypeOK, [Next]_vars, NEW i \in RawIds
    PROVE  \/ raws'[i] = raws[i]
           \/ raws[i].msg = None /\ \E m \in Msgs : Ingest(m, i)
           \/ \E t \in UndoTasks :
                /\ UndoRelink(t) /\ i = rows[rs[t].orig].raw /\ rs[t].got # 0
                /\ Pointed(i, rs[t].got, rs[t].gotVal)
           \/ \E t \in RecTasks : LET row == rc[t].snap[rc[t].cur] IN
                /\ RecWrite(t) /\ row.action = "restore" /\ rc[t].verdict = "arrived" /\ i = row.raw
                /\ Pointed(i, rc[t].uid, rc[t].val)
<1>1. ASSUME NEW raw, NEW u, NEW v, raws' = Relinked(raw, u, v), raws'[i] # raws[i]
      PROVE  i = raw /\ u # 0 /\ Pointed(i, u, v)
  BY <1>1 DEF Relinked, TypeOK, Raw, Pointed
<1>2. ASSUME NEW m \in Msgs, NEW j \in RawIds, Ingest(m, j), raws'[i] # raws[i]
      PROVE  raws[i].msg = None /\ Ingest(m, i)
  <2>1. i = j
    BY <1>2 DEF Ingest, TypeOK
  <2> QED BY <1>2, <2>1 DEF Ingest
<1>3. ASSUME NEW t \in UndoTasks, UndoRelink(t), raws'[i] # raws[i]
      PROVE  /\ UndoRelink(t) /\ i = rows[rs[t].orig].raw /\ rs[t].got # 0
             /\ Pointed(i, rs[t].got, rs[t].gotVal)
  BY <1>1, <1>3 DEF UndoRelink
<1>4. ASSUME NEW t \in RecTasks, RecWrite(t), raws'[i] # raws[i]
      PROVE  LET row == rc[t].snap[rc[t].cur] IN
                /\ RecWrite(t) /\ row.action = "restore" /\ rc[t].verdict = "arrived" /\ i = row.raw
                /\ Pointed(i, rc[t].uid, rc[t].val)
  BY <1>1, <1>4 DEF RecWrite
<1>5. ASSUME NEW t \in MoveTasks, ReadTrashed(t) \/ MoveStep(t) PROVE raws' = raws
  BY <1>5 DEF ReadTrashed, MoveStep, Scan, MoveAcquire, MoveConnect, MoveFetch, MoveHistory, MoveInsert,
              MoveInsertFails, MoveSend, MoveJudge, MoveRecord, db
<1>6. ASSUME NEW t \in UndoTasks, UndoStart(t) \/ UndoStep(t), ~UndoRelink(t) PROVE raws' = raws
  BY <1>6 DEF UndoStart, UndoStep, UndoClaim, UndoLocate, UndoInsert, UndoSend, UndoJudge, UndoRecord, UndoRelease, db
<1>7. ASSUME NEW t \in RecTasks, RecStart(t) \/ RecStep(t), ~RecWrite(t) PROVE raws' = raws
  BY <1>7 DEF RecStart, RecStep, RecSource, RecDest, db
<1> QED BY <1>2, <1>3, <1>4, <1>5, <1>6, <1>7
        DEF Next, Request, Work, Environment, vars, db, Deliver, HandMove, Arrive, Purge, ResetValidity, Age, Crash

\* What was meant stays meant, and what a UID names stays named.
LEMMA MeaningStays ==
    ASSUME IInv, UidInv, [Next]_vars, NEW i, i \in RawIds, raws[i].msg # None
    PROVE  /\ raws'[i].msg = raws[i].msg
           /\ \A mid : Meant(i, mid) => Meant(i, mid)'
           /\ \A f \in Folders, u \in Nat, v \in Nat : Names(f, u, v, i) => Names(f, u, v, i)'
<1>0. TypeOK /\ TypeOK'
  BY NextType DEF IInv
<1>1. raws'[i].msg = raws[i].msg
  BY <1>0, RawSteps DEF Pointed
<1>2. PICK S : S = Same(raws[i].msg)
  OBVIOUS
<1>3. Same(raws'[i].msg) = S
  BY <1>1, <1>2
<1>4. \A f \in Folders, u \in Nat, v \in Nat : Holds(f, u, v, S) => Holds(f, u, v, S)'
  BY <1>0, NextServer, HoldsKept
<1> QED BY <1>1, <1>2, <1>3, <1>4 DEF Meant, Names

\* A folder that a write has selected keeps its UIDVALIDITY, and so does every
\* folder in the step of a task.
LEMMA ValidityStays ==
    ASSUME TypeOK, [Next]_vars, NEW t \in Tasks, NEW f \in Folders, Selected(t) = f \/ pc'[t] # pc[t]
    PROVE  validity'[f] = validity[f]
<1>1. ASSUME NEW g \in Folders, ResetValidity(g) PROVE validity'[f] = validity[f]
  BY <1>1 DEF ResetValidity, TypeOK, jobs
<1>2. ASSUME NEW s \in MoveTasks, ReadTrashed(s) \/ MoveStep(s) PROVE validity' = validity
  BY <1>2 DEF ReadTrashed, MoveStep, Scan, MoveAcquire, MoveConnect, MoveFetch, MoveHistory, MoveInsert,
              MoveInsertFails, MoveSend, MoveJudge, MoveRecord, server, UidMove
<1>3. ASSUME NEW s \in UndoTasks, UndoStart(s) \/ UndoStep(s) PROVE validity' = validity
  BY <1>3 DEF UndoStart, UndoStep, UndoClaim, UndoLocate, UndoInsert, UndoSend, UndoJudge, UndoRecord, UndoRelink,
              UndoRelease, server, UidMove
<1>4. ASSUME NEW s \in RecTasks, RecStart(s) \/ RecStep(s) PROVE validity' = validity
  BY <1>4 DEF RecStart, RecStep, RecSource, RecDest, RecWrite, server
<1> QED BY <1>1, <1>2, <1>3, <1>4
        DEF Next, Request, Work, Environment, vars, server, Ingest, Deliver, HandMove, Arrive, Purge, Age, Crash

\* A message found by the Message-ID of a RawEmail is one that was meant.
LEMMA SameMid ==
    ASSUME GarbledUnique, NEW m \in Msgs, NEW n \in Msgs, Mid[m] # None, Mid[n] = Mid[m]
    PROVE  n \in Same(m)
BY DEF GarbledUnique, Same, StoredMid

LEMMA HitMeans ==
    ASSUME TypeOK, UidInv, GarbledUnique, NEW i, NEW mid, Meant(i, mid), NEW f \in Folders, NEW u \in Hits(f, mid)
    PROVE  u \in Nat /\ u > 0 /\ validity[f] \in Nat /\ validity[f] > 0 /\ Names(f, u, validity[f], i)
<1>1. PICK n \in Msgs : mid # None /\ box[n] = f /\ Mid[n] = mid /\ u = uid[n]
  BY DEF Hits
<1>2. PICK m \in Msgs : m = raws[i].msg /\ mid = Mid[m]
  BY DEF Meant, TypeOK, Raw
<1>3. n \in Same(m)
  BY <1>1, <1>2, SameMid
<1>4. u \in Nat /\ validity[f] \in Nat /\ validity[f] > 0
  BY <1>1 DEF TypeOK, UidInv
<1>5. u > 0 /\ Holds(f, u, validity[f], {n})
  BY <1>1, <1>4, PlaceNamed
<1> QED BY <1>2, <1>3, <1>4, <1>5 DEF Names, Meant, Holds

\* So is the message that a UID names, while the UIDVALIDITY is the same.
LEMMA NamedMeant ==
    ASSUME NEW f, NEW u, NEW i, Names(f, u, validity[f], i), NEW h \in Msgs, box[h] = f, uid[h] = u
    PROVE  h \in Same(raws[i].msg)
BY DEF Names, Holds

\* The rows of the jobs, and what they say.
LEMMA RowSubject ==
    ASSUME IInv, UidInv, MeansInv, [Next]_vars, NEW r \in RowIds, rows[r].status # "free"
    PROVE  /\ SameSubject(r) /\ RowMeans(rows[r]) /\ rows[r] \in Row
           /\ Meant(rows[r].raw, rows[r].mid)'
           /\ raws'[rows[r].raw].msg = raws[rows[r].raw].msg
           /\ Names(SourceOf(rows[r]), rows[r].srcUid, rows[r].srcVal, rows[r].raw)'
           /\ SourceOf(rows'[r]) = SourceOf(rows[r]) /\ DestOf(rows'[r]) = DestOf(rows[r])
           /\ rows'[r].undoOf # 0 => rows'[rows'[r].undoOf].raw = rows'[r].raw
<1>1. SameSubject(r) /\ RowMeans(rows[r]) /\ rows[r] \in Row
  BY RowSteps DEF MeansInv, RowsMean, IInv, TypeOK
<1>2. PICK i : i = rows[r].raw /\ i \in RawIds /\ raws[i].msg # None
  BY <1>1 DEF RowMeans, Meant
<1>3. PICK mid : mid = rows[r].mid
  OBVIOUS
<1>4. PICK u \in Nat, v \in Nat, f \in Folders :
         u = rows[r].srcUid /\ v = rows[r].srcVal /\ f = SourceOf(rows[r])
  BY <1>1 DEF Row, SourceOf, Folders
<1>5. Meant(i, mid) /\ Names(f, u, v, i)
  BY <1>1, <1>2, <1>4, <1>3 DEF RowMeans
<1>6. Meant(i, mid)' /\ Names(f, u, v, i)' /\ raws'[i].msg = raws[i].msg
  BY <1>2, <1>5, MeaningStays
<1>7. rows'[r].action = rows[r].action /\ rows'[r].raw = rows[r].raw /\ rows'[r].srcUid = u
      /\ rows'[r].srcVal = v /\ rows'[r].mid = mid /\ rows'[r].undoOf \in {rows[r].undoOf, 0}
  BY <1>1, <1>4, <1>3 DEF SameSubject
<1>8. SourceOf(rows'[r]) = f /\ DestOf(rows'[r]) = DestOf(rows[r])
  BY <1>4, <1>7 DEF SourceOf, DestOf
<1>9. ASSUME rows'[r].undoOf # 0 PROVE rows'[rows'[r].undoOf].raw = rows'[r].raw
  <2>1. PICK o : o = rows[r].undoOf /\ rows'[r].undoOf = o /\ o # 0
    BY <1>7, <1>9
  <2>2. o \in RowIds /\ rows[o].status # "free" /\ rows[o].raw = rows[r].raw
    BY <1>1, <2>1 DEF IInv, OriginalsFree, NotHeld, RowMeans
  <2>3. rows'[o].raw = rows[o].raw
    BY <2>2, RowSteps DEF SameSubject
  <2> QED BY <1>7, <2>1, <2>2, <2>3
<1> QED BY <1>1, <1>2, <1>4, <1>6, <1>7, <1>8, <1>9, <1>3

\* What the server moves for a row is a message that was meant.
LEMMA SentMeans ==
    ASSUME IInv, UidInv, MeansInv, [Next]_vars, NEW held, NEW from \in Folders, NEW to \in Folders \ {from},
           NEW moved \in SUBSET Named(held, from), NEW answer, UidMove(held, from, to, moved, answer),
           NEW r \in held, r \in RowIds, rows[r].status # "free",
           SourceOf(rows[r]) = from, rows[r].srcVal = validity[from],
           NEW copied, copied = CopyUid(r, held, to, moved, answer)
    PROVE  /\ rows'[r].hit # None => rows'[r].hit \in Same(raws[rows[r].raw].msg)
           /\ copied # 0 => validity[to] > 0 /\ Names(to, copied, validity[to], rows[r].raw)'
<1>0. TypeOK /\ TypeOK' /\ UidInv'
  BY NextType, NextServer DEF IInv
<1>1. PICK i : i = rows[r].raw /\ i \in RawIds /\ raws[i].msg # None
  BY RowSubject DEF RowMeans, Meant
<1>2. PICK u : u = rows[r].srcUid /\ Names(from, u, validity[from], i)
  BY <1>1, RowSubject DEF RowMeans
<1>3. PICK S : S = Same(raws[i].msg) /\ Same(raws'[i].msg) = S
  BY <1>1, RowSubject
<1>4. rows[r].hit # None => rows[r].hit \in S
  BY <1>1, <1>3, RowSubject DEF RowMeans
<1>5. ASSUME NEW h \in moved, uid[h] = u PROVE h \in S
  <2>1. h \in Msgs /\ box[h] = from
    BY DEF Named
  <2>2. h \in Same(raws[i].msg)
    BY <1>2, <1>5, <2>1, NamedMeant
  <2> QED BY <1>3, <2>2
<1>6. CASE rows'[r].hit = rows[r].hit /\ copied = 0
  BY <1>1, <1>3, <1>4, <1>6
<1>7. ASSUME NEW h \in moved, rows'[r].hit = h, uid[h] = u, copied = IF answer = "copyuid" THEN uid'[h] ELSE 0
      PROVE  /\ rows'[r].hit # None => rows'[r].hit \in Same(raws[rows[r].raw].msg)
             /\ copied # 0 => validity[to] > 0 /\ Names(to, copied, validity[to], rows[r].raw)'
  <2>1. h \in S
    BY <1>5, <1>7
  <2>2. uid'[h] > 0 /\ Holds(to, uid[h], validity[to], {h})'
    BY <1>0, MovedAway
  <2>3. validity[to] > 0 /\ i = rows'[r].raw /\ raws'[i].msg # None
    BY <1>1, RowSubject DEF UidInv, SameSubject
  <2>4. ASSUME copied # 0 PROVE Names(to, copied, validity[to], rows[r].raw)'
    <3>1. copied = uid'[h]
      BY <1>7, <2>4
    <3>2. Holds(to, copied, validity[to], S)'
      BY <2>1, <2>2, <3>1 DEF Holds
    <3> QED BY <1>1, <1>3, <2>3, <3>2 DEF Names
  <2> QED BY <1>1, <1>3, <1>7, <2>1, <2>3, <2>4
<1> QED BY <1>0, <1>2, <1>6, <1>7, SentRow

LEMMA NewRowMeans ==
    ASSUME IInv, UidInv, MeansInv, [Next]_vars, NEW r \in RowIds, rows[r].status = "free", rows'[r].status # "free"
    PROVE  RowMeans(rows[r])'
<1>0. TypeOK /\ "INBOX" \in Folders /\ "Trash" \in Folders
  BY DEF IInv, Folders
<1>1. ASSUME NEW t \in MoveTasks, NewMoveRow(t, r) PROVE RowMeans(rows[r])'
  <2>1. PICK x \in mv[t].batch : rows'[r] = [FreeRow EXCEPT !.status = "pending", !.raw = x.raw,
                        !.srcUid = x.uid, !.srcVal = mv[t].val, !.mid = x.mid]
    BY <1>1 DEF NewMoveRow
  <2>2. pc[t] = "m_insert" /\ x.uid \in Nat /\ mv[t].val \in Nat
    BY <1>0, <1>1 DEF NewMoveRow, MoveInsert, TypeOK, MoveJob, Target
  <2>3. PICK i, mid : i = x.raw /\ mid = x.mid
    OBVIOUS
  <2>4. PICK u \in Nat, v \in Nat : u = x.uid /\ v = mv[t].val
    BY <2>2
  <2>5. Meant(i, mid) /\ Names("INBOX", u, v, i)
    BY <2>2, <2>3, <2>4 DEF MeansInv, ApplyMeans
  <2>6. Meant(i, mid)' /\ Names("INBOX", u, v, i)'
    BY <1>0, <2>5, MeaningStays DEF Meant
  <2>7. /\ rows'[r].action = "move" /\ rows'[r].hit = None /\ rows'[r].destUid = 0 /\ rows'[r].undoOf = 0
        /\ rows'[r].srcUid = u /\ rows'[r].srcVal = v /\ rows'[r].raw = i /\ rows'[r].mid = mid
    BY <2>1, <2>3, <2>4 DEF FreeRow
  <2> QED BY <2>6, <2>7 DEF RowMeans, SourceOf
<1>2. ASSUME NEW t \in UndoTasks, NewUndoRow(t, r) PROVE RowMeans(rows[r])'
  <2>0. pc[t] = "u_insert" /\ pc[t] \in UndoPcs
    BY <1>2 DEF NewUndoRow, UndoInsert, UndoPcs
  <2>1. PICK o : o = rs[t].orig /\ o \in RowIds /\ rows[o].status # "free" /\ o # 0
    BY <2>0 DEF IInv, UndoInv, NotHeld, RowIds
  <2>2. PICK i, mid : i = rows[o].raw /\ mid = rows[o].mid
    OBVIOUS
  <2>3. PICK u \in Nat, v \in Nat : u = rs[t].uid /\ v = rs[t].val
    BY <1>0 DEF TypeOK, UndoJob
  <2>4. Meant(i, mid) /\ Names("Trash", u, v, i)
    BY <2>0, <2>1, <2>2, <2>3 DEF MeansInv, UndoMeans, RowsMean, RowMeans
  <2>5. Meant(i, mid)' /\ Names("Trash", u, v, i)'
    BY <1>0, <2>4, MeaningStays DEF Meant
  <2>6. /\ rows'[r].action = "restore" /\ rows'[r].hit = None /\ rows'[r].destUid = 0 /\ rows'[r].undoOf = o
        /\ rows'[r].srcUid = u /\ rows'[r].srcVal = v /\ rows'[r].raw = i /\ rows'[r].mid = mid
    BY <1>2, <2>1, <2>2, <2>3 DEF NewUndoRow, FreeRow
  <2>7. rows'[o].raw = i
    BY <2>1, <2>2, RowSteps DEF SameSubject
  <2> QED BY <2>5, <2>6, <2>7 DEF RowMeans, SourceOf
<1> QED BY <1>1, <1>2, NewRows

\* The message that a row notes as moved was meant.
LEMMA HitKept ==
    ASSUME IInv, UidInv, MeansInv, [Next]_vars, NEW r \in RowIds, rows[r].status # "free", rows'[r].hit # None
    PROVE  rows'[r].hit \in Same(raws'[rows'[r].raw].msg)
<1>0. "INBOX" \in Folders \ {"Trash"} /\ "Trash" \in Folders \ {"INBOX"}
  BY DEF Folders
<1>1. /\ rows'[r].raw = rows[r].raw /\ raws'[rows[r].raw].msg = raws[rows[r].raw].msg
      /\ rows[r].hit # None => rows[r].hit \in Same(raws[rows[r].raw].msg)
  BY RowSubject DEF SameSubject, RowMeans
<1>2. ASSUME NEW t \in MoveTasks, r \in mv[t].held, MoveSend(t)
      PROVE  rows'[r].hit \in Same(raws[rows[r].raw].msg)
  <2>1. PICK held : held = mv[t].held
    OBVIOUS
  <2>2. PICK moved \in SUBSET Named(held, "INBOX"), answer \in Answer \ {"none"} :
           UidMove(held, "INBOX", "Trash", moved, answer)
    BY <1>2, <2>1 DEF MoveSend
  <2>3. pc[t] \in InApply /\ rows[r].action = "move"
    BY <1>2 DEF MoveSend, InApply, IInv, HeldFresh
  <2>4. SourceOf(rows[r]) = "INBOX" /\ rows[r].srcVal = validity["INBOX"]
    BY <1>2, <2>3 DEF SourceOf, MeansInv, ApplyMeans
  <2>5. PICK copied : copied = CopyUid(r, held, "Trash", moved, answer)
    OBVIOUS
  <2> QED BY <1>0, <1>2, <2>1, <2>2, <2>4, <2>5, SentMeans
<1>3. ASSUME NEW t \in UndoTasks, r = rs[t].row, UndoSend(t)
      PROVE  rows'[r].hit \in Same(raws[rows[r].raw].msg)
  <2>1. PICK held : held = {rs[t].row} /\ r \in held
    BY <1>3
  <2>2. PICK moved \in SUBSET Named(held, "Trash"), answer \in Answer \ {"none"} :
           UidMove(held, "Trash", "INBOX", moved, answer)
    BY <1>3, <2>1 DEF UndoSend
  <2>3. pc[t] = "u_send" /\ pc[t] \in UndoPcs
    BY <1>3 DEF UndoSend, UndoPcs
  <2>4. SourceOf(rows[r]) = "Trash" /\ rows[r].srcVal = validity["Trash"]
    BY <1>3, <2>3 DEF SourceOf, MeansInv, UndoMeans, IInv, UndoInv
  <2>5. PICK copied : copied = CopyUid(r, held, "INBOX", moved, answer)
    OBVIOUS
  <2> QED BY <1>0, <2>1, <2>2, <2>4, <2>5, SentMeans
<1>4. CASE rows'[r].hit = rows[r].hit
  BY <1>1, <1>4
<1>5. CASE rows'[r].hit # rows[r].hit
  <2>1. \/ \E t \in MoveTasks : r \in mv[t].held /\ MoveSend(t)
        \/ \E t \in UndoTasks : r = rs[t].row /\ UndoSend(t)
    BY <1>5, RowSteps DEF SameFate, FateByMove, FateByUndo, FateByRec
  <2> QED BY <1>1, <1>2, <1>3, <2>1
<1> QED BY <1>4, <1>5

\* The UID that a row says its message got names it.
LEMMA DestKept ==
    ASSUME IInv, UidInv, MeansInv, [Next]_vars, NEW r \in RowIds, rows[r].status # "free", rows'[r].destUid # 0
    PROVE  Names(DestOf(rows[r]), rows[r].destUid, rows[r].destVal, rows[r].raw)'
<1>0. TypeOK /\ RowMeans(rows[r]) /\ rows[r] \in Row /\ rows'[r].raw = rows[r].raw /\ DestOf(rows'[r]) = DestOf(rows[r])
  BY RowSubject DEF IInv, SameSubject
<1>1. PICK f \in Folders, i \in RawIds : f = DestOf(rows[r]) /\ i = rows[r].raw
  BY <1>0 DEF DestOf, Folders, RowMeans, Meant
<1>2. ASSUME NEW u \in Nat, NEW v \in Nat, rows'[r].destUid = u, rows'[r].destVal = v, Names(f, u, v, i)
      PROVE  Names(DestOf(rows[r]), rows[r].destUid, rows[r].destVal, rows[r].raw)'
  <2>1. Names(f, u, v, i)'
    BY <1>2, MeaningStays DEF Names
  <2> QED BY <1>0, <1>1, <1>2, <2>1
<1>3. CASE SameDest(r)
  <2>1. PICK u \in Nat, v \in Nat : u = rows[r].destUid /\ v = rows[r].destVal
    BY <1>0 DEF Row
  <2>2. rows'[r].destUid = u /\ rows'[r].destVal = v /\ Names(f, u, v, i)
    BY <1>0, <1>1, <1>3, <2>1 DEF SameDest, RowMeans
  <2> QED BY <1>2, <2>2
<1>4. ASSUME NEW t \in MoveTasks, FateByMove(t, r), ~SameDest(r)
      PROVE  Names(DestOf(rows[r]), rows[r].destUid, rows[r].destVal, rows[r].raw)'
  <2>1. r \in mv[t].held /\ rows'[r].destUid = mv[t].dest[r] /\ mv[t].dest[r] # 0 /\ rows'[r].destVal = mv[t].destVal
    BY <1>4 DEF FateByMove
  <2>2. mv[t].dest[r] \in Nat /\ mv[t].destVal \in Nat
    <3>1. mv[t] \in MoveJob
      BY <1>0 DEF TypeOK
    <3> QED BY <3>1 DEF MoveJob
  <2>3. f = "Trash"
    BY <1>1, <2>1 DEF IInv, HeldFresh, DestOf
  <2>4. MoveRecord(t) /\ pc[t] = "m_record"
    BY <1>4 DEF FateByMove, MoveRecord
  <2>5. Names(f, mv[t].dest[r], mv[t].destVal, i)
    BY <1>1, <2>1, <2>3, <2>4 DEF MeansInv, ApplyMeans
  <2> QED BY <1>2, <2>1, <2>2, <2>5
<1>5. ASSUME NEW t \in UndoTasks, FateByUndo(t, r), ~SameDest(r)
      PROVE  Names(DestOf(rows[r]), rows[r].destUid, rows[r].destVal, rows[r].raw)'
  <2>1. r = rs[t].row /\ UndoRecord(t) /\ rows'[r].destUid = rs[t].got /\ rs[t].got # 0 /\ rows'[r].destVal = rs[t].gotVal
    BY <1>5 DEF FateByUndo
  <2>2. rs[t].got \in Nat /\ rs[t].gotVal \in Nat
    BY <1>0 DEF TypeOK, UndoJob
  <2>3. pc[t] \in UndoPcs /\ pc[t] \in UndoMove
    BY <2>1 DEF UndoRecord, UndoPcs, UndoMove
  <2>4. f = "INBOX"
    BY <1>1, <2>1, <2>3 DEF IInv, UndoInv, UndoMove, DestOf
  <2>5. Names(f, rs[t].got, rs[t].gotVal, i)
    BY <1>1, <2>1, <2>3, <2>4 DEF MeansInv, UndoMeans
  <2> QED BY <1>2, <2>1, <2>2, <2>5
<1>6. ASSUME NEW t \in RecTasks, FateByRec(t, r), ~SameDest(r)
      PROVE  Names(DestOf(rows[r]), rows[r].destUid, rows[r].destVal, rows[r].raw)'
  <2>1. PICK row : row = rc[t].snap[rc[t].cur]
    OBVIOUS
  <2>2. /\ RecWrite(t) /\ rows'[r].destUid = rc[t].uid /\ rows'[r].destVal = rc[t].val
        /\ \/ r = rc[t].cur /\ rc[t].verdict # "stayed"
           \/ r # rc[t].cur /\ r = row.undoOf /\ row.action = "restore" /\ rc[t].verdict = "stayed"
    BY <1>6, <2>1 DEF FateByRec
  <2>3. rc[t].uid \in Nat /\ rc[t].val \in Nat
    BY <1>0 DEF TypeOK, RecJob
  <2>4. pc[t] = "r_write" /\ pc[t] \in RecPcs /\ rc[t].cur \in RecOf(t) /\ r # 0
    BY <2>2 DEF RecWrite, RecPcs, RecOf, RowIds
  <2>5. /\ Names(IF rc[t].verdict = "stayed" THEN SourceOf(row) ELSE DestOf(row), rc[t].uid, rc[t].val, row.raw)
        /\ RowMeans(row) /\ rows[rc[t].cur].raw = row.raw
    BY <2>1, <2>4 DEF MeansInv, RecMeans, ReadMeans, DecidedMeans
  <2>6. CASE r = rc[t].cur /\ rc[t].verdict # "stayed"
    <3>1. row.action = rows[r].action
      BY <2>1, <2>4, <2>6 DEF IInv, RecInv
    <3>2. Names(f, rc[t].uid, rc[t].val, i)
      BY <1>1, <2>5, <2>6, <3>1 DEF DestOf
    <3> QED BY <1>2, <2>2, <2>3, <3>2
  <2>7. CASE r # rc[t].cur /\ r = row.undoOf /\ row.action = "restore" /\ rc[t].verdict = "stayed"
    <3>1. rows[r].action = "move"
      BY <2>1, <2>4, <2>7 DEF IInv, RecInv, NotHeld
    <3>2. row.raw = i
      BY <1>1, <2>4, <2>5, <2>7 DEF RowMeans
    <3>3. Names(f, rc[t].uid, rc[t].val, i)
      BY <1>1, <2>5, <2>7, <3>1, <3>2 DEF DestOf, SourceOf
    <3> QED BY <1>2, <2>2, <2>3, <3>3
  <2> QED BY <2>2, <2>6, <2>7
<1> QED BY <1>3, <1>4, <1>5, <1>6, RowSteps DEF SameFate

LEMMA RowsMeanKept ==
    ASSUME IInv, UidInv, MeansInv, [Next]_vars
    PROVE  RowsMean'
<1> SUFFICES ASSUME NEW r \in RowIds, rows'[r].status # "free"
             PROVE  RowMeans(rows[r])'
  BY DEF RowsMean
<1>1. CASE rows[r].status = "free"
  BY <1>1, NewRowMeans
<1>2. CASE rows[r].status # "free"
  <2>1. /\ Meant(rows[r].raw, rows[r].mid)'
        /\ rows'[r].hit # None => rows'[r].hit \in Same(raws'[rows'[r].raw].msg)
        /\ rows'[r].destUid # 0 => Names(DestOf(rows[r]), rows[r].destUid, rows[r].destVal, rows[r].raw)'
        /\ rows'[r].undoOf # 0 => rows'[rows'[r].undoOf].raw = rows'[r].raw
    BY <1>2, RowSubject, HitKept, DestKept
  <2>2. Names(SourceOf(rows[r]), rows[r].srcUid, rows[r].srcVal, rows[r].raw)'
    BY <1>2, RowSubject
  <2> QED BY <2>1, <2>2 DEF RowMeans
<1> QED BY <1>1, <1>2

LEMMA RawsMeanKept ==
    ASSUME IInv, UidInv, MeansInv, [Next]_vars
    PROVE  RawsMean'
<1> SUFFICES ASSUME NEW i \in RawIds, raws'[i].msg # None, raws'[i].val # 0
             PROVE  Names("INBOX", raws[i].uid, raws[i].val, i)'
  BY DEF RawsMean
<1>0. TypeOK /\ TypeOK' /\ UidInv' /\ "INBOX" \in Folders
  BY NextType, NextServer DEF IInv, Folders
<1>1. ASSUME raws[i].msg # None, NEW u \in Nat, NEW v \in Nat, raws'[i].uid = u, raws'[i].val = v, Names("INBOX", u, v, i)
      PROVE  Names("INBOX", raws[i].uid, raws[i].val, i)'
  <2>1. Names("INBOX", u, v, i)'
    BY <1>0, <1>1, MeaningStays
  <2> QED BY <1>1, <2>1
<1>2. CASE raws'[i] = raws[i]
  <2>1. PICK u \in Nat, v \in Nat : u = raws[i].uid /\ v = raws[i].val
    BY <1>0 DEF TypeOK, Raw
  <2>2. raws[i].msg # None /\ raws'[i].uid = u /\ raws'[i].val = v /\ Names("INBOX", u, v, i)
    BY <1>2, <2>1 DEF MeansInv, RawsMean
  <2> QED BY <1>1, <2>2
<1>3. ASSUME NEW m \in Msgs, Ingest(m, i)
      PROVE  Names("INBOX", raws[i].uid, raws[i].val, i)'
  <2>1. PICK u \in Nat, v \in Nat : u = uid[m] /\ v = validity["INBOX"]
    BY <1>0 DEF TypeOK
  <2>2. box[m] = "INBOX" /\ raws'[i].msg = m /\ raws'[i].uid = u /\ raws'[i].val \in {v, 0}
    BY <1>0, <1>3, <2>1 DEF Ingest, TypeOK
  <2>3. Holds("INBOX", u, v, {m})'
    <3>1. Holds("INBOX", u, v, {m})
      BY <1>0, <2>1, <2>2, PlaceNamed
    <3> QED BY <1>0, <3>1, NextServer, HoldsKept
  <2>4. m \in Same(m)
    BY DEF Same, StoredMid
  <2> QED BY <2>2, <2>3, <2>4 DEF Names, Holds
<1>4. ASSUME NEW t \in UndoTasks, UndoRelink(t), i = rows[rs[t].orig].raw, rs[t].got # 0, Pointed(i, rs[t].got, rs[t].gotVal)
      PROVE  Names("INBOX", raws[i].uid, raws[i].val, i)'
  <2>1. pc[t] \in UndoPcs /\ rs[t].got \in Nat /\ rs[t].gotVal \in Nat
    BY <1>0, <1>4 DEF UndoRelink, UndoPcs, TypeOK, UndoJob
  <2>2. rs[t].gotVal > 0 /\ Names("INBOX", rs[t].got, rs[t].gotVal, i)
    BY <1>4, <2>1 DEF MeansInv, UndoMeans
  <2>3. raws[i].msg # None
    BY <2>2 DEF Names
  <2>4. raws'[i].uid = rs[t].got /\ raws'[i].val = rs[t].gotVal
    BY <1>4, <2>1, <2>2 DEF Pointed
  <2> QED BY <1>1, <2>1, <2>2, <2>3, <2>4
<1>5. ASSUME NEW t \in RecTasks, NEW row, row = rc[t].snap[rc[t].cur], RecWrite(t), row.action = "restore",
             rc[t].verdict = "arrived", i = row.raw, Pointed(i, rc[t].uid, rc[t].val)
      PROVE  Names("INBOX", raws[i].uid, raws[i].val, i)'
  <2>1. pc[t] = "r_write" /\ pc[t] \in RecPcs /\ rc[t].uid \in Nat /\ rc[t].val \in Nat
    BY <1>0, <1>5 DEF RecWrite, RecPcs, TypeOK, RecJob
  <2>2. rc[t].val > 0 /\ Names("INBOX", rc[t].uid, rc[t].val, i)
    BY <1>5, <2>1 DEF MeansInv, RecMeans, DecidedMeans, DestOf
  <2>3. PICK u \in Nat, v \in Nat : u = rc[t].uid /\ v = rc[t].val /\ v > 0 /\ Names("INBOX", u, v, i)
    BY <2>1, <2>2
  <2>4. Pointed(i, u, v)
    BY <1>5, <2>3
  <2>5. raws[i].msg # None /\ raws'[i].uid = u /\ raws'[i].val = v
    BY <2>3, <2>4 DEF Pointed, Names
  <2> QED BY <1>1, <2>3, <2>5
<1> QED BY <1>0, <1>2, <1>3, <1>4, <1>5, RawSteps

LEMMA TargetStays ==
    ASSUME IInv, UidInv, [Next]_vars, NEW x \in Target, TargetMeans(x)
    PROVE  TargetMeans(x)'
<1>1. PICK i \in RawIds, u \in Nat, v \in Nat : i = x.raw /\ u = x.uid /\ v = x.val
  BY DEF Target
<1>2. raws[i].msg # None /\ (v # 0 => Names("INBOX", u, v, i)) /\ "INBOX" \in Folders
  BY <1>1 DEF TargetMeans, Folders
<1>3. raws'[i].msg = raws[i].msg /\ (v # 0 => Names("INBOX", u, v, i)')
  BY <1>2, MeaningStays
<1> QED BY <1>1, <1>2, <1>3 DEF TargetMeans

\* A confirmed target is the message that was meant, and its audit row gets
\* the Message-ID of it.
LEMMA ConfirmedMeans ==
    ASSUME TypeOK, UidInv, NEW x \in Target, TargetMeans(x), NEW v, v = validity["INBOX"], Confirmed(x, v),
           NEW y, y = WithMid(x)
    PROVE  y.raw = x.raw /\ y.uid = x.uid /\ Meant(x.raw, y.mid) /\ Names("INBOX", x.uid, v, x.raw)
<1>1. PICK i \in RawIds, m \in Msgs : i = x.raw /\ m = raws[i].msg /\ x.mid = StoredMid(m)
  BY DEF TargetMeans, TypeOK, Raw
<1>2. PICK n \in Msgs : box[n] = "INBOX" /\ uid[n] = x.uid /\ EnvelopeMid("INBOX", x.uid) = Mid[n]
  BY DEF Confirmed, Present, MsgsAt, EnvelopeMid
<1>3. v \in Nat /\ uid[n] > 0 /\ Holds("INBOX", uid[n], v, {n})
  BY <1>2, PlaceNamed DEF TypeOK, Folders
<1>4. raws[i].msg # None
  BY <1>1 DEF TargetMeans
<1>5. y.raw = x.raw /\ y.uid = x.uid /\ y.mid = IF x.mid = None THEN Mid[n] ELSE x.mid
  BY <1>2 DEF WithMid, Target
<1>6. CASE x.mid # None
  <2>1. n \in Same(m) /\ y.mid = Mid[m]
    BY <1>1, <1>2, <1>5, <1>6 DEF Confirmed, Same, StoredMid
  <2> QED BY <1>1, <1>2, <1>3, <1>4, <1>5, <2>1 DEF Meant, Names, Holds
<1>7. CASE x.mid = None
  <2>1. x.val = v /\ x.val # 0
    BY <1>7 DEF Confirmed
  <2>2. Names("INBOX", x.uid, v, x.raw)
    BY <2>1 DEF TargetMeans
  <2>3. n \in Same(m)
    BY <1>1, <1>2, <2>2 DEF Names, Holds
  <2>4. n = m
    BY <1>1, <1>7, <2>3 DEF Same
  <2> QED BY <1>1, <1>4, <1>5, <1>7, <2>2, <2>4 DEF Meant
<1> QED BY <1>6, <1>7

LEMMA HeldMeans ==
    ASSUME IInv, UidInv, MeansInv, [Next]_vars, NEW t \in MoveTasks, NEW r \in mv[t].held
    PROVE  /\ r \in RowIds /\ rows[r].status # "free" /\ rows[r].action = "move"
           /\ pc[t] \in {"m_insert", "m_send", "m_judge", "m_record"}
           /\ rows'[r].srcVal = mv[t].val /\ rows'[r].raw = rows[r].raw
           /\ pc[t] \in InApply /\ rows[r].srcVal = validity["INBOX"]
           /\ pc[t] \in {"m_judge", "m_record"} /\ mv[t].dest[r] # 0 =>
                \A d, v : d = mv[t].dest[r] /\ v = mv[t].destVal => Names("Trash", d, v, rows[r].raw)'
<1>0. TypeOK /\ "Trash" \in Folders /\ mv[t] \in MoveJob
  BY DEF IInv, TypeOK, Folders
<1>1. r \in RowIds /\ rows[r].status # "free" /\ rows[r].action = "move"
  BY <1>0 DEF IInv, HeldFresh, MoveJob
<1>2. pc[t] \in {"m_insert", "m_send", "m_judge", "m_record"} /\ rows[r].srcVal = mv[t].val
  BY DEF MeansInv, ApplyMeans
<1>3. pc[t] \in InApply /\ rows[r].srcVal = validity["INBOX"]
  BY <1>2 DEF InApply, MeansInv, ApplyMeans
<1>4. rows'[r].srcVal = rows[r].srcVal /\ rows'[r].raw = rows[r].raw
  BY <1>1, RowSteps DEF SameSubject
<1>5. PICK d \in Nat, v \in Nat : d = mv[t].dest[r] /\ v = mv[t].destVal
  BY <1>0, <1>1 DEF MoveJob
<1>6. PICK i : i = rows[r].raw
  OBVIOUS
<1>7. ASSUME pc[t] \in {"m_judge", "m_record"}, mv[t].dest[r] # 0 PROVE Names("Trash", d, v, i)'
  <2>1. Names("Trash", d, v, i)
    BY <1>5, <1>6, <1>7 DEF MeansInv, ApplyMeans
  <2> QED BY <1>0, <2>1, MeaningStays DEF Names
<1> QED BY <1>1, <1>2, <1>3, <1>4, <1>5, <1>6, <1>7

LEMMA ApplyMeansKept ==
    ASSUME IInv, UidInv, MeansInv, [Next]_vars
    PROVE  ApplyMeans'
<1>0. TypeOK /\ TypeOK' /\ "INBOX" \in Folders /\ "Trash" \in Folders \ {"INBOX"}
  BY NextType DEF IInv, Folders
<1> SUFFICES ASSUME NEW t \in MoveTasks
             PROVE  /\ \A x \in mv'[t].todo : TargetMeans(x)'
                    /\ pc'[t] \in InApply => mv'[t].val = validity'["INBOX"]
                    /\ pc'[t] \in {"m_history", "m_insert"} =>
                         \A x \in mv'[t].batch : Meant(x.raw, x.mid)' /\ Names("INBOX", x.uid, mv[t].val, x.raw)'
                    /\ \A r \in mv'[t].held :
                         /\ pc'[t] \in {"m_insert", "m_send", "m_judge", "m_record"} /\ rows'[r].srcVal = mv'[t].val
                         /\ pc'[t] \in {"m_judge", "m_record"} /\ mv'[t].dest[r] # 0 =>
                              Names("Trash", mv[t].dest[r], mv[t].destVal, rows[r].raw)'
  BY DEF ApplyMeans
<1>1. t \in Tasks /\ mv[t] \in MoveJob /\ mv[t].todo \subseteq Target /\ mv[t].batch \subseteq Target /\ mv[t].val \in Nat
  BY <1>0 DEF TypeOK, MoveJob, Tasks
<1>2. ASSUME NEW x \in mv'[t].todo PROVE TargetMeans(x)'
  <2>1. CASE x \in mv[t].todo
    BY <1>1, <2>1, TargetStays DEF MeansInv, ApplyMeans
  <2>2. CASE Chooses(t)
    <3>1. PICK i \in Eligible(t) : x = TargetOf(i)
      BY <1>2, <2>2 DEF Chooses
    <3>2. /\ i \in RawIds /\ raws[i].msg # None /\ raws[i] \in Raw
          /\ x.raw = i /\ x.uid = raws[i].uid /\ x.val = raws[i].val /\ x.mid = StoredMid(raws[i].msg)
      BY <1>0, <3>1 DEF Eligible, TargetOf, TypeOK
    <3>3. TargetMeans(x)
      BY <3>2 DEF TargetMeans, MeansInv, RawsMean
    <3>4. x \in Target
      <4>1. mv'[t].todo \subseteq Target
        BY <1>0 DEF TypeOK, MoveJob
      <4> QED BY <1>2, <4>1
    <3> QED BY <3>3, <3>4, TargetStays
  <2> QED BY <1>0, <1>2, <2>1, <2>2, ApplySteps
          DEF Over, Waits, Selects, Proceeds, Fetches, Checks, Inserts, Sends, Judges, SamePlan, NoMoveJob
<1>3. ASSUME pc'[t] \in InApply PROVE mv'[t].val = validity'["INBOX"]
  <2>1. pc[t] \in InApply \/ pc'[t] # pc[t] => validity'["INBOX"] = validity["INBOX"]
    BY <1>0, <1>1, ValidityStays DEF Selected, InApply
  <2>2. pc[t] \in InApply => mv[t].val = validity["INBOX"]
    BY DEF MeansInv, ApplyMeans
  <2>3. (pc[t] \in InApply /\ mv'[t].val = mv[t].val) \/ (pc'[t] # pc[t] /\ mv'[t].val = validity["INBOX"])
    BY <1>0, <1>3, ApplySteps
       DEF Over, Waits, Chooses, Selects, Proceeds, Fetches, Checks, Inserts, Sends, Judges, SamePlan, InApply
  <2> QED BY <2>1, <2>2, <2>3
<1>4. ASSUME pc'[t] \in {"m_history", "m_insert"}, NEW x \in mv'[t].batch
      PROVE  Meant(x.raw, x.mid)' /\ Names("INBOX", x.uid, mv[t].val, x.raw)'
  <2>1. ASSUME NEW i, NEW mid, NEW u \in Nat, i = x.raw, mid = x.mid, u = x.uid, mv'[t].val = mv[t].val,
               Meant(i, mid), Names("INBOX", u, mv[t].val, i)
        PROVE  Meant(x.raw, x.mid)' /\ Names("INBOX", x.uid, mv[t].val, x.raw)'
    <3>1. PICK v \in Nat : v = mv[t].val
      BY <1>1
    <3>2. Meant(i, mid)' /\ Names("INBOX", u, v, i)'
      BY <1>0, <2>1, <3>1, MeaningStays DEF Meant
    <3> QED BY <2>1, <3>1, <3>2
  <2>2. CASE Fetches(t)
    <3>1. PICK y \in mv[t].todo : Confirmed(y, mv[t].val) /\ x = WithMid(y)
      BY <1>4, <2>2 DEF Fetches
    <3>2. y \in Target /\ TargetMeans(y) /\ mv[t].val = validity["INBOX"] /\ mv'[t].val = mv[t].val
      BY <1>1, <2>2, <3>1 DEF MeansInv, ApplyMeans, Fetches, InApply
    <3>3. x.raw = y.raw /\ x.uid = y.uid /\ Meant(y.raw, x.mid) /\ Names("INBOX", y.uid, mv[t].val, y.raw)
      BY <1>0, <3>1, <3>2, ConfirmedMeans
    <3>4. y.uid \in Nat
      BY <3>2 DEF Target
    <3> QED BY <2>1, <3>2, <3>3, <3>4
  <2>3. CASE pc[t] \in {"m_history", "m_insert"} /\ x \in mv[t].batch /\ mv'[t].val = mv[t].val
    <3>1. Meant(x.raw, x.mid) /\ Names("INBOX", x.uid, mv[t].val, x.raw)
      BY <2>3 DEF MeansInv, ApplyMeans
    <3>2. x.uid \in Nat
      BY <1>1, <2>3 DEF Target
    <3> QED BY <2>1, <2>3, <3>1, <3>2
  <2> QED BY <1>0, <1>4, <2>2, <2>3, ApplySteps
          DEF Over, Waits, Chooses, Selects, Proceeds, Checks, Inserts, Sends, Judges, SamePlan
<1>5. ASSUME NEW r \in mv'[t].held
      PROVE  /\ pc'[t] \in {"m_insert", "m_send", "m_judge", "m_record"} /\ rows'[r].srcVal = mv'[t].val
             /\ pc'[t] \in {"m_judge", "m_record"} /\ mv'[t].dest[r] # 0 =>
                  Names("Trash", mv[t].dest[r], mv[t].destVal, rows[r].raw)'
  <2>1. CASE pc'[t] = pc[t] /\ mv'[t] = mv[t]
    BY <1>5, <2>1, HeldMeans
  <2>2. CASE Over(t) \/ Chooses(t) \/ Proceeds(t)
    BY <1>5, <2>2 DEF Over, Chooses, Proceeds, NoMoveJob
  <2>3. CASE Waits(t) \/ Selects(t) \/ Fetches(t) \/ Checks(t)
    BY <1>5, <2>3, HeldMeans DEF Waits, Selects, Fetches, Checks, SameHeld
  <2>4. CASE Inserts(t)
    <3>1. CASE r \in mv[t].held
      BY <2>4, <3>1, HeldMeans DEF Inserts, SamePlan
    <3>2. ASSUME NEW x, NEW q, WritesRow(t, x, q), r = q PROVE rows'[r].srcVal = mv[t].val
      BY <1>0, <3>2 DEF WritesRow, FreeRow, TypeOK
    <3> QED BY <1>5, <2>4, <3>1, <3>2 DEF Inserts, SamePlan, SameHeld, WritesRow
  <2>5. CASE MoveSend(t) /\ Sends(t)
    <3>1. PICK held : held = mv[t].held /\ r \in held
      BY <1>5, <2>5 DEF Sends
    <3>2. PICK moved \in SUBSET Named(held, "INBOX"), answer \in Answer \ {"none"} :
             /\ UidMove(held, "INBOX", "Trash", moved, answer)
             /\ \A q \in RowIds : mv'[t].dest[q] = CopyUid(q, held, "Trash", moved, answer)
      BY <2>5, <3>1 DEF Sends
    <3>3. /\ r \in RowIds /\ rows[r].status # "free" /\ rows[r].srcVal = validity["INBOX"]
          /\ SourceOf(rows[r]) = "INBOX" /\ rows'[r].srcVal = mv[t].val
      BY <3>1, HeldMeans DEF SourceOf
    <3>4. PICK copied : copied = CopyUid(r, held, "Trash", moved, answer) /\ mv'[t].dest[r] = copied
      BY <3>2, <3>3
    <3>5. copied # 0 => Names("Trash", copied, validity["Trash"], rows[r].raw)'
      BY <1>0, <3>1, <3>2, <3>3, <3>4, SentMeans
    <3>6. mv'[t].destVal = validity'["Trash"] /\ pc'[t] = "m_judge" /\ mv'[t].val = mv[t].val
      BY <2>5, <3>2 DEF Sends, UidMove, SamePlan
    <3> QED BY <3>3, <3>4, <3>5, <3>6
  <2>6. CASE Judges(t)
    BY <1>5, <2>6, HeldMeans DEF Judges, SameHeld, SameDests, SamePlan
  <2> QED BY <1>0, <2>1, <2>2, <2>3, <2>4, <2>5, <2>6, ApplySteps
<1> QED BY <1>2, <1>3, <1>4, <1>5

LEMMA UndoMeansKept ==
    ASSUME IInv, UidInv, GarbledUnique, MeansInv, [Next]_vars
    PROVE  UndoMeans'
<1>0. TypeOK /\ TypeOK' /\ UidInv' /\ "INBOX" \in Folders \ {"Trash"} /\ "Trash" \in Folders
  BY NextType, NextServer DEF IInv, Folders
<1> SUFFICES ASSUME NEW t \in UndoTasks, pc'[t] \in UndoPcs
             PROVE  /\ rs'[t].destUid # 0 => Names("Trash", rs[t].destUid, rs[t].destVal, rows[rs[t].orig].raw)'
                    /\ pc'[t] = "u_insert" => Names("Trash", rs[t].uid, rs[t].val, rows[rs[t].orig].raw)'
                    /\ pc'[t] \in {"u_insert", "u_send"} => rs'[t].val = validity'["Trash"]
                    /\ pc'[t] = "u_send" => rows'[rs'[t].row].srcVal = rs'[t].val
                    /\ pc'[t] \in UndoMove => rows'[rs'[t].row].raw = rows'[rs'[t].orig].raw
                    /\ rs'[t].got # 0 => rs'[t].gotVal > 0 /\ Names("INBOX", rs[t].got, rs[t].gotVal, rows[rs[t].orig].raw)'
  BY DEF UndoMeans
<1>1. t \in Tasks /\ rs[t] \in UndoJob /\ rs'[t] \in UndoJob
  BY <1>0 DEF TypeOK, Tasks
\* Its original, and what that is of.
<1>2. PICK o : o = rs'[t].orig
  OBVIOUS
<1>3. o \in RowIds /\ rows[o].status # "free" /\ ((rs'[t].orig = rs[t].orig /\ pc[t] \in UndoPcs) \/ Begins(t))
  <2>1. CASE rs'[t].orig = rs[t].orig /\ pc[t] \in UndoPcs
    BY <1>2, <2>1 DEF IInv, UndoInv, NotHeld
  <2>2. CASE Begins(t)
    BY <1>2, <2>2 DEF Begins
  <2> QED BY <2>1, <2>2, UndoSteps
          DEF GoesForth, Locates, Rows, SendsBack, LooksUp, SameOriginal, UndoPcs
<1>4. PICK i : i = rows[o].raw /\ i \in RawIds /\ raws[i].msg # None /\ rows'[o].raw = i
  BY <1>3, RowSubject DEF RowMeans, Meant, SameSubject
<1>5. \A f \in Folders, u \in Nat, v \in Nat : Names(f, u, v, i) => Names(f, u, v, i)'
  BY <1>4, MeaningStays
<1>6. Meant(i, rows[o].mid)
  BY <1>3, <1>4, RowSubject DEF RowMeans
\* Its own row.
<1>7. ASSUME pc[t] \in UndoPcs, pc[t] \in UndoMove, rs'[t].row = rs[t].row, rs'[t].orig = rs[t].orig
      PROVE  /\ rs[t].row \in RowIds /\ rows[rs[t].row].status # "free" /\ rows[rs[t].row].action = "restore"
             /\ rows[rs[t].row].raw = i /\ rows'[rs[t].row].raw = i
             /\ rows'[rs[t].row].srcVal = rows[rs[t].row].srcVal
  <2>1. rs[t].row \in RowIds /\ rows[rs[t].row].status # "free" /\ rows[rs[t].row].action = "restore"
    BY <1>7 DEF IInv, UndoInv, UndoMove
  <2>2. rows[rs[t].row].raw = i
    BY <1>2, <1>4, <1>7 DEF MeansInv, UndoMeans
  <2> QED BY <2>1, <2>2, RowSteps DEF SameSubject
<1>8. ASSUME rs'[t].destUid = rs[t].destUid, rs'[t].destVal = rs[t].destVal, rs'[t].orig = rs[t].orig, pc[t] \in UndoPcs,
             rs'[t].destUid # 0
      PROVE  Names("Trash", rs[t].destUid, rs[t].destVal, rows[rs[t].orig].raw)'
  <2>1. PICK u \in Nat, v \in Nat : u = rs[t].destUid /\ v = rs[t].destVal
    BY <1>1 DEF UndoJob
  <2>2. Names("Trash", u, v, i)
    BY <1>2, <1>4, <1>8, <2>1 DEF MeansInv, UndoMeans
  <2> QED BY <1>0, <1>2, <1>4, <1>5, <1>8, <2>1, <2>2
<1>9. ASSUME rs'[t].got = rs[t].got, rs'[t].gotVal = rs[t].gotVal, rs'[t].orig = rs[t].orig, pc[t] \in UndoPcs,
             rs'[t].got # 0
      PROVE  rs'[t].gotVal > 0 /\ Names("INBOX", rs[t].got, rs[t].gotVal, rows[rs[t].orig].raw)'
  <2>1. PICK u \in Nat, v \in Nat : u = rs[t].got /\ v = rs[t].gotVal
    BY <1>1 DEF UndoJob
  <2>2. v > 0 /\ Names("INBOX", u, v, i)
    BY <1>2, <1>4, <1>9, <2>1 DEF MeansInv, UndoMeans
  <2> QED BY <1>0, <1>2, <1>4, <1>5, <1>9, <2>1, <2>2
<1>10. pc[t] \in {"u_insert", "u_send", "u_judge"} \/ pc'[t] # pc[t] => validity'["Trash"] = validity["Trash"]
  BY <1>0, <1>1, ValidityStays DEF Selected
<1>11. pc'[t] # pc[t] => validity'["INBOX"] = validity["INBOX"]
  BY <1>0, <1>1, ValidityStays
<1>12. CASE pc'[t] = pc[t] /\ rs'[t] = rs[t]
  <2>1. pc'[t] = "u_insert" => Names("Trash", rs[t].uid, rs[t].val, rows[rs[t].orig].raw)'
    <3>1. PICK u \in Nat, v \in Nat : u = rs[t].uid /\ v = rs[t].val
      BY <1>1 DEF UndoJob
    <3>2. pc[t] = "u_insert" => Names("Trash", u, v, i)
      BY <1>2, <1>4, <1>12, <3>1 DEF MeansInv, UndoMeans
    <3> QED BY <1>0, <1>2, <1>4, <1>5, <1>12, <3>1, <3>2
  <2>2. pc'[t] \in {"u_insert", "u_send"} => rs'[t].val = validity'["Trash"]
    BY <1>10, <1>12 DEF MeansInv, UndoMeans
  <2>3. pc'[t] = "u_send" => rows'[rs'[t].row].srcVal = rs'[t].val
    BY <1>7, <1>12 DEF MeansInv, UndoMeans, UndoMove
  <2>4. pc'[t] \in UndoMove => rows'[rs'[t].row].raw = rows'[rs'[t].orig].raw
    BY <1>2, <1>4, <1>7, <1>12
  <2> QED BY <1>8, <1>9, <1>12, <2>1, <2>2, <2>3, <2>4
<1>13. CASE Begins(t)
  <2>1. pc'[t] = "u_claim" /\ rs'[t].got = 0 /\ rows[o].action = "move"
        /\ rs'[t].destUid = rows[o].destUid /\ rs'[t].destVal = rows[o].destVal
    BY <1>2, <1>13 DEF Begins
  <2>2. PICK u \in Nat, v \in Nat : u = rs'[t].destUid /\ v = rs'[t].destVal
    BY <1>1 DEF UndoJob
  <2>3. u # 0 => Names("Trash", u, v, i)
    BY <1>3, <1>4, <2>1, <2>2, RowSubject DEF RowMeans, DestOf
  <2> QED BY <1>0, <1>2, <1>4, <1>5, <2>1, <2>2, <2>3 DEF UndoMove
<1>14. CASE GoesForth(t)
  <2>1. pc'[t] \notin {"u_insert", "u_send"} /\ pc[t] \in UndoPcs /\ (pc'[t] \in UndoMove => pc[t] \in UndoMove)
    BY <1>14 DEF GoesForth, UndoMove, UndoPcs
  <2>2. pc'[t] \in UndoMove => rows'[rs'[t].row].raw = rows'[rs'[t].orig].raw
    BY <1>2, <1>4, <1>7, <1>14, <2>1 DEF GoesForth
  <2> QED BY <1>8, <1>9, <1>14, <2>1, <2>2 DEF GoesForth
<1>15. CASE Locates(t)
  <2>0. /\ pc[t] = "u_locate" /\ pc'[t] = "u_insert" /\ pc[t] \in UndoPcs /\ SameOriginal(t) /\ SameGot(t)
        /\ rs'[t].uid # 0 /\ Located(rs[t], rows[o].mid, rs'[t].uid) /\ rs'[t].val = validity["Trash"]
        /\ rs'[t].orig = rs[t].orig
    BY <1>2, <1>15 DEF Locates, UndoPcs, SameOriginal
  <2>1. PICK u \in Nat, v \in Nat : u = rs'[t].uid /\ v = validity["Trash"]
    BY <1>0, <1>1 DEF UndoJob, TypeOK
  <2>2. Names("Trash", u, v, i)
    <3>1. CASE u = rs[t].destUid /\ rs[t].destUid # 0 /\ rs[t].destVal = validity["Trash"]
      BY <1>2, <1>4, <2>0, <2>1, <3>1 DEF MeansInv, UndoMeans
    <3>2. CASE Found("Trash", rows[o].mid, u)
      <4>1. u \in Hits("Trash", rows[o].mid)
        BY <2>0, <2>1, <3>2 DEF Found
      <4> QED BY <1>0, <1>6, <2>1, <4>1, HitMeans
    <3> QED BY <2>0, <2>1, <3>1, <3>2 DEF Located
  <2>3. Names("Trash", rs[t].uid, rs[t].val, rows[rs[t].orig].raw)'
    BY <1>0, <1>2, <1>4, <1>5, <2>0, <2>1, <2>2
  <2> QED BY <1>8, <1>9, <1>10, <2>0, <2>3 DEF SameOriginal, SameGot, UndoMove
<1>16. CASE UndoInsert(t) /\ Rows(t)
  <2>0. /\ pc[t] = "u_insert" /\ pc'[t] = "u_send" /\ pc[t] \in UndoPcs /\ SameOriginal(t) /\ SamePlace(t) /\ SameGot(t)
        /\ rs'[t].orig = rs[t].orig
    BY <1>16 DEF Rows, UndoPcs, SameOriginal
  <2>1. PICK r \in RowIds :
         /\ rs'[t].row = r /\ rows[r].status = "free"
         /\ rows' = [rows EXCEPT ![r] = [FreeRow EXCEPT !.action = "restore",
                        !.status = "pending", !.raw = rows[o].raw, !.srcUid = rs[t].uid,
                        !.srcVal = rs[t].val, !.mid = rows[o].mid, !.undoOf = o]]
    BY <1>2, <1>16, <2>0 DEF Rows
  <2>2. rows'[r].raw = i /\ rows'[r].srcVal = rs[t].val
    BY <1>0, <1>4, <2>1 DEF FreeRow, TypeOK
  <2>3. rs'[t].val = rs[t].val /\ rs[t].val = validity["Trash"]
    BY <2>0 DEF SamePlace, MeansInv, UndoMeans
  <2> QED BY <1>2, <1>4, <1>8, <1>9, <1>10, <2>0, <2>1, <2>2, <2>3 DEF SameOriginal, SameGot
<1>17. CASE UndoSend(t) /\ SendsBack(t)
  <2>0. /\ pc[t] = "u_send" /\ pc'[t] = "u_judge" /\ pc[t] \in UndoPcs /\ pc[t] \in UndoMove
        /\ rs'[t].orig = rs[t].orig /\ rs'[t].destUid = rs[t].destUid /\ rs'[t].destVal = rs[t].destVal
        /\ rs'[t].row = rs[t].row /\ rs'[t].gotVal = validity["INBOX"]
    BY <1>17 DEF SendsBack, UndoPcs, UndoMove, SameOriginal
  <2>1. PICK r \in RowIds : r = rs[t].row /\ rows[r].status # "free" /\ rows[r].action = "restore"
                            /\ rows[r].raw = i /\ rows'[r].raw = i
    BY <1>7, <2>0
  <2>2. PICK held : held = {rs[t].row} /\ r \in held
    BY <2>1
  <2>3. PICK moved \in SUBSET Named(held, "Trash"), answer \in Answer \ {"none"} :
         /\ UidMove(held, "Trash", "INBOX", moved, answer)
         /\ rs'[t].got = CopyUid(r, held, "INBOX", moved, answer)
    BY <1>17, <2>1, <2>2 DEF SendsBack
  <2>4. SourceOf(rows[r]) = "Trash" /\ rows[r].srcVal = validity["Trash"]
    BY <2>0, <2>1 DEF SourceOf, MeansInv, UndoMeans
  <2>5. PICK copied : copied = CopyUid(r, held, "INBOX", moved, answer)
    OBVIOUS
  <2>6. copied # 0 => validity["INBOX"] > 0 /\ Names("INBOX", copied, validity["INBOX"], rows[r].raw)'
    BY <1>0, <2>1, <2>2, <2>3, <2>4, <2>5, SentMeans
  <2>7. validity'["INBOX"] = validity["INBOX"]
    BY <1>11, <2>0
  <2> QED BY <1>2, <1>4, <1>8, <2>0, <2>1, <2>3, <2>5, <2>6, <2>7
<1>18. CASE LooksUp(t)
  <2>0. /\ pc[t] = "u_judge" /\ pc'[t] = "u_record" /\ pc[t] \in UndoPcs /\ pc[t] \in UndoMove
        /\ rs'[t].orig = rs[t].orig /\ rs'[t].destUid = rs[t].destUid /\ rs'[t].destVal = rs[t].destVal
        /\ rs'[t].row = rs[t].row /\ rs'[t].gotVal = validity["INBOX"]
    BY <1>18 DEF LooksUp, UndoPcs, UndoMove, SameOriginal
  <2>1. PICK r \in RowIds : r = rs[t].row /\ rows[r].status # "free" /\ rows[r].raw = i /\ rows'[r].raw = i
    BY <1>7, <2>0
  <2>2. PICK mid : mid = rows[r].mid /\ Meant(i, mid) /\ Found("INBOX", mid, rs'[t].got)
    BY <1>18, <2>1, RowSubject DEF RowMeans, LooksUp
  <2>3. PICK u \in Nat, v \in Nat : u = rs'[t].got /\ v = rs'[t].gotVal
    BY <1>1 DEF UndoJob
  <2>4. ASSUME u # 0 PROVE v > 0 /\ Names("INBOX", u, v, i)'
    <3>1. u \in Hits("INBOX", mid)
      BY <2>2, <2>3, <2>4 DEF Found
    <3>2. v > 0 /\ Names("INBOX", u, v, i)
      BY <1>0, <2>0, <2>2, <2>3, <3>1, HitMeans
    <3> QED BY <1>0, <1>5, <3>2
  <2> QED BY <1>2, <1>4, <1>8, <2>0, <2>1, <2>3, <2>4
<1> QED BY <1>12, <1>13, <1>14, <1>15, <1>16, <1>17, <1>18, UndoSteps

\* What is written in a row that was read earlier stays meant.
LEMMA SnapMeans ==
    ASSUME IInv, UidInv, [Next]_vars, NEW row \in Row, RowMeans(row),
           row.undoOf # 0 => row.undoOf \in RowIds /\ rows[row.undoOf].status # "free"
    PROVE  RowMeans(row)'
<1>1. PICK i \in RawIds : i = row.raw /\ raws[i].msg # None
  BY DEF RowMeans, Meant
<1>2. PICK f \in Folders, g \in Folders, u \in Nat, v \in Nat, w \in Nat, x \in Nat :
         f = SourceOf(row) /\ g = DestOf(row) /\ u = row.srcUid /\ v = row.srcVal /\ w = row.destUid /\ x = row.destVal
  BY DEF Row, SourceOf, DestOf, Folders
<1>3. PICK mid : mid = row.mid
  OBVIOUS
<1>4. Meant(i, mid) /\ Names(f, u, v, i) /\ (w # 0 => Names(g, w, x, i))
  BY <1>1, <1>2, <1>3 DEF RowMeans
<1>5. Meant(i, mid)' /\ Names(f, u, v, i)' /\ (w # 0 => Names(g, w, x, i)') /\ raws'[i].msg = raws[i].msg
  BY <1>1, <1>4, MeaningStays
<1>6. row.hit # None => row.hit \in Same(raws'[i].msg)
  BY <1>1, <1>5 DEF RowMeans
<1>7. row.undoOf # 0 => rows'[row.undoOf].raw = row.raw
  BY RowSteps DEF SameSubject, RowMeans
<1> QED BY <1>1, <1>2, <1>3, <1>5, <1>6, <1>7 DEF RowMeans

\* What a reconcile finds of a row is the message that was meant.
LEMMA VerdictMeans ==
    ASSUME TypeOK, UidInv, GarbledUnique, NEW row \in Row, RowMeans(row), NEW S, S.val > 0,
           \A u \in S.hits : Names(SourceOf(row), u, S.val, row.raw),
           NEW D, D = ProbeOf(DestOf(row), row.destUid, row.destVal, row.mid),
           NEW v, v = Verdict(S, D, row), v[1] # "none"
    PROVE  v[3] > 0 /\ Names(IF v[1] = "stayed" THEN SourceOf(row) ELSE DestOf(row), v[2], v[3], row.raw)
<1>1. PICK g \in Folders : g = DestOf(row)
  BY DEF DestOf, Folders
<1>2. Meant(row.raw, row.mid) /\ (row.destUid # 0 => Names(g, row.destUid, row.destVal, row.raw))
  BY <1>1 DEF RowMeans
<1>3. validity[g] \in Nat /\ validity[g] > 0
  BY DEF TypeOK, UidInv
<1>4. D.val = validity[g] /\ D.hits = Hits(g, row.mid)
      /\ (D.present = "yes" => row.destUid # 0 /\ row.destVal = validity[g])
  BY <1>1 DEF ProbeOf
<1>5. CASE D.present = "yes"
  <2>1. v[1] = "arrived" /\ v[2] = row.destUid /\ v[3] = validity[g]
    BY <1>4, <1>5 DEF Verdict
  <2> QED BY <1>1, <1>2, <1>3, <1>4, <1>5, <2>1
<1>6. CASE D.present # "yes" /\ S.hits = {} /\ Cardinality(D.hits) = 1
  <2>0. D.hits # {}
    BY <1>6, FS_EmptySet
  <2>1. PICK u : u = (CHOOSE x \in D.hits : TRUE) /\ v[1] = "arrived" /\ v[2] = u /\ v[3] = validity[g]
    BY <1>4, <1>6, <2>0 DEF Verdict
  <2>2. u \in D.hits
    BY <2>0, <2>1
  <2>3. Names(g, u, validity[g], row.raw)
    BY <1>2, <1>4, <2>2, HitMeans
  <2> QED BY <1>1, <1>3, <2>1, <2>3
<1>7. CASE /\ D.present # "yes" /\ D.hits = {} /\ Cardinality(S.hits) = 1
           /\ ~(S.hits = {} /\ Cardinality(D.hits) = 1) /\ S.present = "na"
  <2>1. PICK u : u = (CHOOSE x \in S.hits : TRUE) /\ v[1] = "stayed" /\ v[2] = u /\ v[3] = S.val
    BY <1>7 DEF Verdict
  <2>2. u \in S.hits
    BY <1>7, <2>1, FS_EmptySet
  <2> QED BY <2>1, <2>2
<1> QED BY <1>5, <1>6, <1>7 DEF Verdict


LEMMA RecMeansKept ==
    ASSUME IInv, UidInv, GarbledUnique, MeansInv, [Next]_vars
    PROVE  RecMeans'
<1> SUFFICES ASSUME NEW t \in RecTasks, pc'[t] \in RecPcs
             PROVE  ReadMeans(t)' /\ (pc'[t] = "r_dest" => SeenMeans(t)') /\ (pc'[t] = "r_write" => DecidedMeans(t)')
  BY DEF RecMeans
<1>0. TypeOK /\ rc[t] \in RecJob
  BY DEF IInv, TypeOK
\* What it has read stays meant.
<1>1. ASSUME pc[t] \in RecPcs, NEW r \in RecOf(t), rc'[t].snap = rc[t].snap
      PROVE  RowMeans(rc[t].snap[r])' /\ rows'[r].raw = rc'[t].snap[r].raw
  <2>1. r \in RowIds /\ rows[r].status # "free"
    BY <1>1, RecRow
  <2>2. PICK row \in Row : row = rc[t].snap[r]
    BY <1>0, <2>1 DEF RecJob
  <2>3. RowMeans(row) /\ rows[r].raw = row.raw
    BY <1>1, <2>2 DEF MeansInv, RecMeans, ReadMeans
  <2>4. row.undoOf # 0 => row.undoOf \in RowIds /\ rows[row.undoOf].status # "free"
    BY <1>1, <2>2 DEF IInv, RecInv, NotHeld
  <2>5. RowMeans(row)'
    BY <2>3, <2>4, SnapMeans
  <2>6. rows'[r].raw = rows[r].raw
    BY <2>1, RowSteps DEF SameSubject
  <2> QED BY <1>1, <2>2, <2>3, <2>5, <2>6
<1>2. ASSUME pc[t] \in RecPcs, rc'[t].snap = rc[t].snap, RecOf(t)' \subseteq RecOf(t)
      PROVE  ReadMeans(t)'
  BY <1>1, <1>2 DEF ReadMeans
\* A row that it has read, with its folders.
<1>3. ASSUME pc[t] \in RecPcs, NEW r \in RecOf(t)
      PROVE  \E row \in Row, f \in Folders, g \in Folders, i \in RawIds :
               /\ row = rc[t].snap[r] /\ f = SourceOf(row) /\ g = DestOf(row) /\ i = row.raw /\ raws[i].msg # None
               /\ RowMeans(row)
  <2>1. r \in RowIds
    BY <1>3, RecRow
  <2>2. rc[t].snap[r] \in Row /\ RowMeans(rc[t].snap[r])
    BY <1>0, <1>3, <2>1 DEF RecJob, MeansInv, RecMeans, ReadMeans
  <2> QED BY <2>2 DEF RowMeans, Meant, SourceOf, DestOf, Folders
<1>4. CASE SameJob(t) /\ pc[t] \in RecPcs
  <2>1. pc'[t] = pc[t] /\ rc'[t] = rc[t]
    BY <1>4 DEF SameJob
  <2>2. RecOf(t)' = RecOf(t)
    BY <2>1 DEF RecOf
  <2>3. ASSUME pc[t] # "r_source" PROVE (pc[t] = "r_dest" => SeenMeans(t)') /\ (pc[t] = "r_write" => DecidedMeans(t)')
    <3>1. rc[t].cur \in RecOf(t)
      BY <2>3 DEF RecOf
    <3>2. PICK row \in Row, f \in Folders, g \in Folders, i \in RawIds :
               /\ row = rc[t].snap[rc[t].cur] /\ f = SourceOf(row) /\ g = DestOf(row) /\ i = row.raw /\ raws[i].msg # None
      BY <1>3, <1>4, <3>1
    <3>3. ASSUME pc[t] = "r_dest" PROVE SeenMeans(t)'
      <4>1. PICK v \in Nat, H \in SUBSET Nat : v = rc[t].source.val /\ H = rc[t].source.hits
        BY <1>0 DEF RecJob, Probe
      <4>2. v > 0 /\ \A u \in H : Names(f, u, v, i)
        BY <1>4, <3>2, <3>3, <4>1 DEF MeansInv, RecMeans, SeenMeans
      <4>3. \A u \in H : Names(f, u, v, i)'
        BY <3>2, <4>2, MeaningStays
      <4> QED BY <2>1, <3>2, <4>1, <4>2, <4>3 DEF SeenMeans
    <3>4. ASSUME pc[t] = "r_write" PROVE DecidedMeans(t)'
      <4>1. PICK v \in Nat, u \in Nat, h \in Folders :
              v = rc[t].val /\ u = rc[t].uid /\ h = IF rc[t].verdict = "stayed" THEN f ELSE g
        BY <1>0 DEF RecJob
      <4>2. v > 0 /\ Names(h, u, v, i)
        BY <1>4, <3>2, <3>4, <4>1 DEF MeansInv, RecMeans, DecidedMeans
      <4>3. Names(h, u, v, i)'
        BY <3>2, <4>2, MeaningStays
      <4> QED BY <2>1, <3>2, <4>1, <4>2, <4>3 DEF DecidedMeans
    <3> QED BY <3>3, <3>4
  <2> QED BY <1>2, <1>4, <2>1, <2>2, <2>3
<1>5. CASE RecStart(t)
  <2>1. /\ rows' = rows /\ RecOf(t)' = rc'[t].todo /\ pc'[t] = "r_source" /\ rc'[t].snap = rows
        /\ rc'[t].todo \subseteq RowIds /\ \A r \in rc'[t].todo : rows[r].status # "free"
    BY <1>0, <1>5, RecStartNotes DEF RecOf, RecStart, db, Stuck
  <2>2. ASSUME NEW r \in RowIds, rows[r].status # "free"
        PROVE  \E row : row = rows[r] /\ RowMeans(row)'
    <3>1. PICK row \in Row : row = rows[r]
      BY <1>0 DEF TypeOK
    <3>2. RowMeans(row) /\ (row.undoOf # 0 => row.undoOf \in RowIds /\ rows[row.undoOf].status # "free")
      BY <2>2, <3>1 DEF MeansInv, RowsMean, IInv, OriginalsFree, NotHeld
    <3> QED BY <3>1, <3>2, SnapMeans
  <2>3. ReadMeans(t)'
    BY <2>1, <2>2 DEF ReadMeans
  <2> QED BY <2>1, <2>3
<1>6. CASE RecSource(t)
  <2>1. pc[t] = "r_source" /\ pc[t] \in RecPcs
    BY <1>6 DEF RecSource, RecPcs
  <2>2. PICK r \in rc[t].todo :
             LET row == rc[t].snap[r]
                 source == ProbeOf(SourceOf(row), row.srcUid, row.srcVal, row.mid)
             IN /\ rc'[t].cur = r /\ rc'[t].todo = rc[t].todo \ {r} /\ rc'[t].snap = rc[t].snap
                /\ rc'[t].source = source /\ rc'[t].val = source.val
                /\ IF source.present = "yes"
                   THEN pc'[t] = "r_write" /\ rc'[t].verdict = "stayed" /\ rc'[t].uid = row.srcUid
                   ELSE pc'[t] = "r_dest"
    BY <1>0, <1>6, RecSourceNotes
  <2>3. RecOf(t)' \subseteq RecOf(t) /\ r \in RecOf(t) /\ rc'[t].cur = r /\ rc'[t].snap = rc[t].snap
    BY <2>1, <2>2 DEF RecOf
  <2>4. PICK row \in Row, f \in Folders, g \in Folders, i \in RawIds :
             /\ row = rc[t].snap[r] /\ f = SourceOf(row) /\ g = DestOf(row) /\ i = row.raw /\ raws[i].msg # None
             /\ RowMeans(row)
    BY <1>3, <2>1, <2>3
  <2>5. PICK S : S = ProbeOf(f, row.srcUid, row.srcVal, row.mid)
    OBVIOUS
  <2>6. PICK v, H : v \in Nat /\ v = S.val /\ H = S.hits /\ v = validity[f] /\ v > 0 /\ H = Hits(f, row.mid)
    BY <1>0, <2>5 DEF ProbeOf, TypeOK, UidInv
  <2>7. /\ rc'[t].source.val = v /\ rc'[t].source.hits = H /\ rc'[t].val = v
        /\ pc'[t] = "r_write" => S.present = "yes" /\ rc'[t].verdict = "stayed" /\ rc'[t].uid = row.srcUid
    BY <2>2, <2>4, <2>5, <2>6
  <2>8. pc'[t] = "r_dest" => SeenMeans(t)'
    <3>1. \A u \in H : u \in Nat /\ Names(f, u, v, i)
      BY <1>0, <2>4, <2>6, HitMeans DEF RowMeans
    <3>2. \A u \in H : Names(f, u, v, i)'
      BY <2>4, <2>6, <3>1, MeaningStays
    <3> QED BY <2>3, <2>4, <2>6, <2>7, <3>2 DEF SeenMeans
  <2>9. pc'[t] = "r_write" => DecidedMeans(t)'
    <3> SUFFICES ASSUME pc'[t] = "r_write" PROVE DecidedMeans(t)'
      OBVIOUS
    <3>1. PICK u \in Nat : u = row.srcUid
      BY DEF Row
    <3>2. row.srcVal = v
      BY <2>5, <2>6, <2>7 DEF ProbeOf
    <3>3. Names(f, u, v, i)
      BY <2>4, <3>1, <3>2 DEF RowMeans
    <3>4. Names(f, u, v, i)'
      BY <2>4, <2>6, <3>3, MeaningStays
    <3> QED BY <2>3, <2>4, <2>6, <2>7, <3>1, <3>4 DEF DecidedMeans
  <2> QED BY <1>2, <2>1, <2>3, <2>8, <2>9
<1>7. CASE RecDest(t) /\ pc'[t] \in {"r_dest", "r_write"}
  <2>1. pc[t] = "r_dest" /\ pc[t] \in RecPcs /\ rc[t].cur \in RecOf(t)
    BY <1>7 DEF RecDest, RecPcs, RecOf
  <2>2. PICK row \in Row, f \in Folders, g \in Folders, i \in RawIds :
             /\ row = rc[t].snap[rc[t].cur] /\ f = SourceOf(row) /\ g = DestOf(row) /\ i = row.raw /\ raws[i].msg # None
             /\ RowMeans(row)
    BY <1>3, <2>1
  <2>3. PICK S : S = rc[t].source
    OBVIOUS
  <2>4. PICK D : D = ProbeOf(DestOf(row), row.destUid, row.destVal, row.mid)
    OBVIOUS
  <2>5. PICK v : v = Verdict(S, D, row)
    OBVIOUS
  <2>6. /\ v[1] # "none" /\ pc'[t] = "r_write"
        /\ rc'[t].verdict = v[1] /\ rc'[t].uid = v[2] /\ rc'[t].val = v[3]
        /\ rc'[t].cur = rc[t].cur /\ rc'[t].todo = rc[t].todo /\ rc'[t].snap = rc[t].snap
    BY <1>0, <1>7, <2>2, <2>3, <2>4, <2>5, RecDestNotes
  <2>7. S.val > 0 /\ \A u \in S.hits : Names(SourceOf(row), u, S.val, row.raw)
    BY <2>1, <2>2, <2>3 DEF MeansInv, RecMeans, SeenMeans
  <2>8. v[3] > 0 /\ Names(IF v[1] = "stayed" THEN SourceOf(row) ELSE DestOf(row), v[2], v[3], row.raw)
    BY <1>0, <2>2, <2>4, <2>5, <2>6, <2>7, VerdictMeans
  <2>9. PICK h \in Folders, u \in Nat, w \in Nat :
             h = (IF v[1] = "stayed" THEN f ELSE g) /\ u = rc'[t].uid /\ w = rc'[t].val
    <3>1. TypeOK'
      BY NextType DEF IInv
    <3>2. rc'[t].uid \in Nat /\ rc'[t].val \in Nat
      BY <3>1 DEF TypeOK, RecJob
    <3> QED BY <3>2
  <2>10. w > 0 /\ Names(h, u, w, i)
    BY <2>2, <2>6, <2>8, <2>9
  <2>11. Names(h, u, w, i)'
    BY <2>2, <2>10, MeaningStays
  <2>12. DecidedMeans(t)'
    BY <2>2, <2>6, <2>9, <2>10, <2>11 DEF DecidedMeans
  <2>13. RecOf(t)' = RecOf(t)
    BY <2>1, <2>6 DEF RecOf
  <2> QED BY <1>2, <2>1, <2>6, <2>12, <2>13
<1>8. ASSUME pc[t] \in {"r_dest", "r_write"}, pc'[t] = "r_source",
             rc'[t].todo = rc[t].todo, rc'[t].snap = rc[t].snap
      PROVE  ReadMeans(t)'
  BY <1>2, <1>8 DEF RecOf, RecPcs
<1>9. CASE RecDest(t) /\ pc'[t] \notin {"r_dest", "r_write"}
  <2>1. pc[t] = "r_dest" /\ pc'[t] = "r_source"
    BY <1>9 DEF RecDest, RecPcs
  <2>2. t \in Tasks /\ ~Goto(t, "r_write") /\ ~Forget(t)
    BY <1>0, <1>9, <2>1, GoesTo, ForgetGoes DEF Tasks
  <2>3. NextStuck(t)
    BY <1>9, <2>2 DEF RecDest
  <2>4. rc'[t].todo = rc[t].todo /\ rc'[t].snap = rc[t].snap
    BY <1>0, <2>3 DEF NextStuck, TypeOK, NoRecJob
  <2> QED BY <1>8, <2>1, <2>4
<1>10. CASE RecWrite(t)
  <2>1. pc[t] = "r_write"
    BY <1>10 DEF RecWrite
  <2>2. pc'[t] = "r_source" /\ rc'[t].todo = rc[t].todo /\ rc'[t].snap = rc[t].snap
    BY <1>0, <1>10, RecWriteNotes
  <2> QED BY <1>8, <2>1, <2>2
<1> QED BY <1>4, <1>5, <1>6, <1>7, <1>9, <1>10, RecSteps

\* A free row has no RawEmail.
FreeBare == \A r \in RowIds : rows[r].status = "free" => rows[r].raw = None
LEMMA FreeBareKept ==
    ASSUME IInv, FreeBare, [Next]_vars
    PROVE  FreeBare'
<1> SUFFICES ASSUME NEW r \in RowIds, rows'[r].status = "free"
             PROVE  rows'[r].raw = None
  BY DEF FreeBare
<1>0. rows[r].status = "free"
  BY RowSteps DEF SameSubject
<1>1. ASSUME NEW t \in MoveTasks, NewMoveRow(t, r) PROVE FALSE
  BY <1>1 DEF NewMoveRow, FreeRow
<1>2. ASSUME NEW t \in UndoTasks, NewUndoRow(t, r) PROVE FALSE
  BY <1>2 DEF NewUndoRow, FreeRow
<1> QED BY <1>0, <1>1, <1>2, NewRows DEF FreeBare

LEMMA MeansInit ==
    ASSUME Init
    PROVE  MeansInv /\ FreeBare
<1>1. /\ \A t \in Tasks : pc[t] = "idle"
      /\ \A r \in RowIds : rows[r].status = "free" /\ rows[r].raw = None
      /\ \A t \in MoveTasks : mv[t].held = {} /\ mv[t].todo = {}
      /\ \A i \in RawIds : raws[i].msg = None
  BY DEF Init, FreeRow, FreeRaw, NoMoveJob
<1>2. "idle" \notin UndoPcs /\ "idle" \notin RecPcs /\ "idle" \notin InApply
  BY DEF UndoPcs, RecPcs, InApply
<1>3. RawsMean /\ RowsMean /\ FreeBare
  BY <1>1 DEF RawsMean, RowsMean, FreeBare
<1>4. ApplyMeans /\ UndoMeans /\ RecMeans
  BY <1>1, <1>2, Kinds DEF ApplyMeans, UndoMeans, RecMeans
<1> QED BY <1>3, <1>4 DEF MeansInv

\* Every Message-ID and UID that a RawEmail, a row or a job has noted is one of
\* the mail that was meant.
THEOREM MeaningHolds == ASSUME GarbledUnique PROVE Spec => [](MeansInv /\ FreeBare)
<1>1. Init => UidInv /\ MeansInv /\ FreeBare
  BY TruthInit, MeansInit
<1>2. ASSUME IInv, UidInv, MeansInv, FreeBare, [Next]_vars PROVE (UidInv /\ MeansInv /\ FreeBare)'
  BY <1>2, NextServer, RawsMeanKept, RowsMeanKept, ApplyMeansKept, UndoMeansKept, RecMeansKept, FreeBareKept DEF MeansInv
<1> QED BY <1>1, <1>2, Invariant, PTL DEF Spec

\* What the audit rows say of INBOX is true, and it was the mail that was meant
\* that moved: whatever failed, crashed, raced or was moved by hand, the message
\* that a move row's MOVE took is the one its RawEmail was stored from, or one of
\* the same Message-ID (moveToTrash and restore of mailbox-writer.service.ts,
\* reconcile of mailbox-reconcile.service.ts).  The search by Message-ID asks the
\* server's header index while a RawEmail stores what it could parse: the premise
\* is about the messages where these differ.
THEOREM RowsTellTruthHolds == ASSUME GarbledUnique PROVE Spec => []RowsTellTruth
<1>1. ASSUME TypeOK, MeansInv, FreeBare PROVE MovesIntended
  <2> SUFFICES ASSUME NEW r \in RowIds, rows[r].action = "move", rows[r].hit # None, rows[r].raw # None,
                      NEW m, m = raws[rows[r].raw].msg
               PROVE  rows[r].hit = m \/ (StoredMid(m) # None /\ Mid[rows[r].hit] = StoredMid(m))
    BY DEF MovesIntended
  <2>1. rows[r].hit \in Same(m)
    BY <1>1 DEF FreeBare, MeansInv, RowsMean, RowMeans
  <2> QED BY <2>1 DEF Same
<1> QED BY <1>1, MeaningHolds, RowsTellWhatMoved, TypeCorrect, PTL DEF RowsTellTruth
============================================================================
