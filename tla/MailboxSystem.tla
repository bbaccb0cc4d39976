--------------------------- MODULE MailboxSystem ---------------------------
(***************************************************************************)
(* The whole mailbox-write subsystem: apply, undo and reconcile requests   *)
(* in the API processes, sync, the mail server, the user's mail client,    *)
(* the clock, and crashes.                                                 *)
(***************************************************************************)
EXTENDS MailboxWriter, MailboxUndo, MailboxReconcile

Init ==
    /\ box = [m \in Msgs |-> IF InitUid[m] = 0 THEN "none" ELSE "INBOX"]
    /\ uid = InitUid
    /\ nextUid = [f \in Folders |->
                    IF f = "Trash" THEN 1 ELSE 1 + Cardinality({m \in Msgs : InitUid[m] # 0})]
    /\ validity = [f \in Folders |-> 1]
    /\ raws = [i \in RawIds |-> FreeRaw] /\ skipped = {}
    /\ rows = [r \in RowIds |-> FreeRow]
    /\ busy = {} /\ pc = [t \in Tasks |-> "idle"]
    /\ mv = [t \in MoveTasks |-> NoMoveJob]
    /\ rs = [t \in UndoTasks |-> NoUndoJob]
    /\ rc = [t \in RecTasks |-> NoRecJob]

----------------------------------------------------------------------------
(* Sync: EmailSync or ImapIngestion stores an INBOX message under a UID    *)
(* that no RawEmail holds (upsert with an empty update).                   *)
Ingest(m, i) ==
    /\ box[m] = "INBOX" /\ raws[i].msg = None
    /\ ~\E k \in RawIds : raws[k].msg # None /\ raws[k].uid = uid[m]
    /\ \E val \in {validity["INBOX"]} \cup (IF "legacy" \in Faults THEN {0} ELSE {}) :
         raws' = [raws EXCEPT ![i] = [msg |-> m, uid |-> uid[m], val |-> val]]
    /\ UNCHANGED <<server, skipped, rows, jobs>>

----------------------------------------------------------------------------
(* The mail server and the user's mail client.                             *)

\* A message gets the folder's next UID.
Arrive(m, f) ==
    /\ nextUid[f] <= MaxUid
    /\ box' = [box EXCEPT ![m] = f]
    /\ uid' = [uid EXCEPT ![m] = nextUid[f]]
    /\ nextUid' = [nextUid EXCEPT ![f] = @ + 1]
    /\ UNCHANGED <<validity, db, jobs>>
Deliver(m) == box[m] = "none" /\ Arrive(m, "INBOX")
HandMove(m) ==
    /\ "hand" \in Faults
    /\ \/ box[m] = "INBOX" /\ Arrive(m, "Trash")
       \/ box[m] = "Trash" /\ Arrive(m, "INBOX")
Purge(m) ==
    /\ "hand" \in Faults /\ box[m] = "Trash"
    /\ box' = [box EXCEPT ![m] = "gone"]
    /\ UNCHANGED <<uid, nextUid, validity, db, jobs>>

\* A new UIDVALIDITY: every UID of the folder is assigned anew.  A session
\* that has the folder selected would be closed, so no write is in one.
Selected(t) ==
    IF pc[t] \in {"m_fetch", "m_history", "m_insert", "m_send", "m_judge", "m_record"} THEN "INBOX"
    ELSE IF pc[t] \in {"u_insert", "u_send", "u_judge"} THEN "Trash" ELSE "none"
ResetValidity(f) ==
    /\ "validity" \in Faults /\ validity["INBOX"] + validity["Trash"] <= MaxValidity
    /\ \A t \in Tasks : Selected(t) # f
    /\ LET here == {m \in Msgs : box[m] = f} IN
         /\ uid' = Renumbered(here, 1)
         /\ nextUid' = [nextUid EXCEPT ![f] = 1 + Cardinality(here)]
    /\ validity' = [validity EXCEPT ![f] = @ + 1]
    /\ UNCHANGED <<box, db, jobs>>

----------------------------------------------------------------------------
(* Time and crashes.                                                       *)

\* The rows a running job wrote and has not settled yet.
InFlight == (UNION {mv[t].held : t \in MoveTasks}) \cup {rs[t].row : t \in UndoTasks}

\* Ten minutes pass.  A chunk or an undo takes less from its first audit row
\* to its last, so the rows of a running job stay young.  Only reconcile asks.
Age ==
    /\ RecTasks # {}
    /\ \E r \in RowIds \ InFlight : rows[r].status # "free" /\ ~rows[r].old
    /\ rows' = [r \in RowIds |-> IF r \in InFlight \/ rows[r].status = "free" THEN rows[r]
                                 ELSE [rows[r] EXCEPT !.old = TRUE]]
    /\ UNCHANGED <<server, raws, skipped, jobs>>

\* A process dies with its jobs and its in-memory busy set.
Crash(p) ==
    /\ "crash" \in Faults /\ \E t \in Tasks : ProcOf[t] = p /\ pc[t] # "idle"
    /\ busy' = busy \ {p}
    /\ pc' = [t \in Tasks |-> IF ProcOf[t] = p THEN "idle" ELSE pc[t]]
    /\ mv' = [t \in MoveTasks |-> IF ProcOf[t] = p THEN NoMoveJob ELSE mv[t]]
    /\ rs' = [t \in UndoTasks |-> IF ProcOf[t] = p THEN NoUndoJob ELSE rs[t]]
    /\ rc' = [t \in RecTasks |-> IF ProcOf[t] = p THEN NoRecJob ELSE rc[t]]
    /\ UNCHANGED <<server, db>>

----------------------------------------------------------------------------
\* The module's README: don't run reconcile while an undo is in progress.
Undoing == \E t \in UndoTasks : pc[t] # "idle"
Reconciling == \E t \in RecTasks : pc[t] # "idle"

Request ==
    \/ \E t \in MoveTasks : ReadTrashed(t)
    \/ \E t \in UndoTasks : (~Reconciling \/ "overlap" \in Faults) /\ UndoStart(t)
    \/ \E t \in RecTasks : (~Undoing \/ "overlap" \in Faults) /\ RecStart(t)
Work ==
    \/ \E t \in MoveTasks : MoveStep(t)
    \/ \E t \in UndoTasks : UndoStep(t)
    \/ \E t \in RecTasks : RecStep(t)
Environment ==
    \/ \E m \in Msgs, i \in RawIds : Ingest(m, i)
    \/ \E m \in Msgs : Deliver(m) \/ HandMove(m) \/ Purge(m)
    \/ \E f \in Folders : ResetValidity(f)
    \/ Age
    \/ \E p \in Procs : Crash(p)

Next == Request \/ Work \/ Environment
Spec == Init /\ [][Next]_vars

----------------------------------------------------------------------------
(* Safety                                                                  *)

Writing == (MovePcs \ {"m_scan", "m_acquire"}) \cup UndoPcs

\* Of the move rows of one RawEmail, and of one UID under one UIDVALIDITY, at
\* most one is active.  The indexes check it on insert; this says that none
\* of the later status updates of writer, undo and reconcile can trip them.
OneActiveMove == \A r, q \in RowIds :
    r # q /\ Active(r) /\ Active(q) =>
        /\ rows[r].raw # rows[q].raw
        /\ <<rows[r].srcUid, rows[r].srcVal>> # <<rows[q].srcUid, rows[q].srcVal>>

\* A move row that reads failed (and so is retried by the next apply) did not
\* move its message, unless INBOX has changed its UIDVALIDITY since.
FailedNotMoved == \A r \in RowIds :
    rows[r].action = "move" /\ rows[r].status = "failed" /\ rows[r].hit # None
        => rows[r].srcVal # validity["INBOX"]

\* The UID of a move row that reads succeeded or undone has left INBOX.
SucceededHasLeft == \A r \in RowIds :
    Trashed(r) /\ rows[r].srcVal = validity["INBOX"] => ~Present("INBOX", rows[r].srcUid)

\* What the server moved for a move row is the message its RawEmail was made
\* from, as far as a Message-ID or an unchanged UIDVALIDITY can tell.
MovesIntended == \A r \in RowIds :
    rows[r].action = "move" /\ rows[r].hit # None /\ rows[r].raw # None =>
        LET m == raws[rows[r].raw].msg
        IN rows[r].hit = m \/ (StoredMid(m) # None /\ Mid[rows[r].hit] = StoredMid(m))

\* What the rows say of a move is true of the mailbox, and it was the mail
\* that was meant.
RowsTellTruth == FailedNotMoved /\ SucceededHasLeft /\ MovesIntended

\* An undone move has a succeeded restore.
UndoneHasRestore == \A r \in RowIds : rows[r].status = "undone" =>
    \E q \in RowIds : rows[q].undoOf = r /\ rows[q].status = "succeeded"

\* A succeeded restore has an undone original.
RestoreUndoes == \A q \in RowIds :
    rows[q].action = "restore" /\ rows[q].status = "succeeded"
        => rows[rows[q].undoOf].status = "undone"

\* No message is moved to Trash twice by the rules: once it is back in INBOX,
\* the user rescued it.
TrashedOnce == \A r, q \in RowIds :
    r # q /\ rows[r].action = "move" /\ rows[q].action = "move" /\ rows[r].hit # None
        => rows[r].hit # rows[q].hit

\* A process's write lock is held by exactly one of its jobs while it is
\* taken: no two writes of the account run in one process, and no way out of a
\* write keeps the lock.
OneWriter == \A p \in Procs :
    Cardinality({t \in MoveTasks \cup UndoTasks : ProcOf[t] = p /\ pc[t] \in Writing})
        = IF p \in busy THEN 1 ELSE 0

\* No two undos of one original are in their MOVE section together.
OneRestoreAtATime == \A s, t \in UndoTasks :
    s # t /\ pc[s] \in {"u_send", "u_judge", "u_record"} /\ pc[t] \in {"u_send", "u_judge", "u_record"}
        => rs[s].orig # rs[t].orig

(* Action properties                                                       *)

\* An inactive move row never becomes active again.
InactiveStays == [][\A r \in RowIds :
    rows[r].action = "move" /\ rows[r].status \in {"failed", "undone"}
        => rows'[r].status \in {"failed", "undone"}]_vars
============================================================================
