--------------------------- MODULE MailboxWriter ---------------------------
(***************************************************************************)
(* SenderRulesApplyService.apply and MailboxWriterService: the two         *)
(* operations that move mail, and the audit rows they write around every   *)
(* UID MOVE.  One action per stretch between two awaits that another task  *)
(* can observe.                                                            *)
(***************************************************************************)
EXTENDS MailboxState

----------------------------------------------------------------------------
(* apply(): choose the RawEmails to trash.                                 *)

\* The `trashedBefore` query: read before, and apart from, the scan.
ReadTrashed(t) ==
    /\ pc[t] = "idle"
    /\ Goto(t, "m_scan")
    /\ mv' = [mv EXCEPT ![t].undone = {rows[r].raw : r \in {q \in RowIds :
                                          rows[q].action = "move" /\ rows[q].status = "undone"}} \ {None},
                        ![t].seen = {rows[r].mid : r \in {q \in RowIds : Trashed(q)}} \ {None}]
    /\ UNCHANGED <<server, db, busy, rs, rc>>

TargetOf(i) == [raw |-> i, uid |-> raws[i].uid, val |-> raws[i].val, mid |-> StoredMid(raws[i].msg)]

\* No in-flight, completed or skipped move, and not trashed before as far
\* as the earlier query knew.
Eligible(t) == {i \in RawIds :
    /\ raws[i].msg # None
    /\ i \notin skipped /\ ~\E r \in RowIds : Active(r) /\ rows[r].raw = i
    /\ i \notin mv[t].undone
    /\ StoredMid(raws[i].msg) \notin mv[t].seen}

\* The rules and the limit pick any of the eligible mails.
Scan(t) ==
    /\ pc[t] = "m_scan"
    /\ \/ \E chosen \in (SUBSET Eligible(t)) \ {{}} :
            /\ mv' = [mv EXCEPT ![t] = [NoMoveJob EXCEPT !.todo = {TargetOf(i) : i \in chosen}]]
            /\ Goto(t, "m_acquire") /\ UNCHANGED <<rs, rc>>
       \/ Eligible(t) = {} /\ Forget(t)
    /\ UNCHANGED <<server, db, busy>>

----------------------------------------------------------------------------
(* moveToTrash()                                                           *)

\* acquire(): 409 when a write of this account runs in this process.
MoveAcquire(t) ==
    /\ pc[t] = "m_acquire"
    /\ \/ /\ ProcOf[t] \notin busy
          /\ busy' = busy \cup {ProcOf[t]}
          /\ Goto(t, "m_connect") /\ UNCHANGED <<mv, rs, rc>>
       \/ ProcOf[t] \in busy /\ Forget(t) /\ busy' = busy
    /\ UNCHANGED <<server, db>>

\* Connect, find \Trash, lock INBOX; or fail or refuse the account.
MoveConnectKeepsLock(t) ==
    /\ pc[t] = "m_connect"
    /\ \/ /\ mv' = [mv EXCEPT ![t].val = validity["INBOX"]]
          /\ Goto(t, "m_fetch") /\ UNCHANGED <<busy, rs, rc>>
       \/ "imap" \in Faults /\ Forget(t) /\ UNCHANGED busy
    /\ UNCHANGED <<server, db>>
MoveConnect(t) ==
    /\ pc[t] = "m_connect"
    /\ \/ /\ mv' = [mv EXCEPT ![t].val = validity["INBOX"]]
          /\ Goto(t, "m_fetch") /\ UNCHANGED <<busy, rs, rc>>
       \/ "imap" \in Faults /\ Leave(t)
    /\ UNCHANGED <<server, db>>

\* On to the next chunk of the run, if there is one.
NextChunk(t, j) ==
    IF j.todo = {} THEN Leave(t)
    ELSE /\ Goto(t, "m_fetch")
         /\ mv' = [mv EXCEPT ![t] = [NoMoveJob EXCEPT !.todo = j.todo, !.val = j.val]]
         /\ UNCHANGED <<busy, rs, rc>>

\* (7) Identity: the UID still names the message the RawEmail was made from.
ConfirmedUnderAnyValidity(x, val) ==
    /\ x.mid # None \/ x.val # 0
    /\ Present("INBOX", x.uid)
    /\ x.mid # None => EnvelopeMid("INBOX", x.uid) = x.mid
Confirmed(x, val) ==
    /\ x.val \in {0, val}
    /\ x.mid # None \/ x.val # 0
    /\ Present("INBOX", x.uid)
    /\ x.mid # None => EnvelopeMid("INBOX", x.uid) = x.mid
\* The Message-ID of the audit row: normalizeMessageId(t.messageId) ?? env.messageId
WithMid(x) == [x EXCEPT !.mid = IF @ = None THEN EnvelopeMid("INBOX", x.uid) ELSE @]

MoveFetch(t) ==
    /\ pc[t] = "m_fetch"
    /\ LET j == mv[t] IN
       \/ \E b \in SUBSET j.todo :
            /\ IF Cardinality(j.todo) <= ChunkSize THEN b = j.todo ELSE Cardinality(b) = ChunkSize
            /\ LET ok == {x \in b : Confirmed(x, j.val)}
               IN mv' = [mv EXCEPT ![t].todo = @ \ b,
                                   ![t].batch = {WithMid(x) : x \in ok},
                                   ![t].skip = {x.raw : x \in b \ ok}]
            /\ Goto(t, "m_history") /\ UNCHANGED <<busy, rs, rc>>
       \/ "imap" \in Faults /\ Leave(t)
    /\ UNCHANGED <<server, db>>

\* (8) What the audit log says, and the rows of the skipped targets.
NeverTrashed(x) == FALSE
PreviouslyTrashed(x) == \E r \in RowIds : Trashed(r) /\ x.mid # None /\ rows[r].mid = x.mid

MoveHistory(t) ==
    /\ pc[t] = "m_history"
    /\ LET j == mv[t]
           free == {x \in j.batch : ~ActiveMoveOf(x.raw, x.uid, j.val)}
           again == {x \in free : PreviouslyTrashed(x)}
           rest == free \ again
       IN \/ /\ skipped' = skipped \cup j.skip \cup {x.raw : x \in again}
             /\ IF rest = {} THEN NextChunk(t, j)
                ELSE /\ mv' = [mv EXCEPT ![t].batch = rest, ![t].skip = {}]
                     /\ Goto(t, "m_insert") /\ UNCHANGED <<busy, rs, rc>>
          \/ "db" \in Faults /\ Leave(t) /\ UNCHANGED skipped
    /\ UNCHANGED <<server, raws, rows>>

\* Write-ahead, one pending row at a time; P2002, from the
\* partial unique indexes, skips that message.
MoveInsert(t) ==
    /\ pc[t] = "m_insert"
    /\ LET j == mv[t] IN \E x \in j.batch :
         LET left == j.batch \ {x} IN
         \/ /\ ~ActiveMoveOf(x.raw, x.uid, j.val)
            /\ \E r \in RowIds :
                 /\ NextRow(r)
                 /\ rows' = [rows EXCEPT ![r] = [FreeRow EXCEPT !.status = "pending", !.raw = x.raw,
                        !.srcUid = x.uid, !.srcVal = j.val, !.mid = x.mid]]
                 /\ mv' = [mv EXCEPT ![t].batch = left, ![t].held = @ \cup {r}]
            /\ Goto(t, IF left = {} THEN "m_send" ELSE "m_insert")
            /\ UNCHANGED <<busy, rs, rc>>
         \/ /\ ActiveMoveOf(x.raw, x.uid, j.val) /\ UNCHANGED rows
            /\ IF left = {} /\ j.held = {} THEN NextChunk(t, j)
               ELSE /\ mv' = [mv EXCEPT ![t].batch = left]
                    /\ Goto(t, IF left = {} THEN "m_send" ELSE "m_insert")
                    /\ UNCHANGED <<busy, rs, rc>>
    /\ UNCHANGED <<server, raws, skipped>>

\* Any other insert error: nothing was moved, so the rows written so far are
\* closed, unless that update fails too; the run ends.
MoveInsertFails(t) ==
    /\ pc[t] = "m_insert" /\ ("db" \in Faults \/ TableFull)
    /\ \/ rows' = [r \in RowIds |-> IF r \in mv[t].held THEN [rows[r] EXCEPT !.status = "failed"] ELSE rows[r]]
       \/ "db" \in Faults /\ UNCHANGED rows
    /\ Leave(t)
    /\ UNCHANGED <<server, raws, skipped>>

MoveSend(t) ==
    /\ pc[t] = "m_send"
    /\ \E moved \in SUBSET Named(mv[t].held, "INBOX"), answer \in Answer \ {"none"} :
         /\ UidMove(mv[t].held, "INBOX", "Trash", moved, answer)
         /\ mv' = [mv EXCEPT ![t].answer = answer, ![t].destVal = validity["Trash"],
                ![t].dest = [r \in RowIds |-> CopyUid(r, mv[t].held, "Trash", moved, answer)]]
    /\ Goto(t, "m_judge")
    /\ UNCHANGED <<raws, skipped, busy, rs, rc>>

\* Without COPYUID, decide by what is still in INBOX.
OutcomeStaysPending(j, r) ==
    CASE j.answer = "copyuid" -> IF j.dest[r] # 0 THEN "succeeded" ELSE "failed"
      [] j.answer = "ok"      -> IF Present("INBOX", rows[r].srcUid) \/ Uidplus THEN "failed" ELSE "succeeded"
      [] OTHER                -> "pending"
OutcomeErrorIsFailure(j, r) ==
    CASE j.answer = "copyuid" -> IF j.dest[r] # 0 THEN "succeeded" ELSE "failed"
      [] j.answer = "ok"      -> IF Present("INBOX", rows[r].srcUid) \/ Uidplus THEN "failed" ELSE "succeeded"
      [] OTHER                -> "failed"
OutcomeAssumesMoved(j, r) == "succeeded"
Outcome(j, r) ==
    CASE j.answer = "copyuid" -> IF j.dest[r] # 0 THEN "succeeded" ELSE "failed"
      [] j.answer = "ok"      -> IF Present("INBOX", rows[r].srcUid) \/ Uidplus THEN "failed" ELSE "succeeded"
      [] OTHER                -> IF Present("INBOX", rows[r].srcUid) THEN "failed" ELSE "succeeded"

MoveJudge(t) ==
    /\ pc[t] = "m_judge"
    /\ \/ mv' = [mv EXCEPT ![t].out = [r \in RowIds |-> Outcome(mv[t], r)]]
       \/ /\ "imap" \in Faults /\ mv[t].answer # "copyuid"
          /\ mv' = [mv EXCEPT ![t].out = [r \in RowIds |-> "unknown"]]
    /\ Goto(t, "m_record")
    /\ UNCHANGED <<server, db, busy, rs, rc>>

\* One transaction, by row id; when it fails the rows stay pending.  A MOVE
\* that threw, or a failed transaction, ends the run.
MoveRecord(t) ==
    /\ pc[t] = "m_record"
    /\ LET j == mv[t] IN
       \/ /\ rows' = [r \in RowIds |->
               IF r \notin j.held THEN rows[r]
               ELSE IF j.out[r] = "succeeded"
               THEN [rows[r] EXCEPT !.status = "succeeded", !.destUid = j.dest[r],
                        !.destVal = IF j.dest[r] # 0 THEN j.destVal ELSE 0]
               ELSE [rows[r] EXCEPT !.status = j.out[r]]]
          /\ IF j.answer = "threw" THEN Leave(t) ELSE NextChunk(t, j)
       \/ "db" \in Faults /\ UNCHANGED rows /\ Leave(t)
    /\ UNCHANGED <<server, raws, skipped>>

MoveStep(t) ==
    \/ Scan(t) \/ MoveAcquire(t) \/ MoveConnect(t) \/ MoveFetch(t) \/ MoveHistory(t)
    \/ MoveInsert(t) \/ MoveInsertFails(t) \/ MoveSend(t) \/ MoveJudge(t) \/ MoveRecord(t)

============================================================================
