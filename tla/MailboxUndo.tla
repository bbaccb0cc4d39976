---------------------------- MODULE MailboxUndo ----------------------------
(***************************************************************************)
(* MailboxWriterService.restore: undo of a succeeded move_to_trash.        *)
(***************************************************************************)
EXTENDS MailboxState

\* restore(): read the original, take the account's write lock (409, with no
\* effect, while another write of the account runs in this process).
UndoStart(t) ==
    /\ pc[t] = "idle" /\ ProcOf[t] \notin busy
    /\ \E o \in RowIds :
         /\ rows[o].action = "move" /\ rows[o].status = "succeeded"
         /\ rs' = [rs EXCEPT ![t] = [NoUndoJob EXCEPT !.orig = o,
                      !.destUid = rows[o].destUid, !.destVal = rows[o].destVal]]
    /\ busy' = busy \cup {ProcOf[t]}
    /\ Goto(t, "u_claim")
    /\ UNCHANGED <<server, db, mv, rc>>

\* Atomic claim: exactly one caller moves the status off `succeeded`.
UndoClaim(t) ==
    /\ pc[t] = "u_claim"
    /\ LET o == rs[t].orig IN
       \/ /\ rows[o].status = "succeeded"
          /\ rows' = [rows EXCEPT ![o].status = "pending"]
          /\ Goto(t, "u_locate") /\ UNCHANGED <<busy, mv, rs, rc>>
       \/ (rows[o].status # "succeeded" \/ "db" \in Faults) /\ Leave(t) /\ UNCHANGED rows
    /\ UNCHANGED <<server, raws, skipped>>

\* locateInTrash() finds u: the recorded UID when it is still that message,
\* else one with the Message-ID; 0 when there is none.
Located(j, mid, u) ==
    IF /\ j.destUid # 0 /\ j.destVal = validity["Trash"]
       /\ Present("Trash", j.destUid)
       /\ mid = None \/ EnvelopeMid("Trash", j.destUid) = mid
    THEN u = j.destUid
    ELSE Found("Trash", mid, u)

\* Connect, lock Trash, locate; on any failure the claim is released.
UndoLocate(t) ==
    /\ pc[t] = "u_locate"
    /\ LET mid == rows[rs[t].orig].mid IN
       \/ \E u \in {rs[t].destUid} \cup Hits("Trash", mid) :
            /\ u # 0 /\ Located(rs[t], mid, u)
            /\ rs' = [rs EXCEPT ![t].uid = u, ![t].val = validity["Trash"]]
            /\ Goto(t, "u_insert")
       \/ (Located(rs[t], mid, 0) \/ "imap" \in Faults) /\ Goto(t, "u_release") /\ UNCHANGED rs
    /\ UNCHANGED <<server, db, busy, mv, rc>>

\* The restore row, linked to its original by the unique undoOfId.
UndoInsertTwice(t) ==
    /\ pc[t] = "u_insert"
    /\ LET j == rs[t]
       IN \/ /\ \E r \in RowIds :
                  /\ NextRow(r)
                  /\ rows' = [rows EXCEPT ![r] = [FreeRow EXCEPT !.action = "restore",
                        !.status = "pending", !.raw = rows[j.orig].raw, !.srcUid = j.uid,
                        !.srcVal = j.val, !.mid = rows[j.orig].mid, !.undoOf = j.orig]]
                  /\ rs' = [rs EXCEPT ![t].row = r]
             /\ Goto(t, "u_send")
          \/ (TableFull \/ "db" \in Faults) /\ Goto(t, "u_release") /\ UNCHANGED <<rows, rs>>
    /\ UNCHANGED <<server, raws, skipped, busy, mv, rc>>
UndoInsert(t) ==
    /\ pc[t] = "u_insert"
    /\ LET j == rs[t]
           taken == \E q \in RowIds : rows[q].undoOf = j.orig
       IN \/ /\ ~taken
             /\ \E r \in RowIds :
                  /\ NextRow(r)
                  /\ rows' = [rows EXCEPT ![r] = [FreeRow EXCEPT !.action = "restore",
                        !.status = "pending", !.raw = rows[j.orig].raw, !.srcUid = j.uid,
                        !.srcVal = j.val, !.mid = rows[j.orig].mid, !.undoOf = j.orig]]
                  /\ rs' = [rs EXCEPT ![t].row = r]
             /\ Goto(t, "u_send")
          \/ (taken \/ TableFull \/ "db" \in Faults) /\ Goto(t, "u_release") /\ UNCHANGED <<rows, rs>>
    /\ UNCHANGED <<server, raws, skipped, busy, mv, rc>>

UndoSend(t) ==
    /\ pc[t] = "u_send"
    /\ LET j == rs[t] IN
       \E moved \in SUBSET Named({j.row}, "Trash"), answer \in Answer \ {"none"} :
         /\ UidMove({j.row}, "Trash", "INBOX", moved, answer)
         /\ rs' = [rs EXCEPT ![t].answer = answer, ![t].gotVal = validity["INBOX"],
                ![t].got = CopyUid(j.row, {j.row}, "INBOX", moved, answer)]
    /\ Goto(t, "u_judge")
    /\ UNCHANGED <<raws, skipped, busy, mv, rc>>

\* Without COPYUID: still in Trash means nothing moved (restore row closed and
\* unlinked, claim released); gone means restored, and its UID is looked up
\* by Message-ID; a failed re-check leaves the outcome to reconcile.
UndoJudge(t) ==
    /\ pc[t] = "u_judge"
    /\ LET j == rs[t] IN
       \/ j.got # 0 /\ Goto(t, "u_record") /\ UNCHANGED <<rows, busy, mv, rs, rc>>
       \/ /\ j.got = 0 /\ "imap" \in Faults /\ Leave(t)
          /\ \/ rows' = [rows EXCEPT ![j.row].status = "unknown"]
             \/ "db" \in Faults /\ UNCHANGED rows
       \/ /\ j.got = 0 /\ Present("Trash", j.uid) /\ Goto(t, "u_release")
          /\ \/ rows' = [rows EXCEPT ![j.row].status = "failed", ![j.row].undoOf = 0]
             \/ "db" \in Faults /\ UNCHANGED rows
          /\ UNCHANGED <<busy, mv, rs, rc>>
       \/ /\ j.got = 0 /\ ~Present("Trash", j.uid) /\ Goto(t, "u_record")
          /\ \/ \E u \in {0} \cup Hits("INBOX", rows[j.row].mid) :
                  /\ Found("INBOX", rows[j.row].mid, u)
                  /\ rs' = [rs EXCEPT ![t].got = u, ![t].gotVal = validity["INBOX"]]
             \/ "imap" \in Faults /\ UNCHANGED rs
          /\ UNCHANGED <<rows, busy, mv, rc>>
    /\ UNCHANGED <<server, raws, skipped>>

\* One transaction by row id: restore succeeded, original undone.  When it
\* fails both stay pending: the MOVE was sent.
UndoRecord(t) ==
    /\ pc[t] = "u_record"
    /\ LET j == rs[t] IN
       \/ /\ rows' = [rows EXCEPT ![j.row].status = "succeeded", ![j.row].destUid = j.got,
                                  ![j.row].destVal = IF j.got = 0 THEN 0 ELSE j.gotVal,
                                  ![j.orig].status = "undone"]
          /\ Goto(t, "u_relink") /\ UNCHANGED <<busy, mv, rs, rc>>
       \/ "db" \in Faults /\ UNCHANGED rows /\ Leave(t)
    /\ UNCHANGED <<server, raws, skipped>>

\* Best effort: a failed relink does not fail the undo.
UndoRelink(t) ==
    /\ pc[t] = "u_relink"
    /\ \/ raws' = Relinked(rows[rs[t].orig].raw, rs[t].got, rs[t].gotVal)
       \/ "db" \in Faults /\ UNCHANGED raws
    /\ Leave(t)
    /\ UNCHANGED <<server, skipped, rows>>

\* Nothing moved: hand the original back, if it is still claimed.
UndoRelease(t) ==
    /\ pc[t] = "u_release"
    /\ \/ rows' = [rows EXCEPT ![rs[t].orig].status = IF @ = "pending" THEN "succeeded" ELSE @]
       \/ "db" \in Faults /\ UNCHANGED rows
    /\ Leave(t)
    /\ UNCHANGED <<server, raws, skipped>>

UndoStep(t) ==
    \/ UndoClaim(t) \/ UndoLocate(t) \/ UndoInsert(t) \/ UndoSend(t)
    \/ UndoJudge(t) \/ UndoRecord(t) \/ UndoRelink(t) \/ UndoRelease(t)

============================================================================
