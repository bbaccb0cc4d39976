------------------------- MODULE MailboxReconcile -------------------------
(***************************************************************************)
(* MailboxReconcileService.reconcile: settles rows left pending or unknown *)
(* by looking at both folders.  Read-only on IMAP; its database updates    *)
(* are conditional on the status the run read at its start.                *)
(***************************************************************************)
EXTENDS MailboxState

Stuck(r) == rows[r].status \in {"pending", "unknown"} /\ rows[r].old

\* The stuck rows, without the originals that a stuck restore will settle.
RecStart(t) ==
    /\ pc[t] = "idle"
    /\ LET stuck == {r \in RowIds : Stuck(r)}
           claimed == {rows[r].undoOf : r \in {q \in stuck : rows[q].action = "restore"}}
       IN /\ stuck # {}
          /\ rc' = [rc EXCEPT ![t].todo = {r \in stuck : rows[r].action = "restore" \/ r \notin claimed},
                              ![t].snap = rows]
    /\ Goto(t, "r_source")
    /\ UNCHANGED <<server, db, busy, mv, rs>>

\* probe(): is the stored UID still there (definitive under an unchanged
\* UIDVALIDITY), and which UIDs carry the Message-ID.
ProbeOf(f, u, val, mid) ==
    [val |-> validity[f],
     present |-> IF u = 0 \/ val # validity[f] THEN "na" ELSE IF Present(f, u) THEN "yes" ELSE "no",
     hits |-> Hits(f, mid)]
SourceOf(row) == IF row.action = "move" THEN "INBOX" ELSE "Trash"
DestOf(row) == IF row.action = "move" THEN "Trash" ELSE "INBOX"

\* Move rows first, each kind in the order of creation.
IsNext(j, r) ==
    /\ r \in j.todo
    /\ \A q \in j.todo \ {r} :
         \/ j.snap[r].action = "move" /\ j.snap[q].action = "restore"
         \/ j.snap[r].action = j.snap[q].action /\ r < q

NextStuck(t) ==
    /\ rc' = [rc EXCEPT ![t] = [NoRecJob EXCEPT !.todo = rc[t].todo, !.snap = rc[t].snap]]
    /\ Goto(t, "r_source") /\ UNCHANGED <<mv, rs>>

\* Take the next row: read a restore's original, look into the source folder.
\* An IMAP or database error ends the run.
RecSource(t) ==
    /\ pc[t] = "r_source"
    /\ LET j == rc[t] IN
       \/ j.todo = {} /\ Forget(t)
       \/ "imap" \in Faults /\ Forget(t)
       \/ \E r \in RowIds :
            LET row == j.snap[r]
                source == ProbeOf(SourceOf(row), row.srcUid, row.srcVal, row.mid)
                stays == source.present = "yes"
            IN /\ IsNext(j, r)
               /\ rc' = [rc EXCEPT ![t].todo = @ \ {r}, ![t].cur = r, ![t].source = source,
                    ![t].claimed = row.undoOf # 0 /\ rows[row.undoOf].status = "pending",
                    ![t].verdict = IF stays THEN "stayed" ELSE "none",
                    ![t].uid = IF stays THEN row.srcUid ELSE 0,
                    ![t].val = source.val]
               /\ Goto(t, IF stays THEN "r_write" ELSE "r_dest") /\ UNCHANGED <<mv, rs>>
    /\ UNCHANGED <<server, db, busy>>

\* The rules of reconcileMove and reconcileRestore, once the source UID is
\* not there: <<verdict, uid, uidValidity>>.
VerdictIgnoresUid(S, D, row) ==
    CASE D.present = "yes" -> <<"arrived", row.destUid, D.val>>
      [] D.present # "yes" /\ S.hits = {} /\ Cardinality(D.hits) = 1
           -> <<"arrived", CHOOSE u \in D.hits : TRUE, D.val>>
      [] D.present # "yes" /\ D.hits = {} /\ Cardinality(S.hits) = 1
           -> <<"stayed", CHOOSE u \in S.hits : TRUE, S.val>>
      [] OTHER -> <<"none", 0, 0>>
Verdict(S, D, row) ==
    CASE D.present = "yes" -> <<"arrived", row.destUid, D.val>>
      [] D.present # "yes" /\ S.hits = {} /\ Cardinality(D.hits) = 1
           -> <<"arrived", CHOOSE u \in D.hits : TRUE, D.val>>
      [] D.present # "yes" /\ D.hits = {} /\ Cardinality(S.hits) = 1 /\ S.present = "na"
           -> <<"stayed", CHOOSE u \in S.hits : TRUE, S.val>>
      [] OTHER -> <<"none", 0, 0>>

RecDest(t) ==
    /\ pc[t] = "r_dest"
    /\ LET j == rc[t]
           row == j.snap[j.cur]
           v == Verdict(j.source, ProbeOf(DestOf(row), row.destUid, row.destVal, row.mid), row)
       IN \/ /\ v[1] # "none"
             /\ rc' = [rc EXCEPT ![t].verdict = v[1], ![t].uid = v[2], ![t].val = v[3]]
             /\ Goto(t, "r_write") /\ UNCHANGED <<mv, rs>>
          \/ v[1] = "none" /\ NextStuck(t)
          \/ "imap" \in Faults /\ Forget(t)
    /\ UNCHANGED <<server, db, busy>>

\* transition / promoteMove
MoveRowAfter(j, row) ==
    IF j.verdict = "stayed" THEN [row EXCEPT !.status = "failed"]
    ELSE [row EXCEPT !.status = "succeeded", !.destUid = j.uid, !.destVal = j.val]
\* restoreNotMoved / restoreMoved, the restore row and its original
RestoreRowAfter(j, row) ==
    IF j.verdict = "stayed" THEN [row EXCEPT !.status = "failed", !.undoOf = 0]
    ELSE [row EXCEPT !.status = "succeeded", !.destUid = j.uid, !.destVal = j.val]
OriginalAfterSwapped(j, row) ==
    IF j.verdict = "arrived" THEN [row EXCEPT !.status = "succeeded", !.destUid = j.uid, !.destVal = j.val]
    ELSE [row EXCEPT !.status = "undone"]
OriginalAfter(j, row) ==
    IF j.verdict = "stayed" THEN [row EXCEPT !.status = "succeeded", !.destUid = j.uid, !.destVal = j.val]
    ELSE [row EXCEPT !.status = "undone"]

\* The conditional updates.  The original of a restore, when it was read
\* pending, is updated in the same transaction whether or not the update of
\* the restore row matched.
SettledUnconditionally(j, r) ==
    LET was == j.snap[j.cur]
    IN CASE r = j.cur /\ was.action = "move" -> MoveRowAfter(j, rows[r])
         [] r = j.cur /\ was.action = "restore" -> RestoreRowAfter(j, rows[r])
         [] r # j.cur /\ was.action = "restore" /\ r = was.undoOf /\ j.claimed -> OriginalAfter(j, rows[r])
         [] OTHER -> rows[r]
SettledAlone(j, r) ==
    IF r # j.cur \/ rows[r].status # j.snap[r].status THEN rows[r]
    ELSE IF rows[r].action = "move" THEN MoveRowAfter(j, rows[r]) ELSE RestoreRowAfter(j, rows[r])
Settled(j, r) ==
    LET was == j.snap[j.cur]
        unchanged == rows[r].status = was.status
    IN CASE r = j.cur /\ was.action = "move" -> IF unchanged THEN MoveRowAfter(j, rows[r]) ELSE rows[r]
         [] r = j.cur /\ was.action = "restore" -> IF unchanged THEN RestoreRowAfter(j, rows[r]) ELSE rows[r]
         [] r # j.cur /\ was.action = "restore" /\ r = was.undoOf /\ j.claimed ->
              IF rows[r].status = "pending" THEN OriginalAfter(j, rows[r]) ELSE rows[r]
         [] OTHER -> rows[r]

RecWrite(t) ==
    /\ pc[t] = "r_write"
    /\ LET j == rc[t]
           was == j.snap[j.cur]
           restored == was.action = "restore" /\ j.verdict = "arrived"
                       /\ rows[j.cur].status = was.status /\ was.undoOf # 0
       IN \/ /\ rows' = [r \in RowIds |-> Settled(j, r)]
             /\ \/ raws' = IF restored THEN Relinked(was.raw, j.uid, j.val) ELSE raws
                \/ "db" \in Faults /\ UNCHANGED raws
             /\ NextStuck(t)
          \/ "db" \in Faults /\ Forget(t) /\ UNCHANGED <<rows, raws>>
    /\ UNCHANGED <<server, skipped, busy>>

RecStep(t) == RecSource(t) \/ RecDest(t) \/ RecWrite(t)

============================================================================
