----------------------------- MODULE Reclassify -----------------------------
(***************************************************************************)
(* SenderRuleReclassifyService: POST /sender-rules/:id/reclassify and the  *)
(* undo of its batch.  A dry run changes nothing and is left out.          *)
(***************************************************************************)
EXTENDS ClassifyEmails

----------------------------------------------------------------------------
(* A run: load the rule and the matcher, scan, then one candidate a time.  *)

RunBegin(b) ==
    /\ runs[b].at = "idle"
    /\ \E r \in Rules, mode \in {"reclassify", "mark_review"}, matching \in BOOLEAN :
         /\ Stored(r)
         /\ runs' = [runs EXCEPT ![b] = [NoRun EXCEPT !.at = "load", !.rule = r,
                       !.on = rules[r].on, !.mode = mode, !.matching = matching]]
    /\ UNCHANGED <<tables, cache, jobs, calls, undos, reviews, writers>>

\* Compiled from the database, never from the cache.
RunLoad(b) ==
    /\ runs[b].at = "load"
    /\ runs' = [runs EXCEPT ![b].at = "scan", ![b].hits = Compiled]
    /\ UNCHANGED <<tables, cache, jobs, calls, undos, reviews, writers>>

\* releaseReviewReason and aiUnavailableReason begin alike for one rule.
MarkedBefore(b, s) == s.flag /\ s.why # None /\ runs[s.why].rule = runs[b].rule

\* The change the scan finds for the row of e, if any.
Found(b, e) ==
    LET run == runs[b]  h == run.hits[e]  s == rows[e].snap
        linked == s.link = run.rule  wins == h.rule = run.rule
        cand(act, next) ==
            {[mail |-> e, act |-> act, id |-> rows[e].id, prev |-> s, next |-> next]}
        won == IF ~Usable(h) \/ (linked /\ s = RuleSnap(h)) THEN {}
               ELSE cand(IF linked THEN "update" ELSE "claim", RuleSnap(h))
        lost == IF run.mode = "mark_review"
                THEN IF MarkedBefore(b, s) THEN {} ELSE cand("release", NoSnap)
                ELSE cand("release", IF Usable(h) THEN RuleSnap(h) ELSE NoSnap)
    IN IF ~HasRow(e) \/ rows[e].reviewed \/ ~(linked \/ (wins /\ run.on /\ run.matching)) THEN {}
       ELSE IF wins THEN won ELSE lost

RunScan(b) ==
    /\ runs[b].at = "scan"
    /\ LET all == UNION {Found(b, e) : e \in Emails}
           full(S) == Cardinality(S) = Limit \/ (Cardinality(S) < Limit /\ S = all)
       IN \E todo \in {S \in SUBSET all : full(S)}, down \in BreakerOpen :
            runs' = [runs EXCEPT ![b].at = "next", ![b].todo = todo, ![b].aiDown = down,
                                    ![b].on = FALSE, ![b].matching = FALSE]
    /\ UNCHANGED <<tables, cache, jobs, calls, undos, reviews, writers>>

\* The row is as scanned and has no ReviewDecision: lockUnreviewed and the
\* WHERE of the write, in one transaction with the revision.
UntouchedButReviewed(c) == rows[c.mail].id = c.id /\ rows[c.mail].snap = c.prev
Untouched(c) ==
    /\ rows[c.mail].id = c.id /\ rows[c.mail].snap = c.prev
    /\ ~rows[c.mail].reviewed

LoggedAfter(b, c, status, next) ==
    revs' = [revs EXCEPT ![b][c.mail] =
      [act |-> c.act, status |-> status, id |-> c.id, prev |-> next, next |-> next,
       undone |-> FALSE]]
Logged(b, c, status, next) ==
    revs' = [revs EXCEPT ![b][c.mail] =
      [act |-> c.act, status |-> status, id |-> c.id, prev |-> c.prev, next |-> next,
       undone |-> FALSE]]
Flagged(b, s) == [s EXCEPT !.flag = TRUE, !.why = b]

\* A release that no other rule covers needs the provider.
AiDependent(b, c) == c.act = "release" /\ runs[b].mode = "reclassify" /\ c.next = NoSnap
Rewrites(b, c) == c.act # "release" \/ runs[b].mode = "mark_review"
                    \/ (AiDependent(b, c) /\ runs[b].aiDown)
\* Foreign keys of the revision and of the row.
KeysHold(b, s) == Stored(runs[b].rule) /\ LinkHolds(s)

\* Update, claim, mark for review: the row is rewritten in place.  A row that
\* is not as scanned, or a rule that is gone, leaves everything as it was.
RunRewrite(b) ==
    /\ runs[b].at = "next"
    /\ \E c \in runs[b].todo :
         LET next == IF c.act = "release" THEN Flagged(b, c.prev) ELSE c.next
         IN /\ Rewrites(b, c)
            /\ runs' = [runs EXCEPT ![b].todo = @ \ {c}]
            /\ IF Untouched(c) /\ KeysHold(b, next)
               THEN /\ rows' = [rows EXCEPT ![c.mail].snap = next]
                    /\ Logged(b, c, IF c.act = "release" THEN "marked_review" ELSE "applied", next)
               ELSE UNCHANGED <<rows, revs>>
    /\ UNCHANGED <<rules, born, cache, jobs, calls, undos, reviews, writers>>

\* release=reclassify: record and delete, then classify again.
RunRelease(b) ==
    /\ runs[b].at = "next"
    /\ \E c \in runs[b].todo :
         /\ ~Rewrites(b, c)
         /\ IF Untouched(c) /\ Stored(runs[b].rule)
            THEN /\ rows' = [rows EXCEPT ![c.mail] = NoRow]
                 /\ Logged(b, c, "deferred", NoSnap)
                 /\ runs' = [runs EXCEPT ![b].at = "call", ![b].todo = @ \ {c}, ![b].cur = {c}]
            ELSE runs' = [runs EXCEPT ![b].todo = @ \ {c}] /\ UNCHANGED <<rows, revs>>
    /\ UNCHANGED <<rules, born, cache, jobs, calls, undos, reviews, writers>>

Current(b) == CHOOSE c \in runs[b].cur : TRUE

RunClassify(b) ==
    /\ runs[b].at = "call" /\ calls[b] = NoCall
    /\ LET e == Current(b).mail
       IN calls' = [calls EXCEPT ![b] = Entered(e, Routed(e, runs[b].hits[e]))]
    /\ UNCHANGED <<tables, cache, jobs, runs, undos, reviews, writers>>

\* The call returned a row: an answer of the provider ends a run of failures.
RunReturned(b) ==
    /\ runs[b].at = "call" /\ calls[b].at = "done"
    /\ runs' = [runs EXCEPT ![b].at = "record",
                            ![b].strikes = IF calls[b].snap.by = "rule" THEN @ ELSE 0]
    /\ UNCHANGED <<tables, cache, jobs, calls, undos, reviews, writers>>

RunRecord(b) ==
    /\ runs[b].at = "record"
    /\ LET e == Current(b).mail
       IN revs' = [revs EXCEPT ![b][e].status = "reclassified", ![b][e].next = calls[b].snap]
    /\ runs' = [runs EXCEPT ![b].at = "next", ![b].cur = {}]
    /\ calls' = [calls EXCEPT ![b] = NoCall]
    /\ UNCHANGED <<rules, rows, born, cache, jobs, undos, reviews, writers>>

\* It failed: an open breaker, or the last strike, keeps the rest of the run
\* from the provider.
RunFailed(b) ==
    /\ runs[b].at = "call" /\ calls[b].at \in Failures
    /\ LET strikes == IF calls[b].at = "ai" /\ runs[b].strikes < MaxStrikes
                      THEN runs[b].strikes + 1 ELSE runs[b].strikes
       IN runs' = [runs EXCEPT ![b].at = "restore", ![b].strikes = strikes,
              ![b].aiDown = @ \/ calls[b].at = "open"
                              \/ (calls[b].at = "ai" /\ strikes = MaxStrikes)]
    /\ calls' = [calls EXCEPT ![b] = NoCall]
    /\ UNCHANGED <<tables, cache, jobs, undos, reviews, writers>>

RunGivesUp(b) ==
    /\ runs[b].at = "restore"
    /\ runs' = [runs EXCEPT ![b].at = "next", ![b].cur = {}]
    /\ UNCHANGED <<tables, cache, jobs, calls, undos, reviews, writers>>
\* restoreFlagged: the previous values under the same id, unless the email
\* has a row by now or the rule that wrote the values is gone.
RunRestore(b) ==
    /\ runs[b].at = "restore"
    /\ LET c == Current(b)  next == Flagged(b, c.prev)
       IN IF ~HasRow(c.mail) /\ LinkHolds(next)
          THEN /\ rows' = [rows EXCEPT ![c.mail] = NewRow(c.id, next)]
               /\ revs' = [revs EXCEPT ![b][c.mail].status = "marked_review",
                                       ![b][c.mail].next = next]
          ELSE UNCHANGED <<rows, revs>>
    /\ runs' = [runs EXCEPT ![b].at = "next", ![b].cur = {}]
    /\ UNCHANGED <<rules, born, cache, jobs, calls, undos, reviews, writers>>

RunEnd(b) ==
    /\ runs[b].at = "next" /\ runs[b].todo = {}
    /\ runs' = [runs EXCEPT ![b] = [NoRun EXCEPT !.at = "done", !.rule = runs[b].rule]]
    /\ UNCHANGED <<tables, cache, jobs, calls, undos, reviews, writers>>

RunStep(b) ==
    \/ RunBegin(b) \/ RunLoad(b) \/ RunScan(b) \/ RunRewrite(b) \/ RunRelease(b)
    \/ RunClassify(b) \/ RunReturned(b) \/ RunRecord(b) \/ RunFailed(b) \/ RunRestore(b)
    \/ RunEnd(b)

----------------------------------------------------------------------------
(* undoBatch.  A client learns the batchId when the run has returned, or   *)
(* finds it in the table after a crash.                                    *)

Revised(b) == {e \in Emails : revs[b][e].act # "none"}

UndoBegin(u) ==
    /\ undos[u].at = "idle"
    /\ \E b \in Runs :
         /\ runs[b].at \in {"done", "dead"} /\ Revised(b) # {}
         /\ undos' = [undos EXCEPT ![u] = [NoUndo EXCEPT !.at = "next", !.batch = b,
                        !.todo = {e \in Revised(b) : ~revs[b][e].undone}]]
    /\ UNCHANGED <<tables, cache, jobs, calls, runs, reviews, writers>>

\* The current row is what the batch left, or there is none when the batch
\* left none.
AsLeft(b, e) ==
    LET rev == revs[b][e]
    IN IF rev.next = NoSnap THEN ~HasRow(e) /\ rev.status = "deferred"
       ELSE HasRow(e) /\ rows[e].snap = rev.next

\* The previous values, without the rule when that is gone.
Restored(s) == IF LinkHolds(s) THEN s ELSE [s EXCEPT !.link = None]

\* Reads the row and the rule; a reviewed or changed row is passed over.
UndoRead(u) ==
    /\ undos[u].at = "next"
    /\ \E e \in undos[u].todo :
         LET fits == ~rows[e].reviewed /\ AsLeft(undos[u].batch, e)
         IN \/ /\ fits
               /\ undos' = [undos EXCEPT ![u].at = "apply", ![u].todo = @ \ {e}, ![u].mail = e,
                    ![u].id = rows[e].id, ![u].restore = Restored(revs[undos[u].batch][e].prev)]
            \/ ~fits /\ undos' = [undos EXCEPT ![u].todo = @ \ {e}]
    /\ UNCHANGED <<tables, cache, jobs, calls, runs, reviews, writers>>

\* The transaction: undoneAt is set and the row restored, or neither.
UndoApply(u) ==
    /\ undos[u].at = "apply"
    /\ LET b == undos[u].batch  e == undos[u].mail  s == undos[u].restore  id == undos[u].id
           holds == /\ ~revs[b][e].undone /\ LinkHolds(s)
                    /\ IF id = 0 THEN ~HasRow(e)
                       ELSE rows[e].id = id /\ rows[e].snap = revs[b][e].next /\ ~rows[e].reviewed
       IN IF holds
          THEN /\ rows' = [rows EXCEPT ![e] = IF id = 0 THEN NewRow(revs[b][e].id, s)
                                              ELSE [@ EXCEPT !.snap = s]]
               /\ revs' = [revs EXCEPT ![b][e].undone = TRUE]
          ELSE UNCHANGED <<rows, revs>>
    /\ undos' = [undos EXCEPT ![u].at = "next", ![u].mail = 0, ![u].id = 0, ![u].restore = NoSnap]
    /\ UNCHANGED <<rules, born, cache, jobs, calls, runs, reviews, writers>>

UndoEnd(u) ==
    /\ undos[u].at = "next" /\ undos[u].todo = {}
    /\ undos' = [undos EXCEPT ![u] = [NoUndo EXCEPT !.at = "done"]]
    /\ UNCHANGED <<tables, cache, jobs, calls, runs, reviews, writers>>

UndoStep(u) == UndoBegin(u) \/ UndoRead(u) \/ UndoApply(u) \/ UndoEnd(u)
=============================================================================
