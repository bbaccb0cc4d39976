------------------------ MODULE ClassificationSystem ------------------------
(***************************************************************************)
(* Classification, reclassify and undo, reviews and rule writes at work on *)
(* the same tables, in one API process that may die.                       *)
(***************************************************************************)
EXTENDS ReviewAndRules

\* A database in use: rules that are enabled, and rows that the provider
\* wrote or that they did, as they were then, reviewed or not.
Written == AiSnaps \cup
    {RuleSnap([rule |-> r, ver |-> v]) : r \in {q \in Rules : Stored(q)}, v \in Versions}
InUse ==
    /\ rules \in [Rules -> {NoRule} \cup {[state |-> "stored", on |-> TRUE, ver |-> v] : v \in Versions}]
    /\ rows \in [Emails -> {NoRow} \cup {[id |-> 1, snap |-> s, reviewed |-> d] :
                                          s \in Written, d \in BOOLEAN}]
    /\ born = [e \in Emails |-> rows[e].id]
    /\ revs = [b \in Runs |-> [e \in Emails |-> NoRev]]
    /\ cache = NoCache

\* Each request of a set is yet to come, and no other.
ToCome(requested) ==
    /\ jobs = [j \in Jobs |-> IF j \in requested THEN NoJob ELSE JobDone]
    /\ calls = [p \in Callers |-> NoCall]
    /\ runs = [b \in Runs |-> IF b \in requested THEN NoRun ELSE [NoRun EXCEPT !.at = "done"]]
    /\ undos = [u \in Undos |-> IF u \in requested THEN NoUndo ELSE [NoUndo EXCEPT !.at = "done"]]
    /\ reviews = [v \in Reviewers |-> IF v \in requested THEN NoReview ELSE ReviewDone]
    /\ writers = [w \in Writers |-> IF w \in requested THEN NoWriter ELSE WriterDone]

Init == InUse /\ \E requested \in Requested : ToCome(requested)

Active(f) == {p \in DOMAIN f : f[p].at \notin {"idle", "done", "dead"}}
Crash ==
    /\ "crash" \in Faults
    /\ Active(jobs) \cup Active(runs) \cup Active(undos) \cup Active(reviews) \cup Active(writers) # {}
    /\ jobs' = [j \in Jobs |-> IF j \in Active(jobs) THEN JobDone ELSE jobs[j]]
    /\ calls' = [p \in Callers |-> NoCall]
    /\ runs' = [b \in Runs |-> IF b \in Active(runs)
                               THEN [NoRun EXCEPT !.at = "dead", !.rule = runs[b].rule] ELSE runs[b]]
    /\ undos' = [u \in Undos |-> IF u \in Active(undos) THEN [NoUndo EXCEPT !.at = "done"] ELSE undos[u]]
    /\ reviews' = [v \in Reviewers |-> IF v \in Active(reviews) THEN ReviewDone ELSE reviews[v]]
    /\ writers' = [w \in Writers |-> IF w \in Active(writers) THEN WriterDone ELSE writers[w]]
    /\ cache' = NoCache
    /\ UNCHANGED tables

Next ==
    \/ \E j \in Jobs : JobStep(j)
    \/ \E p \in Callers : CallStep(p)
    \/ \E b \in Runs : RunStep(b)
    \/ \E u \in Undos : UndoStep(u)
    \/ \E v \in Reviewers : ReviewStep(v)
    \/ \E w \in Writers : WriterStep(w)
    \/ Crash

Spec == Init /\ [][Next]_vars

----------------------------------------------------------------------------
(* Properties                                                              *)

\* Reclassify and its undo implement ChangeLog, whatever runs beside them.
Entry(rev) == [made |-> rev.act # "none", id |-> rev.id, prev |-> rev.prev, next |-> rev.next,
               undone |-> rev.undone]
log == [b \in Runs |-> [e \in Emails |-> Entry(revs[b][e])]]
Log == INSTANCE ChangeLog WITH Batches <- Runs, Links <- Rules, NoValue <- NoSnap, NoLink <- None
ImplementsLog == Log!Spec

\* "A released email is never left without a classification row": one that
\* is, is one that a run is still at work on, or died over, or whose rule was
\* deleted under the run.
ReleasedHasRowUnlessRuleGone == \A e \in Emails :
    LET by == {b \in Runs : revs[b][e].act = "release" /\ revs[b][e].next = NoSnap}
    IN (\E b \in Runs : revs[b][e].act = "release") /\ ~HasRow(e) =>
         \E b \in by : \/ \E c \in runs[b].cur : c.mail = e
                       \/ runs[b].at = "dead" \/ rules[runs[b].rule].state = "gone"

\* What is cached is what the rules in the database compile to, but while a
\* write is about to drop it.
CacheFresh ==
    cache.at = "loaded" /\ (\A w \in Writers : writers[w].at # "invalidate") => cache.hits = Compiled

\* A person's decision on a row goes only with a request to replace it.
DecisionHeld == [][\A e \in Emails : rows[e].reviewed =>
                     \/ rows'[e].reviewed /\ rows'[e].id = rows[e].id
                     \/ \E v \in Reviewers : ReviewDelete(v)]_vars
=============================================================================
