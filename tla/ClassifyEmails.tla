--------------------------- MODULE ClassifyEmails ---------------------------
(***************************************************************************)
(* ClassificationService: classifyEmail as a procedure of a job or of a    *)
(* reclassify run, processUnclassified as a job, and the matcher cache of  *)
(* SenderRulesService that jobs load.                                      *)
(***************************************************************************)
EXTENDS ClassificationState

----------------------------------------------------------------------------
(* classifyEmail.                                                          *)

Callers == Jobs \cup Runs

\* A usable match is written without the provider.
Routed(e, h) == [at |-> IF Usable(h) THEN "write" ELSE "ask", mail |-> e,
                 snap |-> IF Usable(h) THEN RuleSnap(h) ELSE NoSnap]

\* The call begins by reading the row: one that exists is returned as it is.
Entered(e, onward) ==
    IF HasRow(e) THEN [at |-> "done", mail |-> e, snap |-> rows[e].snap] ELSE onward

\* getBreakerStatus().open, as far as this model knows it.
BreakerOpen == IF "ai" \in Faults THEN BOOLEAN ELSE {FALSE}

\* The provider answers, or the call fails; a failure writes nothing.
ClassifyAnswer(p) ==
    /\ calls[p].at = "ask"
    /\ \/ \E s \in AiSnaps : calls' = [calls EXCEPT ![p].at = "write", ![p].snap = s]
       \/ "ai" \in Faults /\ \E f \in {"open", "ai"} : calls' = [calls EXCEPT ![p].at = f]
    /\ UNCHANGED <<tables, cache, jobs, runs, undos, reviews, writers>>

\* persist
ClassifyWrite(p) ==
    /\ calls[p].at = "write"
    /\ LET c == calls[p]
       IN IF LinkHolds(c.snap)
          THEN Upsert(c.mail, c.snap) /\ calls' = [calls EXCEPT ![p].at = "done"]
          ELSE calls' = [calls EXCEPT ![p].at = "db"] /\ UNCHANGED <<rows, born>>
    /\ UNCHANGED <<rules, revs, cache, jobs, runs, undos, reviews, writers>>

----------------------------------------------------------------------------
(* The matcher cache.                                                      *)

\* getMatcher: the cached matcher, or the promise to await.
GetMatcher(j) ==
    /\ jobs[j].at = "load"
    /\ CASE cache.at = "loaded" ->
              /\ jobs' = [jobs EXCEPT ![j].at = "rules", ![j].hits = cache.hits]
              /\ UNCHANGED cache
         [] cache.at = "loading" ->
              /\ jobs' = [jobs EXCEPT ![j].at = "await", ![j].waits = cache.by]
              /\ UNCHANGED cache
         [] OTHER ->
              /\ jobs' = [jobs EXCEPT ![j].at = "query", ![j].waits = j]
              /\ cache' = [NoCache EXCEPT !.at = "loading", !.by = j]
    /\ UNCHANGED <<tables, calls, runs, undos, reviews, writers>>

\* The query of a promise reads the enabled rules.
LoadMatcher(j) ==
    /\ jobs[j].at = "query"
    /\ jobs' = [jobs EXCEPT ![j].at = "read", ![j].hits = Compiled]
    /\ UNCHANGED <<tables, cache, calls, runs, undos, reviews, writers>>

Awaiting(j) == {q \in Jobs : jobs[q].waits = j}
Loading(j) == cache.at = "loading" /\ cache.by = j

\* A promise that a write has dropped from the cache meanwhile stays out.
CachedAlways(j) == [at |-> "loaded", by |-> None, hits |-> jobs[j].hits]
Cached(j) == IF Loading(j) THEN [at |-> "loaded", by |-> None, hits |-> jobs[j].hits] ELSE cache

\* The promise settles for all that await it.
MatcherLoaded(j) ==
    /\ jobs[j].at = "read"
    /\ jobs' = [q \in Jobs |-> IF q \in Awaiting(j)
                  THEN [jobs[q] EXCEPT !.at = "rules", !.waits = None, !.hits = jobs[j].hits]
                  ELSE jobs[q]]
    /\ cache' = Cached(j)
    /\ UNCHANGED <<tables, calls, runs, undos, reviews, writers>>

MatcherFails(j) ==
    /\ "load" \in Faults /\ jobs[j].at = "query"
    /\ jobs' = [q \in Jobs |-> IF q \in Awaiting(j) THEN JobDone ELSE jobs[q]]
    /\ calls' = [p \in Callers |-> IF p \in Awaiting(j) THEN NoCall ELSE calls[p]]
    /\ cache' = IF Loading(j) THEN NoCache ELSE cache
    /\ UNCHANGED <<tables, runs, undos, reviews, writers>>

----------------------------------------------------------------------------
(* processUnclassified, and the request that classifies one email.         *)

Newest(S) == CHOOSE e \in S : \A f \in S : e >= f

JobBegin(j) ==
    /\ jobs[j].at = "idle"
    /\ LET open == {e \in Emails : ~HasRow(e)}
       IN /\ open # {}
          /\ jobs' = [jobs EXCEPT ![j] = [NoJob EXCEPT !.at = "load", !.todo = open]]
    /\ UNCHANGED <<tables, cache, calls, runs, undos, reviews, writers>>

JobBeginOne(j) ==
    /\ jobs[j].at = "idle"
    /\ \E e \in Emails :
         /\ ~HasRow(e)
         /\ jobs' = [jobs EXCEPT ![j] = [NoJob EXCEPT !.at = "load", !.one = TRUE]]
         /\ calls' = [calls EXCEPT ![j] = [NoCall EXCEPT !.at = "match", !.mail = e]]
    /\ UNCHANGED <<tables, cache, runs, undos, reviews, writers>>

JobMatchOne(j) ==
    /\ jobs[j].at = "rules" /\ jobs[j].one
    /\ jobs' = [jobs EXCEPT ![j].at = "call", ![j].hits = NoMatcher]
    /\ calls' = [calls EXCEPT ![j] = Routed(@.mail, jobs[j].hits[@.mail])]
    /\ UNCHANGED <<tables, cache, runs, undos, reviews, writers>>

\* The rule pass: a candidate a rule matches is written without looking
\* whether it has been classified since; the others are left for the AI loop.
JobRule(j) ==
    /\ jobs[j].at = "rules" /\ jobs[j].todo # {}
    /\ LET e == Newest(jobs[j].todo)  h == jobs[j].hits[e]
       IN IF Usable(h)
          THEN /\ jobs' = [jobs EXCEPT ![j].todo = @ \ {e}]
               /\ IF LinkHolds(RuleSnap(h)) THEN Upsert(e, RuleSnap(h))
                  ELSE UNCHANGED <<rows, born>>
          ELSE /\ jobs' = [jobs EXCEPT ![j].todo = @ \ {e}, ![j].left = @ \cup {e}]
               /\ UNCHANGED <<rows, born>>
    /\ UNCHANGED <<rules, revs, cache, calls, runs, undos, reviews, writers>>

\* getBreakerStatus: an open breaker skips the AI loop.
JobGate(j) ==
    /\ jobs[j].at = "rules" /\ jobs[j].todo = {} /\ ~jobs[j].one
    /\ \/ jobs' = [jobs EXCEPT ![j].at = "ai"]
       \/ TRUE \in BreakerOpen /\ jobs' = [jobs EXCEPT ![j] = JobDone]
    /\ UNCHANGED <<tables, cache, calls, runs, undos, reviews, writers>>

JobNext(j) ==
    /\ jobs[j].at = "ai" /\ jobs[j].left # {}
    /\ LET e == Newest(jobs[j].left)
       IN /\ jobs' = [jobs EXCEPT ![j].at = "call", ![j].left = @ \ {e}]
          /\ calls' = [calls EXCEPT ![j] = Entered(e, Routed(e, jobs[j].hits[e]))]
    /\ UNCHANGED <<tables, cache, runs, undos, reviews, writers>>

\* After a call: an open breaker or the last strike stops the batch.  Of the
\* provider's failures only those of the one request are strikes.
Strikes(j) == IF calls[j].at = "ai" THEN {0, jobs[j].strikes + 1} ELSE {0}
JobResume(j) ==
    /\ jobs[j].at = "call" /\ calls[j].at \in {"done"} \cup Failures
    /\ calls' = [calls EXCEPT ![j] = NoCall]
    /\ \E strikes \in Strikes(j) :
         jobs' = [jobs EXCEPT ![j] =
           IF @.one \/ calls[j].at = "open" \/ strikes = MaxStrikes THEN JobDone
           ELSE [@ EXCEPT !.at = "ai", !.strikes = strikes]]
    /\ UNCHANGED <<tables, cache, runs, undos, reviews, writers>>

JobEnd(j) ==
    /\ jobs[j].at = "ai" /\ jobs[j].left = {}
    /\ jobs' = [jobs EXCEPT ![j] = JobDone]
    /\ UNCHANGED <<tables, cache, calls, runs, undos, reviews, writers>>

JobStep(j) ==
    \/ JobBegin(j) \/ JobBeginOne(j) \/ JobMatchOne(j) \/ GetMatcher(j)
    \/ LoadMatcher(j) \/ MatcherLoaded(j) \/ MatcherFails(j) \/ JobRule(j) \/ JobGate(j) \/ JobNext(j) \/ JobResume(j) \/ JobEnd(j)
CallStep(p) == ClassifyAnswer(p) \/ ClassifyWrite(p)
============================================================================
