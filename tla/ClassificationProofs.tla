------------------------ MODULE ClassificationProofs ------------------------
(***************************************************************************)
(* Classification, reclassify, undo, reviews and rule writes, in any       *)
(* number and any order, with failures and restarts: their tables stay     *)
(* well typed; a cached matcher is current; a released email gets its row  *)
(* back; a person's decision holds; and reclassify implements ChangeLog.   *)
(***************************************************************************)
EXTENDS ClassificationSystem, FiniteSetTheorems, WellFoundedInduction, TLAPS

USE ClassificationAssumption DEF ClassificationAssumption, Callers

----------------------------------------------------------------------------
(* The invariant.                                                          *)

\* Records as the requests keep them.  A call has its email; a job stops at
\* the last strike, and waits for a matcher only while there is none.
CallOK == {c \in Call : c.at # "none" => c.mail \in Emails}
JobOK == {k \in Job :
    /\ k.strikes < MaxStrikes
    /\ k.waits # None => k.at \in {"query", "read", "await"}}

\* A run knows its rule; while it works on a candidate it has released, it has
\* no other; a candidate had a row, and one to release the run's rule.
AtRelease == {"call", "record", "restore"}
RunOK == {r \in Run :
    /\ r.at \in {"load", "scan", "next"} \cup AtRelease => r.rule \in Rules
    /\ r.at \in {"idle", "load", "scan", "done", "dead"} => r.todo = {}
    /\ r.at \in AtRelease => \E c \in r.cur : r.cur = {c} /\ c.act = "release"
    /\ r.at \notin AtRelease => r.cur = {}
    /\ \A c \in r.todo \cup r.cur : c.id # 0 /\ (c.act = "release" => c.prev.link = r.rule)
    /\ \A c \in r.todo, d \in r.todo \cup r.cur : c.mail = d.mail => c = d
    /\ r.todo \cap r.cur = {}}

\* An undo knows its batch, and at the transaction its email.
UndoOK == {n \in Undo :
    /\ n.at \in {"next", "apply"} => n.batch \in Runs
    /\ n.at = "apply" => n.mail \in Emails}

\* A write of a rule has named the rule.
WriterOK == {n \in Writer : n.at = "write" => n.rule \in Rules}

\* The request for one email has named it before it loads the rules.
OneCalled == \A j \in Jobs :
    jobs[j].one /\ jobs[j].at \in {"load", "query", "read", "await", "rules"} => calls[j].at # "none"

Typed ==
    /\ rules \in [Rules -> Rule]
    /\ rows \in [Emails -> Row] /\ born \in [Emails -> Nat]
    /\ revs \in [Runs -> [Emails -> Rev]]
    /\ cache \in Cache
    /\ jobs \in [Jobs -> JobOK] /\ calls \in [Callers -> CallOK]
    /\ runs \in [Runs -> RunOK] /\ undos \in [Undos -> UndoOK]
    /\ reviews \in [Reviewers -> Review] /\ writers \in [Writers -> WriterOK]
    /\ OneCalled

\* An email without a row has no values and no decision.
NoRowIsBlank == \A e \in Emails : ~HasRow(e) => rows[e].snap = NoSnap /\ ~rows[e].reviewed

\* The promise in the cache is one that its request is at work on.
LoaderWorks == cache.at = "loading" =>
    /\ cache.by \in Jobs
    /\ jobs[cache.by].at \in {"query", "read"} /\ jobs[cache.by].waits = cache.by

\* The matcher in the cache, or about to be put there, is current.
NoneInvalidates == \A w \in Writers : writers[w].at # "invalidate"
ReadIsFresh == cache.at = "loading" /\ jobs[cache.by].at = "read" /\ NoneInvalidates =>
    jobs[cache.by].hits = Compiled

\* A run's rule has been stored.
RuleWas == \A b \in Runs : runs[b].rule \in Rules => rules[runs[b].rule].state # "new"

\* What a run has logged: nothing for the candidates to come; for the one it
\* has released, the release.
Open(b, c) ==
    /\ revs[b][c.mail].act = "release" /\ revs[b][c.mail].status = "deferred"
    /\ revs[b][c.mail].id = c.id /\ revs[b][c.mail].prev = c.prev
    /\ revs[b][c.mail].next = NoSnap /\ ~revs[b][c.mail].undone
RunLog(b) ==
    /\ runs[b].at \in {"idle", "load", "scan"} => \A e \in Emails : revs[b][e].act = "none"
    /\ \A c \in runs[b].todo : revs[b][c.mail].act = "none"
    /\ \A c \in runs[b].cur : Open(b, c)
    /\ \A e \in Emails : revs[b][e].act # "none" => revs[b][e].id # 0

\* A run's call is about the candidate it has released.
RunCall(b) ==
    /\ runs[b].at \notin {"call", "record"} => calls[b].at = "none"
    /\ runs[b].at = "call" /\ calls[b].at # "none" => \A c \in runs[b].cur : c.mail = calls[b].mail

\* An undo is of a batch that has ended, and restores what that replaced.
UndoIsOf(u, b, e) ==
    /\ revs[b][e].act # "none"
    /\ undos[u].restore \in {revs[b][e].prev, [revs[b][e].prev EXCEPT !.link = None]}
    /\ undos[u].id = 0 <=> revs[b][e].next = NoSnap
UndoLog(u) ==
    /\ undos[u].at \in {"next", "apply"} =>
         /\ runs[undos[u].batch].at \in {"done", "dead"}
         /\ \A e \in undos[u].todo : revs[undos[u].batch][e].act # "none"
    /\ undos[u].at = "apply" => UndoIsOf(u, undos[u].batch, undos[u].mail)

\* An email that was released and has no row: the run that answers for it.
At(b, e) == \E c \in runs[b].cur : c.mail = e
Answers(b, e) ==
    /\ revs[b][e].act = "release" /\ revs[b][e].next = NoSnap
    /\ IF At(b, e) THEN runs[b].at # "record" /\ calls[b].at # "done"
       ELSE runs[b].at = "dead" \/ (runs[b].rule \in Rules /\ rules[runs[b].rule].state = "gone")
ReleasedIsAnswered == \A e \in Emails :
    (\E b \in Runs : revs[b][e].act = "release") /\ ~HasRow(e) => \E b \in Runs : Answers(b, e)

CacheInv == LoaderWorks /\ ReadIsFresh /\ CacheFresh
RowInv ==
    /\ NoRowIsBlank /\ RuleWas
    /\ \A b \in Runs : RunLog(b) /\ RunCall(b)
    /\ \A u \in Undos : UndoLog(u)
    /\ ReleasedIsAnswered
----------------------------------------------------------------------------
(* The choices the code makes by an order: the smallest matching rule, the *)
(* newest email.                                                           *)

LEMMA LeastOfNat ==
  ASSUME NEW S \in SUBSET Nat, S # {}
  PROVE  \E n \in S : \A m \in S : n <= m
<1>1. PICK n \in S : \A m \in S : ~(<<m, n>> \in OpToRel(<, Nat))
  BY NatLessThanWellFounded, WFMin
<1>2. \A m \in S : <<m, n>> \in OpToRel(<, Nat) <=> m < n
  BY DEF OpToRel
<1>3. \A m \in S : ~(m < n)
  BY <1>1, <1>2
<1>4. \A m \in S : m \in Nat
  OBVIOUS
<1> QED
  BY <1>3, <1>4

LEMMA GreatestOfFinite ==
  ASSUME NEW S \in SUBSET Nat, S # {}, IsFiniteSet(S)
  PROVE  \E n \in S : \A m \in S : n >= m
<1> DEFINE Bounded(T) == \E n \in T : \A m \in T : n >= m
           Bad == {k \in Nat : \E T \in SUBSET S : T # {} /\ Cardinality(T) = k /\ ~Bounded(T)}
<1>1. ASSUME Bad # {} PROVE FALSE
  <2>1. PICK k \in Bad : \A l \in Bad : k <= l
    BY <1>1, LeastOfNat
  <2>2. PICK T \in SUBSET S : T # {} /\ Cardinality(T) = k /\ ~Bounded(T)
    BY <2>1
  <2>3. PICK x \in T : TRUE
    BY <2>2
  <2>4. IsFiniteSet(T) /\ IsFiniteSet(T \ {x}) /\ Cardinality(T \ {x}) = k - 1 /\ k \in Nat
        /\ Cardinality(T \ {x}) \in Nat
    BY <2>1, <2>2, <2>3, FS_Subset, FS_RemoveElement, FS_CardinalityType
  <2>5. CASE T \ {x} = {}
    BY <2>2, <2>3, <2>5
  <2>6. CASE T \ {x} # {}
    <3>1. Bounded(T \ {x})
      <4>1. k - 1 \in Nat /\ k - 1 \notin Bad
        BY <2>1, <2>4
      <4> QED
        BY <2>4, <2>6, <4>1
    <3>2. PICK y \in T \ {x} : \A m \in T \ {x} : y >= m
      BY <3>1
    <3>3. \A m \in T : (IF x >= y THEN x ELSE y) >= m
      BY <2>3, <3>2
    <3> QED
      BY <2>2, <2>3, <3>2, <3>3
  <2> QED
    BY <2>5, <2>6
<1>2. Cardinality(S) \in Nat
  BY FS_CardinalityType
<1> QED
  BY <1>1, <1>2

LEMMA NewestIs ==
  ASSUME NEW S \in SUBSET Emails, S # {}
  PROVE  Newest(S) \in S
<1>1. \E n \in S : \A m \in S : n >= m
  BY GreatestOfFinite, FS_Subset
<1> QED
  BY <1>1 DEF Newest

LEMMA WinnerIs ==
  ASSUME NEW e \in Emails, Matching(e) # {}
  PROVE  Winner(e) \in Matching(e)
<1>1. Matching(e) \in SUBSET Rules
  BY DEF Matching
<1>2. \E n \in Matching(e) : \A m \in Matching(e) : n <= m
  BY <1>1, LeastOfNat
<1> QED
  BY <1>2 DEF Winner

----------------------------------------------------------------------------
(* Types: the values that fields begin with, and what is computed.         *)

LEMMA Blanks ==
    /\ NoHit \in Hit /\ NoMatcher \in Matcher /\ NoSnap \in Snap /\ NoRow \in Row /\ NoRev \in Rev
    /\ NoCache \in Cache /\ NoJob \in Job /\ JobDone \in Job /\ NoCall \in Call /\ NoRun \in Run
    /\ NoUndo \in Undo /\ NoReview \in Review /\ ReviewDone \in Review /\ NoRule \in Rule
    /\ NoWriter \in Writer /\ WriterDone \in Writer
<1>1. NoHit \in Hit
  BY DEF NoHit, Hit
<1>2. NoMatcher \in Matcher
  BY <1>1 DEF NoMatcher, Matcher
<1>3. NoSnap \in Snap
  BY <1>1 DEF NoSnap, Snap
<1>4. NoRow \in Row
  BY <1>3 DEF NoRow, Row
<1>5. NoRev \in Rev
  BY <1>3 DEF NoRev, Rev
<1>6. NoCache \in Cache
  BY <1>2 DEF NoCache, Cache
<1>7. NoJob \in Job
  BY <1>2 DEF NoJob, Job
<1>8. JobDone \in Job
  BY <1>7 DEF JobDone, Job
<1>9. NoCall \in Call
  BY <1>3 DEF NoCall, Call
<1>10. NoRun \in Run
  BY <1>2 DEF NoRun, Run
<1>11. NoUndo \in Undo
  BY <1>3 DEF NoUndo, Undo
<1>12. NoReview \in Review
  BY DEF NoReview, Review
<1>13. ReviewDone \in Review
  BY <1>12 DEF ReviewDone, Review
<1>14. NoRule \in Rule
  BY DEF NoRule, Rule
<1>15. NoWriter \in Writer
  BY <1>14 DEF NoWriter, Writer
<1>16. WriterDone \in Writer
  BY <1>15 DEF WriterDone, Writer
<1> QED
  BY <1>1, <1>2, <1>3, <1>4, <1>5, <1>6, <1>7, <1>8, <1>9, <1>10, <1>11, <1>12, <1>13, <1>14,
     <1>15, <1>16

\* What is compiled from the rules.
LEMMA CompiledType ==
  ASSUME Typed
  PROVE  Compiled \in Matcher
<1>1. ASSUME NEW e \in Emails
      PROVE  (IF Matching(e) = {} THEN NoHit
              ELSE [rule |-> Winner(e), ver |-> rules[Winner(e)].ver]) \in Hit
  <2>1. CASE Matching(e) = {}
    BY <2>1, Blanks
  <2>2. CASE Matching(e) # {}
    <3>1. Winner(e) \in Rules
      BY <2>2, WinnerIs DEF Matching
    <3>2. rules[Winner(e)].ver \in Versions \cup {0}
      BY <3>1 DEF Typed, Rule
    <3> QED
      BY <2>2, <3>1, <3>2 DEF Hit
  <2> QED
    BY <2>1, <2>2
<1> QED
  BY <1>1 DEF Compiled, Matcher

\* What a rule or the provider has a row say.
LEMMA RuleSnapType ==
  ASSUME NEW h \in Hit
  PROVE  RuleSnap(h) \in Snap
  BY DEF RuleSnap, Snap, Hit

LEMMA AiSnapType == AiSnaps \subseteq Snap
<1>1. [NoSnap EXCEPT !.by = "ai"] \in Snap
  BY Blanks DEF Snap
<1>2. [NoSnap EXCEPT !.by = "fallback", !.flag = TRUE] \in Snap
  BY Blanks DEF Snap
<1> QED
  BY <1>1, <1>2 DEF AiSnaps

LEMMA RoutedType ==
  ASSUME NEW e \in Emails, NEW h \in Hit
  PROVE  Routed(e, h) \in Call
<1>1. RuleSnap(h) \in Snap /\ NoSnap \in Snap
  BY RuleSnapType, Blanks
<1> QED
  BY <1>1 DEF Routed, Call

LEMMA EnteredType ==
  ASSUME Typed, NEW e \in Emails, NEW h \in Hit
  PROVE  Entered(e, Routed(e, h)) \in Call
<1>1. rows[e].snap \in Snap
  BY DEF Typed, Row
<1>2. HasRow(e) => Entered(e, Routed(e, h)) \in Call
  BY <1>1 DEF Entered, Call
<1> QED
  BY <1>2, RoutedType DEF Entered

\* The write of a classification.
LEMMA UpsertType ==
  ASSUME Typed, NEW e \in Emails, NEW s \in Snap, Upsert(e, s)
  PROVE  rows' \in [Emails -> Row] /\ born' \in [Emails -> Nat]
<1> DEFINE x == IF HasRow(e) THEN [rows[e] EXCEPT !.snap = s] ELSE NewRow(born[e] + 1, s)
<1>1. rows[e] \in Row /\ born[e] \in Nat
  BY DEF Typed
<1>2. [rows[e] EXCEPT !.snap = s] \in Row
  BY <1>1 DEF Row
<1>3. NewRow(born[e] + 1, s) \in Row
  BY <1>1 DEF Row, NewRow
<1>4. x \in Row /\ rows' = [rows EXCEPT ![e] = x]
  BY <1>2, <1>3 DEF Upsert
<1>5. born' \in [Emails -> Nat]
  BY <1>1 DEF Typed, Upsert
<1> HIDE DEF x
<1>6. rows \in [Emails -> Row]
  BY DEF Typed
<1> QED
  BY <1>4, <1>5, <1>6

\* The blanks as requests keep them.
LEMMA BlanksOK == NoJob \in JobOK /\ JobDone \in JobOK /\ NoCall \in CallOK /\ NoUndo \in UndoOK
                  /\ NoWriter \in WriterOK /\ WriterDone \in WriterOK
<1>1. NoJob.strikes = 0 /\ NoJob.waits = None /\ JobDone \in Job /\ JobDone.strikes = 0 /\ JobDone.waits = None
      /\ NoCall.at = "none" /\ NoUndo.at = "idle"
      /\ NoWriter.at = "idle" /\ WriterDone.at = "done"
  BY Blanks DEF NoJob, JobDone, NoCall, NoUndo, NoWriter, WriterDone
<1> QED
  BY <1>1, Blanks DEF JobOK, CallOK, UndoOK, WriterOK

LEMMA RoutedOK ==
  ASSUME NEW e \in Emails, NEW h \in Hit
  PROVE  Routed(e, h) \in CallOK /\ Routed(e, h).mail = e /\ Routed(e, h).at \in {"ask", "write"}
<1>1. Routed(e, h).mail = e /\ Routed(e, h).at \in {"ask", "write"}
  BY DEF Routed
<1> QED
  BY <1>1, RoutedType DEF CallOK

LEMMA EnteredOK ==
  ASSUME Typed, NEW e \in Emails, NEW h \in Hit
  PROVE  /\ Entered(e, Routed(e, h)) \in CallOK /\ Entered(e, Routed(e, h)).mail = e
         /\ Entered(e, Routed(e, h)).at # "none"
         /\ Entered(e, Routed(e, h)).at = "done" <=> HasRow(e)
<1>1. Entered(e, Routed(e, h)).mail = e /\ Entered(e, Routed(e, h)).at # "none"
      /\ (Entered(e, Routed(e, h)).at = "done" <=> HasRow(e))
  BY RoutedOK DEF Entered
<1> QED
  BY <1>1, EnteredType DEF CallOK

----------------------------------------------------------------------------
(* Types, action by action: jobs, and the calls of jobs and runs.          *)

LEMMA JobBeginTyped ==
  ASSUME Typed, NEW j \in Jobs, JobBegin(j)
  PROVE  Typed'
<1>u. UNCHANGED <<rules, rows, born, revs, cache, calls, runs, undos, reviews, writers>>
  BY DEF JobBegin, tables
<1>jobs. jobs' \in [Jobs -> JobOK]
  <2> DEFINE x == [NoJob EXCEPT !.at = "load", !.todo = {e \in Emails : ~HasRow(e)}]
  <2>1. jobs \in [Jobs -> JobOK] /\ jobs[j] \in JobOK
    BY DEF Typed
  <2>2. jobs[j] \in Job
    BY <2>1 DEF JobOK
  <2>3. x \in Job
    BY Blanks DEF Job
  <2>f0. x.strikes = 0 /\ x.waits = None
    BY DEF NoJob
  <2>4. jobs' = [jobs EXCEPT ![j] = x]
    BY <2>1 DEF JobBegin
  <2> HIDE DEF x
  <2>5. x \in JobOK
    BY <2>1, <2>2, <2>3, <2>f0 DEF JobOK
  <2> QED
    BY <2>1, <2>4, <2>5
<1>one. OneCalled'
  <2>1. jobs \in [Jobs -> JobOK] /\ calls \in [Callers -> CallOK] /\ OneCalled
    BY DEF Typed
  <2> QED
    BY <1>u, <2>1, Blanks DEF JobBegin, NoJob, OneCalled
<1> QED
  BY <1>u, <1>jobs, <1>one DEF Typed

LEMMA JobBeginOneTyped ==
  ASSUME Typed, NEW j \in Jobs, JobBeginOne(j)
  PROVE  Typed'
<1>u. UNCHANGED <<rules, rows, born, revs, cache, runs, undos, reviews, writers>>
  BY DEF JobBeginOne, tables
<1>1. PICK e \in Emails : calls' = [calls EXCEPT ![j] = [NoCall EXCEPT !.at = "match", !.mail = e]]
  BY DEF JobBeginOne
<1>jobs. jobs' \in [Jobs -> JobOK]
  <2> DEFINE x == [NoJob EXCEPT !.at = "load", !.one = TRUE]
  <2>1. jobs \in [Jobs -> JobOK] /\ jobs[j] \in JobOK
    BY DEF Typed
  <2>2. jobs[j] \in Job
    BY <2>1 DEF JobOK
  <2>3. x \in Job
    BY Blanks DEF Job
  <2>f0. x.strikes = 0 /\ x.waits = None
    BY DEF NoJob
  <2>4. jobs' = [jobs EXCEPT ![j] = x]
    BY <2>1 DEF JobBeginOne
  <2> HIDE DEF x
  <2>5. x \in JobOK
    BY <2>1, <2>2, <2>3, <2>f0 DEF JobOK
  <2> QED
    BY <2>1, <2>4, <2>5
<1>calls. calls' \in [Callers -> CallOK]
  <2> DEFINE x == [NoCall EXCEPT !.at = "match", !.mail = e]
  <2>1. calls \in [Callers -> CallOK] /\ calls[j] \in CallOK
    BY DEF Typed
  <2>2. calls[j] \in Call
    BY <2>1 DEF CallOK
  <2>3. x \in Call
    BY Blanks DEF Call
  <2>f0. x.mail \in Emails
    BY DEF NoCall
  <2>4. calls' = [calls EXCEPT ![j] = x]
    BY <2>1, <1>1
  <2> HIDE DEF x
  <2>5. x \in CallOK
    BY <2>1, <2>2, <2>3, <2>f0 DEF CallOK
  <2> QED
    BY <2>1, <2>4, <2>5
<1>one. OneCalled'
  <2>1. jobs \in [Jobs -> JobOK] /\ calls \in [Callers -> CallOK] /\ OneCalled
    BY DEF Typed
  <2>2. calls'[j].at = "match" /\ \A k \in Jobs \ {j} : calls'[k] = calls[k] /\ jobs'[k] = jobs[k]
    BY <1>1, <2>1 DEF JobBeginOne, NoCall
  <2> QED
    BY <2>1, <2>2 DEF OneCalled
<1> QED
  BY <1>u, <1>jobs, <1>calls, <1>one DEF Typed

LEMMA JobMatchOneTyped ==
  ASSUME Typed, NEW j \in Jobs, JobMatchOne(j)
  PROVE  Typed'
<1>u. UNCHANGED <<rules, rows, born, revs, cache, runs, undos, reviews, writers>>
  BY DEF JobMatchOne, tables
<1>1. calls[j].mail \in Emails /\ jobs[j].hits[calls[j].mail] \in Hit
  <2>1. calls[j].at # "none" /\ calls[j] \in CallOK /\ jobs[j] \in Job
    BY DEF Typed, OneCalled, JobMatchOne, JobOK
  <2>2. calls[j].mail \in Emails
    BY <2>1 DEF CallOK
  <2> QED
    BY <2>1, <2>2 DEF Job, Matcher
<1>jobs. jobs' \in [Jobs -> JobOK]
  <2> DEFINE x == [jobs[j] EXCEPT !.at = "call", !.hits = NoMatcher]
  <2>1. jobs \in [Jobs -> JobOK] /\ jobs[j] \in JobOK
    BY DEF Typed
  <2>2. jobs[j] \in Job
    BY <2>1 DEF JobOK
  <2>3. x \in Job
    BY <2>2, Blanks DEF Job
  <2>f0. x.strikes = jobs[j].strikes /\ x.waits = jobs[j].waits /\ jobs[j].at = "rules"
    BY <2>2 DEF Job, JobMatchOne
  <2>4. jobs' = [jobs EXCEPT ![j] = x]
    BY <2>1 DEF JobMatchOne
  <2> HIDE DEF x
  <2>5. x \in JobOK
    BY <2>1, <2>2, <2>3, <2>f0 DEF JobOK
  <2> QED
    BY <2>1, <2>4, <2>5
<1>calls. calls' \in [Callers -> CallOK]
  <2> DEFINE x == Routed(calls[j].mail, jobs[j].hits[calls[j].mail])
  <2>1. calls \in [Callers -> CallOK] /\ calls[j] \in CallOK
    BY DEF Typed
  <2>2. calls[j] \in Call
    BY <2>1 DEF CallOK
  <2>3. x \in Call
    BY <1>1, RoutedType
  <2>f0. x.mail \in Emails
    BY <1>1, RoutedOK
  <2>4. calls' = [calls EXCEPT ![j] = x]
    BY <2>1 DEF JobMatchOne
  <2> HIDE DEF x
  <2>5. x \in CallOK
    BY <2>1, <2>2, <2>3, <2>f0 DEF CallOK
  <2> QED
    BY <2>1, <2>4, <2>5
<1>one. OneCalled'
  <2>1. jobs \in [Jobs -> JobOK] /\ calls \in [Callers -> CallOK] /\ OneCalled
    BY DEF Typed
  <2>2. jobs'[j].at = "call" /\ \A k \in Jobs \ {j} : calls'[k] = calls[k] /\ jobs'[k] = jobs[k]
    BY <2>1 DEF JobMatchOne, JobOK, Job
  <2> QED
    BY <2>1, <2>2 DEF OneCalled
<1> QED
  BY <1>u, <1>jobs, <1>calls, <1>one DEF Typed

LEMMA GetMatcherTyped ==
  ASSUME Typed, NEW j \in Jobs, GetMatcher(j)
  PROVE  Typed'
<1>u. UNCHANGED <<rules, rows, born, revs, calls, runs, undos, reviews, writers>>
  BY DEF GetMatcher, tables
<1>j. jobs[j] \in Job /\ jobs[j] \in JobOK /\ jobs \in [Jobs -> JobOK] /\ cache.hits \in Matcher /\ cache.by \in Jobs \cup {None}
  BY DEF Typed, JobOK, Cache
<1>1. \E x \in JobOK : jobs' = [jobs EXCEPT ![j] = x] /\ x.one = jobs[j].one
  <2> DEFINE a == [jobs[j] EXCEPT !.at = "rules", !.hits = cache.hits]
             b == [jobs[j] EXCEPT !.at = "await", !.waits = cache.by]
             c == [jobs[j] EXCEPT !.at = "query", !.waits = j]
  <2>0. jobs[j].waits = None
    BY <1>j DEF GetMatcher, JobOK
  <2>1. a \in Job /\ a.waits = None /\ a.strikes = jobs[j].strikes /\ a.one = jobs[j].one
    BY <1>j, <2>0 DEF Job
  <2>2. b \in Job /\ b.at = "await" /\ b.strikes = jobs[j].strikes /\ b.one = jobs[j].one
    BY <1>j DEF Job
  <2>3. c \in Job /\ c.at = "query" /\ c.strikes = jobs[j].strikes /\ c.one = jobs[j].one
    BY <1>j DEF Job
  <2>4. \/ jobs' = [jobs EXCEPT ![j] = a]
        \/ jobs' = [jobs EXCEPT ![j] = b]
        \/ jobs' = [jobs EXCEPT ![j] = c]
    BY <1>j DEF GetMatcher
  <2> HIDE DEF a, b, c
  <2>5. a \in JobOK /\ b \in JobOK /\ c \in JobOK
    BY <1>j, <2>1, <2>2, <2>3 DEF JobOK
  <2> QED
    BY <2>1, <2>2, <2>3, <2>4, <2>5
<1>cache. cache' \in Cache
  <2>1. CASE cache' = [NoCache EXCEPT !.at = "loading", !.by = j]
    BY <2>1, Blanks DEF Cache
  <2>2. CASE cache' = cache
    BY <2>2 DEF Typed
  <2> QED
    BY <2>1, <2>2 DEF GetMatcher
<1>jobs. jobs' \in [Jobs -> JobOK]
  <2> QED
    BY <1>1 DEF Typed
<1>one. OneCalled'
  <2>1. jobs \in [Jobs -> JobOK] /\ calls \in [Callers -> CallOK] /\ OneCalled
    BY DEF Typed
  <2>2. jobs[j].at = "load" /\ jobs'[j].one = jobs[j].one /\ calls'[j] = calls[j] /\ \A k \in Jobs \ {j} : calls'[k] = calls[k] /\ jobs'[k] = jobs[k]
    BY <1>u, <1>1, <2>1 DEF GetMatcher
  <2> QED
    BY <2>1, <2>2 DEF OneCalled
<1> QED
  BY <1>u, <1>cache, <1>jobs, <1>one DEF Typed

LEMMA LoadMatcherTyped ==
  ASSUME Typed, NEW j \in Jobs, LoadMatcher(j)
  PROVE  Typed'
<1>u. UNCHANGED <<rules, rows, born, revs, cache, calls, runs, undos, reviews, writers>>
  BY DEF LoadMatcher, tables
<1>jobs. jobs' \in [Jobs -> JobOK]
  <2> DEFINE x == [jobs[j] EXCEPT !.at = "read", !.hits = Compiled]
  <2>1. jobs \in [Jobs -> JobOK] /\ jobs[j] \in JobOK
    BY DEF Typed
  <2>2. jobs[j] \in Job
    BY <2>1 DEF JobOK
  <2>3. x \in Job
    BY <2>2, CompiledType DEF Job
  <2>f0. x.strikes = jobs[j].strikes /\ x.at = "read"
    BY <2>2 DEF Job
  <2>4. jobs' = [jobs EXCEPT ![j] = x]
    BY <2>1 DEF LoadMatcher
  <2> HIDE DEF x
  <2>5. x \in JobOK
    BY <2>1, <2>2, <2>3, <2>f0 DEF JobOK
  <2> QED
    BY <2>1, <2>4, <2>5
<1>one. OneCalled'
  <2>1. jobs \in [Jobs -> JobOK] /\ calls \in [Callers -> CallOK] /\ OneCalled
    BY DEF Typed
  <2>2. jobs[j].at = "query" /\ jobs'[j].one = jobs[j].one /\ calls'[j] = calls[j] /\ \A k \in Jobs \ {j} : calls'[k] = calls[k] /\ jobs'[k] = jobs[k]
    BY <1>u, <2>1 DEF LoadMatcher, JobOK, Job
  <2> QED
    BY <2>1, <2>2 DEF OneCalled
<1> QED
  BY <1>u, <1>jobs, <1>one DEF Typed

LEMMA MatcherLoadedTyped ==
  ASSUME Typed, NEW j \in Jobs, MatcherLoaded(j)
  PROVE  Typed'
<1>u. UNCHANGED <<rules, rows, born, revs, calls, runs, undos, reviews, writers>>
  BY DEF MatcherLoaded, tables
<1>j. \A q \in Jobs : jobs[q] \in Job /\ jobs[q] \in JobOK /\ jobs[q].hits \in Matcher
  BY DEF Typed, JobOK, Job
<1>1. ASSUME NEW q \in Jobs
      PROVE  /\ q \in Awaiting(j) => jobs'[q] \in JobOK /\ jobs'[q].one = jobs[q].one
             /\ q \notin Awaiting(j) => jobs'[q] = jobs[q]
  <2> DEFINE x == [jobs[q] EXCEPT !.at = "rules", !.waits = None, !.hits = jobs[j].hits]
  <2>1. x \in Job /\ x.waits = None /\ x.strikes = jobs[q].strikes /\ x.one = jobs[q].one
    BY <1>j DEF Job
  <2>2. q \in Awaiting(j) => jobs'[q] = x
    BY DEF MatcherLoaded
  <2>3. q \notin Awaiting(j) => jobs'[q] = jobs[q]
    BY DEF MatcherLoaded
  <2> HIDE DEF x
  <2> QED
    BY <1>j, <2>1, <2>2, <2>3 DEF JobOK
<1>2. \A q \in Jobs : q \in Awaiting(j) => jobs[q].at \in {"query", "await", "read"}
  BY <1>j DEF Awaiting, JobOK
<1>cache. cache' \in Cache
  <2>1. cache \in Cache
    BY DEF Typed
  <2>2. [at |-> "loaded", by |-> None, hits |-> jobs[j].hits] \in Cache
    BY <1>j DEF Cache
  <2> QED
    BY <2>1, <2>2 DEF MatcherLoaded, Cached
<1>jobs. jobs' \in [Jobs -> JobOK]
  <2>1. \A q \in Jobs : jobs'[q] \in JobOK
    BY <1>j, <1>1
  <2> QED
    BY <2>1 DEF MatcherLoaded
<1>one. OneCalled'
  <2>1. jobs \in [Jobs -> JobOK] /\ OneCalled
    BY DEF Typed
  <2>2. ASSUME NEW q \in Jobs, q \in Awaiting(j), jobs[q].one
        PROVE  calls[q].at # "none"
    BY <1>2, <2>1, <2>2 DEF OneCalled
  <2> QED
    BY <1>u, <1>1, <2>1, <2>2 DEF OneCalled
<1> QED
  BY <1>u, <1>cache, <1>jobs, <1>one DEF Typed

LEMMA MatcherFailsTyped ==
  ASSUME Typed, NEW j \in Jobs, MatcherFails(j)
  PROVE  Typed'
<1>u. UNCHANGED <<rules, rows, born, revs, runs, undos, reviews, writers>>
  BY DEF MatcherFails, tables
<1>cache. cache' \in Cache
  BY Blanks DEF MatcherFails, Typed
<1>jobs. jobs' \in [Jobs -> JobOK]
  <2>1. jobs \in [Jobs -> JobOK]
    BY DEF Typed
  <2> QED
    BY <2>1, BlanksOK DEF MatcherFails
<1>calls. calls' \in [Callers -> CallOK]
  <2>1. calls \in [Callers -> CallOK]
    BY DEF Typed
  <2> QED
    BY <2>1, BlanksOK DEF MatcherFails
<1>one. OneCalled'
  <2>1. \A k \in Jobs : \/ jobs'[k] = JobDone
                        \/ jobs'[k] = jobs[k] /\ calls'[k] = calls[k]
    BY DEF MatcherFails
  <2>2. JobDone.at = "done"
    BY Blanks DEF JobDone, Job
  <2> QED
    BY <2>1, <2>2 DEF Typed, OneCalled
<1> QED
  BY <1>u, <1>cache, <1>jobs, <1>calls, <1>one DEF Typed

LEMMA JobRuleTyped ==
  ASSUME Typed, NEW j \in Jobs, JobRule(j)
  PROVE  Typed'
<1>u. UNCHANGED <<rules, revs, cache, calls, runs, undos, reviews, writers>>
  BY DEF JobRule, tables
<1> DEFINE e == Newest(jobs[j].todo)
<1>j. jobs[j] \in Job /\ jobs[j] \in JobOK /\ jobs \in [Jobs -> JobOK]
      /\ rows \in [Emails -> Row] /\ born \in [Emails -> Nat]
  BY DEF Typed, JobOK
<1>e. e \in Emails /\ e \in jobs[j].todo /\ jobs[j].hits[e] \in Hit
  BY <1>j, NewestIs DEF JobRule, Job, Matcher
<1>1. \E x \in JobOK : jobs' = [jobs EXCEPT ![j] = x] /\ x.one = jobs[j].one
  <2> DEFINE a == [jobs[j] EXCEPT !.todo = @ \ {e}]
             b == [jobs[j] EXCEPT !.todo = @ \ {e}, !.left = @ \cup {e}]
  <2>1. a \in Job /\ a.strikes = jobs[j].strikes /\ a.one = jobs[j].one /\ a.waits = jobs[j].waits /\ a.at = jobs[j].at
    BY <1>j DEF Job
  <2>2. b \in Job /\ b.strikes = jobs[j].strikes /\ b.one = jobs[j].one /\ b.waits = jobs[j].waits /\ b.at = jobs[j].at
    BY <1>j, <1>e DEF Job
  <2>3. jobs' = [jobs EXCEPT ![j] = a] \/ jobs' = [jobs EXCEPT ![j] = b]
    BY <1>j DEF JobRule
  <2> HIDE DEF a, b
  <2>4. a \in JobOK /\ b \in JobOK
    BY <1>j, <2>1, <2>2 DEF JobOK
  <2> QED
    BY <2>1, <2>2, <2>3, <2>4
<1>2. rows' \in [Emails -> Row] /\ born' \in [Emails -> Nat]
  <2>1. Upsert(e, RuleSnap(jobs[j].hits[e])) \/ UNCHANGED <<rows, born>>
    BY DEF JobRule
  <2> HIDE DEF e
  <2> QED
    BY <1>j, <1>e, <2>1, UpsertType, RuleSnapType
<1>rows. rows' \in [Emails -> Row]
  BY <1>2
<1>born. born' \in [Emails -> Nat]
  BY <1>2
<1>jobs. jobs' \in [Jobs -> JobOK]
  BY <1>1 DEF Typed
<1>one. OneCalled'
  <2>1. jobs \in [Jobs -> JobOK] /\ calls \in [Callers -> CallOK] /\ OneCalled
    BY DEF Typed
  <2>2. jobs[j].at = "rules" /\ jobs'[j].one = jobs[j].one /\ calls'[j] = calls[j] /\ \A k \in Jobs \ {j} : calls'[k] = calls[k] /\ jobs'[k] = jobs[k]
    BY <1>u, <1>1, <2>1 DEF JobRule
  <2> QED
    BY <2>1, <2>2 DEF OneCalled
<1> QED
  BY <1>u, <1>rows, <1>born, <1>jobs, <1>one DEF Typed

LEMMA JobGateTyped ==
  ASSUME Typed, NEW j \in Jobs, JobGate(j)
  PROVE  Typed'
<1>u. UNCHANGED <<rules, rows, born, revs, cache, calls, runs, undos, reviews, writers>>
  BY DEF JobGate, tables
<1>j. jobs[j] \in Job /\ jobs[j] \in JobOK /\ jobs \in [Jobs -> JobOK]
  BY DEF Typed, JobOK
<1>1. \E x \in JobOK : jobs' = [jobs EXCEPT ![j] = x] /\ x.at \in {"ai", "done"}
  <2> DEFINE a == [jobs[j] EXCEPT !.at = "ai"]
  <2>1. a \in Job /\ a.strikes = jobs[j].strikes /\ a.waits = jobs[j].waits /\ a.at = "ai" /\ jobs[j].at = "rules"
    BY <1>j DEF Job, JobGate
  <2>2. jobs' = [jobs EXCEPT ![j] = a] \/ jobs' = [jobs EXCEPT ![j] = JobDone]
    BY <1>j DEF JobGate
  <2> HIDE DEF a
  <2>3. a \in JobOK /\ JobDone \in JobOK /\ JobDone.at = "done"
    BY <1>j, <2>1, BlanksOK, Blanks DEF JobOK, JobDone, Job
  <2> QED
    BY <2>1, <2>2, <2>3
<1>jobs. jobs' \in [Jobs -> JobOK]
  BY <1>1, <1>j
<1>one. OneCalled'
  <2>1. jobs \in [Jobs -> JobOK] /\ calls \in [Callers -> CallOK] /\ OneCalled
    BY DEF Typed
  <2>2. jobs'[j].at \in {"ai", "done"} /\ \A k \in Jobs \ {j} : calls'[k] = calls[k] /\ jobs'[k] = jobs[k]
    BY <1>u, <1>1, <1>j
  <2> QED
    BY <2>1, <2>2 DEF OneCalled
<1> QED
  BY <1>u, <1>jobs, <1>one DEF Typed

LEMMA JobNextTyped ==
  ASSUME Typed, NEW j \in Jobs, JobNext(j)
  PROVE  Typed'
<1>u. UNCHANGED <<rules, rows, born, revs, cache, runs, undos, reviews, writers>>
  BY DEF JobNext, tables
<1> DEFINE e == Newest(jobs[j].left)
<1>j. jobs[j] \in Job
  BY DEF Typed, JobOK
<1>e. e \in Emails /\ jobs[j].hits[e] \in Hit
  BY <1>j, NewestIs DEF JobNext, Job, Matcher
<1>jobs. jobs' \in [Jobs -> JobOK]
  <2> DEFINE x == [jobs[j] EXCEPT !.at = "call", !.left = @ \ {e}]
  <2>1. jobs \in [Jobs -> JobOK] /\ jobs[j] \in JobOK
    BY DEF Typed
  <2>2. jobs[j] \in Job
    BY <2>1 DEF JobOK
  <2>3. x \in Job
    BY <2>2 DEF Job
  <2>f0. x.strikes = jobs[j].strikes /\ x.waits = jobs[j].waits /\ jobs[j].at = "ai"
    BY <2>2 DEF Job, JobNext
  <2>4. jobs' = [jobs EXCEPT ![j] = x]
    BY <2>1 DEF JobNext
  <2> HIDE DEF x
  <2>5. x \in JobOK
    BY <2>1, <2>2, <2>3, <2>f0 DEF JobOK
  <2> QED
    BY <2>1, <2>4, <2>5
<1>calls. calls' \in [Callers -> CallOK]
  <2>1. Entered(e, Routed(e, jobs[j].hits[e])) \in CallOK
    BY <1>e, EnteredOK
  <2> QED
    BY <2>1 DEF JobNext, Typed
<1>one. OneCalled'
  <2>1. jobs \in [Jobs -> JobOK] /\ calls \in [Callers -> CallOK] /\ OneCalled
    BY DEF Typed
  <2>2. jobs'[j].at = "call" /\ \A k \in Jobs \ {j} : calls'[k] = calls[k] /\ jobs'[k] = jobs[k]
    BY <1>j, <2>1 DEF JobNext, Job
  <2> QED
    BY <2>1, <2>2 DEF OneCalled
<1> QED
  BY <1>u, <1>jobs, <1>calls, <1>one DEF Typed

LEMMA JobResumeTyped ==
  ASSUME Typed, NEW j \in Jobs, JobResume(j)
  PROVE  Typed'
<1>u. UNCHANGED <<rules, rows, born, revs, cache, runs, undos, reviews, writers>>
  BY DEF JobResume, tables
<1>j. jobs[j] \in Job /\ jobs[j] \in JobOK /\ jobs \in [Jobs -> JobOK]
  BY DEF Typed, JobOK
<1>1. \E x \in JobOK : jobs' = [jobs EXCEPT ![j] = x] /\ x.at \in {"ai", "done"}
  <2>1. PICK n \in Strikes(j) : jobs' = [jobs EXCEPT ![j] =
           IF jobs[j].one \/ calls[j].at = "open" \/ n = MaxStrikes THEN JobDone
           ELSE [jobs[j] EXCEPT !.at = "ai", !.strikes = n]]
    BY <1>j DEF JobResume
  <2>2. jobs[j].strikes \in 0..MaxStrikes /\ jobs[j].strikes < MaxStrikes
    BY <1>j DEF Job, JobOK
  <2>3. n \in 0..MaxStrikes
    BY <2>1, <2>2 DEF Strikes
  <2> DEFINE a == [jobs[j] EXCEPT !.at = "ai", !.strikes = n]
  <2>4. a \in Job /\ a.strikes = n /\ a.waits = jobs[j].waits /\ a.at = "ai" /\ jobs[j].at = "call"
    BY <1>j, <2>3 DEF Job, JobResume
  <2>5. n # MaxStrikes => n < MaxStrikes
    BY <2>3
  <2>6. JobDone \in JobOK /\ JobDone.at = "done"
    BY BlanksOK, Blanks DEF JobDone, Job
  <2>7. CASE jobs[j].one \/ calls[j].at = "open" \/ n = MaxStrikes
    BY <2>1, <2>6, <2>7
  <2>8. CASE ~(jobs[j].one \/ calls[j].at = "open" \/ n = MaxStrikes)
    <3>1. jobs' = [jobs EXCEPT ![j] = a]
      BY <2>1, <2>8
    <3> HIDE DEF a
    <3>2. a \in JobOK
      BY <1>j, <2>4, <2>5, <2>8 DEF JobOK
    <3> QED
      BY <2>4, <3>1, <3>2
  <2> QED
    BY <2>7, <2>8
<1>jobs. jobs' \in [Jobs -> JobOK]
  BY <1>1, <1>j
<1>calls. calls' \in [Callers -> CallOK]
  BY BlanksOK DEF JobResume, Typed
<1>one. OneCalled'
  <2>1. jobs \in [Jobs -> JobOK] /\ calls \in [Callers -> CallOK] /\ OneCalled
    BY DEF Typed
  <2>2. jobs'[j].at \in {"ai", "done"} /\ \A k \in Jobs \ {j} : calls'[k] = calls[k] /\ jobs'[k] = jobs[k]
    BY <1>1, <1>j DEF JobResume
  <2> QED
    BY <2>1, <2>2 DEF OneCalled
<1> QED
  BY <1>u, <1>jobs, <1>calls, <1>one DEF Typed

LEMMA JobEndTyped ==
  ASSUME Typed, NEW j \in Jobs, JobEnd(j)
  PROVE  Typed'
<1>u. UNCHANGED <<rules, rows, born, revs, cache, calls, runs, undos, reviews, writers>>
  BY DEF JobEnd, tables
<1>jobs. jobs' \in [Jobs -> JobOK]
  BY BlanksOK DEF JobEnd, Typed
<1>one. OneCalled'
  <2>1. jobs \in [Jobs -> JobOK] /\ calls \in [Callers -> CallOK] /\ OneCalled
    BY DEF Typed
  <2>2. jobs'[j].at = "done" /\ \A k \in Jobs \ {j} : calls'[k] = calls[k] /\ jobs'[k] = jobs[k]
    BY <1>u, <2>1, Blanks DEF JobEnd, JobDone, Job
  <2> QED
    BY <2>1, <2>2 DEF OneCalled
<1> QED
  BY <1>u, <1>jobs, <1>one DEF Typed

----------------------------------------------------------------------------
(* Types: calls.                                                           *)

LEMMA ClassifyAnswerTyped ==
  ASSUME Typed, NEW p \in Callers, ClassifyAnswer(p)
  PROVE  Typed'
<1>u. UNCHANGED <<rules, rows, born, revs, cache, jobs, runs, undos, reviews, writers>>
  BY DEF ClassifyAnswer, tables
<1>j. calls[p] \in Call /\ calls \in [Callers -> CallOK] /\ calls[p].mail \in Emails
  BY DEF Typed, CallOK, ClassifyAnswer
<1>1. \E x \in CallOK : calls' = [calls EXCEPT ![p] = x] /\ x.at # "none"
  <2>1. CASE \E s \in AiSnaps : calls' = [calls EXCEPT ![p].at = "write", ![p].snap = s]
    <3>1. PICK s \in AiSnaps : calls' = [calls EXCEPT ![p].at = "write", ![p].snap = s]
      BY <2>1
    <3> DEFINE a == [calls[p] EXCEPT !.at = "write", !.snap = s]
    <3>2. a \in Call /\ a.at = "write" /\ a.mail = calls[p].mail
      BY <1>j, AiSnapType DEF Call
    <3>3. calls' = [calls EXCEPT ![p] = a]
      BY <1>j, <3>1
    <3> HIDE DEF a
    <3> QED
      BY <1>j, <3>2, <3>3 DEF CallOK
  <2>2. CASE \E f \in {"open", "ai"} : calls' = [calls EXCEPT ![p].at = f]
    <3>1. PICK f \in {"open", "ai"} : calls' = [calls EXCEPT ![p].at = f]
      BY <2>2
    <3> DEFINE a == [calls[p] EXCEPT !.at = f]
    <3>2. a \in Call /\ a.at # "none" /\ a.mail = calls[p].mail
      BY <1>j DEF Call, Failures
    <3>3. calls' = [calls EXCEPT ![p] = a]
      BY <1>j, <3>1
    <3> HIDE DEF a
    <3> QED
      BY <1>j, <3>2, <3>3 DEF CallOK
  <2> QED
    BY <2>1, <2>2 DEF ClassifyAnswer
<1>calls. calls' \in [Callers -> CallOK]
  BY <1>1 DEF Typed
<1>one. OneCalled'
  <2>1. jobs \in [Jobs -> JobOK] /\ calls \in [Callers -> CallOK] /\ OneCalled
    BY DEF Typed
  <2>2. calls'[p].at # "none" /\ \A k \in Jobs \ {p} : calls'[k] = calls[k]
    BY <1>1, <2>1
  <2> QED
    BY <1>u, <2>1, <2>2 DEF OneCalled
<1> QED
  BY <1>u, <1>calls, <1>one DEF Typed

LEMMA ClassifyWriteTyped ==
  ASSUME Typed, NEW p \in Callers, ClassifyWrite(p)
  PROVE  Typed'
<1>u. UNCHANGED <<rules, revs, cache, jobs, runs, undos, reviews, writers>>
  BY DEF ClassifyWrite, tables
<1>j. /\ calls[p] \in Call /\ calls \in [Callers -> CallOK] /\ calls[p].mail \in Emails
      /\ calls[p].snap \in Snap /\ rows \in [Emails -> Row] /\ born \in [Emails -> Nat]
  BY DEF Typed, CallOK, Call, ClassifyWrite
<1>1. \E x \in CallOK : calls' = [calls EXCEPT ![p] = x] /\ x.at # "none"
  <2>1. PICK f \in {"done", "db"} : calls' = [calls EXCEPT ![p].at = f]
    BY DEF ClassifyWrite
  <2> DEFINE a == [calls[p] EXCEPT !.at = f]
  <2>2. a \in Call /\ a.at # "none" /\ a.mail = calls[p].mail
    BY <1>j DEF Call, Failures
  <2>3. calls' = [calls EXCEPT ![p] = a]
    BY <1>j, <2>1
  <2> HIDE DEF a
  <2> QED
    BY <1>j, <2>2, <2>3 DEF CallOK
<1>rows. rows' \in [Emails -> Row]
  BY <1>j, UpsertType DEF ClassifyWrite
<1>born. born' \in [Emails -> Nat]
  BY <1>j, UpsertType DEF ClassifyWrite
<1>calls. calls' \in [Callers -> CallOK]
  BY <1>1 DEF Typed
<1>one. OneCalled'
  <2>1. jobs \in [Jobs -> JobOK] /\ calls \in [Callers -> CallOK] /\ OneCalled
    BY DEF Typed
  <2>2. calls'[p].at # "none" /\ \A k \in Jobs \ {p} : calls'[k] = calls[k]
    BY <1>1, <2>1
  <2> QED
    BY <1>u, <2>1, <2>2 DEF OneCalled
<1> QED
  BY <1>u, <1>rows, <1>born, <1>calls, <1>one DEF Typed

----------------------------------------------------------------------------
(* Types: runs.                                                            *)

\* A run that keeps its candidates, or drops one that is to come.
LEMMA RunKeeps ==
  ASSUME NEW r \in RunOK, NEW x \in Run, x.rule = r.rule, x.todo \subseteq r.todo, x.cur = r.cur,
         x.at \in {"next"} \cup AtRelease, r.at \in {"next"} \cup AtRelease,
         x.at \in AtRelease <=> r.at \in AtRelease
  PROVE  x \in RunOK
  BY DEF RunOK, AtRelease

\* A run that is through with the candidate it has released.
LEMMA RunGoesOn ==
  ASSUME NEW r \in RunOK, NEW x \in Run, x.rule = r.rule, x.todo = r.todo, x.cur = {},
         x.at = "next", r.at \in AtRelease
  PROVE  x \in RunOK
  BY DEF RunOK, AtRelease

\* The candidate a run has released.
LEMMA CurrentIs ==
  ASSUME Typed, NEW b \in Runs, runs[b].at \in AtRelease
  PROVE  Current(b) \in Cand /\ runs[b].cur = {Current(b)} /\ Current(b).act = "release"
<1>1. runs[b] \in Run /\ runs[b] \in RunOK
  BY DEF Typed, RunOK
<1>2. PICK c \in runs[b].cur : runs[b].cur = {c} /\ c.act = "release"
  BY <1>1 DEF RunOK
<1>3. Current(b) = c
  BY <1>2 DEF Current
<1>4. c \in Cand
  BY <1>1, <1>2 DEF Run
<1> QED
  BY <1>2, <1>3, <1>4

\* What a run logs, and flags.
LEMMA CandIs ==
  ASSUME NEW c \in Cand
  PROVE  /\ c.mail \in Emails /\ c.act \in {"update", "claim", "release"} /\ c.id \in Nat
         /\ c.prev \in Snap /\ c.next \in Snap
  BY DEF Cand

LEMMA FlaggedType ==
  ASSUME NEW b \in Runs, NEW s \in Snap
  PROVE  Flagged(b, s) \in Snap
  BY DEF Flagged, Snap

LEMMA LoggedType ==
  ASSUME Typed, NEW b \in Runs, NEW c \in Cand, NEW s \in Snap,
         NEW status \in {"applied", "deferred", "marked_review"}, Logged(b, c, status, s)
  PROVE  revs' \in [Runs -> [Emails -> Rev]]
<1> DEFINE x == [act |-> c.act, status |-> status, id |-> c.id, prev |-> c.prev, next |-> s,
                 undone |-> FALSE]
<1>1. x \in Rev
  BY CandIs DEF Rev
<1>2. revs \in [Runs -> [Emails -> Rev]] /\ c.mail \in Emails
  BY CandIs DEF Typed
<1>3. revs' = [revs EXCEPT ![b] = [revs[b] EXCEPT ![c.mail] = x]]
  BY <1>2 DEF Logged
<1> HIDE DEF x
<1>4. [revs[b] EXCEPT ![c.mail] = x] \in [Emails -> Rev]
  BY <1>1, <1>2
<1> QED
  BY <1>2, <1>3, <1>4

LEMMA RowSnapType ==
  ASSUME Typed, NEW e \in Emails, NEW s \in Snap, rows' = [rows EXCEPT ![e].snap = s]
  PROVE  rows' \in [Emails -> Row]
<1> DEFINE x == [rows[e] EXCEPT !.snap = s]
<1>1. rows \in [Emails -> Row]
  BY DEF Typed
<1>2. x \in Row
  BY <1>1 DEF Row
<1>3. rows' = [rows EXCEPT ![e] = x]
  BY <1>1
<1> HIDE DEF x
<1> QED
  BY <1>1, <1>2, <1>3

LEMMA RunBeginTyped ==
  ASSUME Typed, NEW b \in Runs, RunBegin(b)
  PROVE  Typed'
<1>u. UNCHANGED <<rules, rows, born, revs, cache, jobs, calls, undos, reviews, writers>>
  BY DEF RunBegin, tables
<1>1. PICK r \in Rules, mode \in {"reclassify", "mark_review"}, matching \in BOOLEAN :
        runs' = [runs EXCEPT ![b] = [NoRun EXCEPT !.at = "load", !.rule = r,
                       !.on = rules[r].on, !.mode = mode, !.matching = matching]]
  BY DEF RunBegin
<1>2. rules[r].on \in BOOLEAN
  BY DEF Typed, Rule
<1>runs. runs' \in [Runs -> RunOK]
  <2> DEFINE x == [NoRun EXCEPT !.at = "load", !.rule = r, !.on = rules[r].on, !.mode = mode, !.matching = matching]
  <2>1. runs \in [Runs -> RunOK] /\ runs[b] \in RunOK
    BY DEF Typed
  <2>2. runs[b] \in Run
    BY <2>1 DEF RunOK
  <2>3. x \in Run
    BY <1>2, Blanks DEF Run
  <2>f0. x.at = "load" /\ x.rule = r /\ x.todo = {} /\ x.cur = {}
    BY DEF NoRun
  <2>4. runs' = [runs EXCEPT ![b] = x]
    BY <2>1, <1>1
  <2> HIDE DEF x
  <2>5. x \in RunOK
    BY <2>1, <2>2, <2>3, <2>f0 DEF RunOK, AtRelease
  <2> QED
    BY <2>1, <2>4, <2>5
<1> QED
  BY <1>u, <1>runs DEF Typed, OneCalled

LEMMA RunLoadTyped ==
  ASSUME Typed, NEW b \in Runs, RunLoad(b)
  PROVE  Typed'
<1>u. UNCHANGED <<rules, rows, born, revs, cache, jobs, calls, undos, reviews, writers>>
  BY DEF RunLoad, tables
<1>runs. runs' \in [Runs -> RunOK]
  <2> DEFINE x == [runs[b] EXCEPT !.at = "scan", !.hits = Compiled]
  <2>1. runs \in [Runs -> RunOK] /\ runs[b] \in RunOK
    BY DEF Typed
  <2>2. runs[b] \in Run
    BY <2>1 DEF RunOK
  <2>3. x \in Run
    BY <2>2, CompiledType DEF Run
  <2>f0. x.at = "scan" /\ runs[b].at = "load" /\ x.rule = runs[b].rule /\ x.todo = runs[b].todo /\ x.cur = runs[b].cur
    BY <2>2 DEF Run, RunLoad
  <2>4. runs' = [runs EXCEPT ![b] = x]
    BY <2>1 DEF RunLoad
  <2> HIDE DEF x
  <2>5. x \in RunOK
    BY <2>1, <2>2, <2>3, <2>f0 DEF RunOK, AtRelease
  <2> QED
    BY <2>1, <2>4, <2>5
<1> QED
  BY <1>u, <1>runs DEF Typed, OneCalled

\* What a scan finds: the row as it is, of an email that has one.
LEMMA FoundIs ==
  ASSUME Typed, NEW b \in Runs, runs[b].at = "scan", NEW e \in Emails
  PROVE  /\ Found(b, e) \subseteq Cand
         /\ \A c \in Found(b, e) :
              /\ c.mail = e /\ c.id = rows[e].id /\ c.id # 0
              /\ c.prev = rows[e].snap /\ ~rows[e].reviewed
              /\ c.act = "release" => c.prev.link = runs[b].rule
         /\ \A c, d \in Found(b, e) : c = d
<1> DEFINE h == runs[b].hits[e]
           cand(act, next) == [mail |-> e, act |-> act, id |-> rows[e].id, prev |-> rows[e].snap,
                               next |-> next]
           taken == /\ HasRow(e) /\ ~rows[e].reviewed
                    /\ \/ rows[e].snap.link = runs[b].rule
                       \/ h.rule = runs[b].rule /\ runs[b].on /\ runs[b].matching
<1>1. h \in Hit /\ rows[e].snap \in Snap /\ rows[e].id \in Nat
  <2>1. runs[b] \in Run /\ rows[e] \in Row
    BY DEF Typed, RunOK
  <2>2. runs[b].hits \in Matcher
    BY <2>1 DEF Run
  <2> QED
    BY <2>1, <2>2 DEF Matcher, Row
<1>2. RuleSnap(h) \in Snap /\ NoSnap \in Snap
  BY <1>1, RuleSnapType, Blanks
<1>3. ASSUME NEW act \in {"update", "claim", "release"}, NEW next \in Snap
      PROVE  cand(act, next) \in Cand
  BY <1>1, <1>3 DEF Cand
<1> HIDE DEF h
<1>4. Found(b, e) = {} \/ \E act \in {"update", "claim", "release"}, next \in Snap :
        /\ Found(b, e) = {cand(act, next)}
        /\ HasRow(e) /\ ~rows[e].reviewed
        /\ act = "release" => rows[e].snap.link = runs[b].rule
  <2>1. CASE ~taken
    BY <2>1 DEF Found, h
  <2>2. CASE taken /\ h.rule = runs[b].rule
    <3>1. Found(b, e) = IF ~Usable(h) \/ (rows[e].snap.link = runs[b].rule /\ rows[e].snap = RuleSnap(h)) THEN {}
             ELSE {cand(IF rows[e].snap.link = runs[b].rule THEN "update" ELSE "claim", RuleSnap(h))}
      BY <2>2 DEF Found, h
    <3> HIDE DEF cand
    <3> QED
      BY <1>2, <2>2, <3>1
  <2>3. CASE taken /\ h.rule # runs[b].rule
    <3>1. Found(b, e) = IF runs[b].mode = "mark_review"
                        THEN IF MarkedBefore(b, rows[e].snap) THEN {} ELSE {cand("release", NoSnap)}
                        ELSE {cand("release", IF Usable(h) THEN RuleSnap(h) ELSE NoSnap)}
      BY <2>3 DEF Found, h
    <3> HIDE DEF cand
    <3> QED
      BY <1>2, <2>3, <3>1
  <2> QED
    BY <2>1, <2>2, <2>3
<1>5. CASE Found(b, e) = {}
  BY <1>5
<1>6. CASE Found(b, e) # {}
  <2>1. PICK act \in {"update", "claim", "release"}, next \in Snap :
        /\ Found(b, e) = {cand(act, next)}
        /\ HasRow(e) /\ ~rows[e].reviewed
        /\ act = "release" => rows[e].snap.link = runs[b].rule
    BY <1>4, <1>6
  <2>2. cand(act, next).mail = e /\ cand(act, next).act = act /\ cand(act, next).id = rows[e].id
        /\ cand(act, next).prev = rows[e].snap
    OBVIOUS
  <2>3. cand(act, next) \in Cand
    BY <1>3
  <2> HIDE DEF cand
  <2> QED
    BY <2>1, <2>2, <2>3 DEF HasRow
<1> QED
  BY <1>5, <1>6

\* What a run may choose from all of them.
LEMMA ChosenIs ==
  ASSUME Typed, NEW b \in Runs, RunScan(b)
  PROVE  \E todo \in SUBSET UNION {Found(b, e) : e \in Emails}, down \in BOOLEAN :
           runs' = [runs EXCEPT ![b] = [runs[b] EXCEPT !.at = "next", !.todo = todo, !.aiDown = down,
                                                      !.on = FALSE, !.matching = FALSE]]
<1>1. runs \in [Runs -> RunOK] /\ BreakerOpen \subseteq BOOLEAN
  BY DEF Typed, BreakerOpen
<1> DEFINE all == UNION {Found(b, e) : e \in Emails}
<1>2. PICK todo \in SUBSET all, down \in BreakerOpen :
        runs' = [runs EXCEPT ![b].at = "next", ![b].todo = todo, ![b].aiDown = down,
                             ![b].on = FALSE, ![b].matching = FALSE]
  BY DEF RunScan
<1> HIDE DEF all
<1>3. runs' = [runs EXCEPT ![b] = [runs[b] EXCEPT !.at = "next", !.todo = todo, !.aiDown = down,
                                                  !.on = FALSE, !.matching = FALSE]]
  BY <1>1, <1>2
<1> QED
  BY <1>1, <1>2, <1>3 DEF all

LEMMA RunScanTyped ==
  ASSUME Typed, NEW b \in Runs, RunScan(b)
  PROVE  Typed'
<1>u. UNCHANGED <<rules, rows, born, revs, cache, jobs, calls, undos, reviews, writers>>
  BY DEF RunScan, tables
<1>1. PICK todo \in SUBSET UNION {Found(b, e) : e \in Emails}, down \in BOOLEAN :
           runs' = [runs EXCEPT ![b] = [runs[b] EXCEPT !.at = "next", !.todo = todo, !.aiDown = down,
                                                      !.on = FALSE, !.matching = FALSE]]
  BY ChosenIs
<1>2. runs[b].at = "scan"
  BY DEF RunScan
<1>a. \A c \in todo : \E e \in Emails : c \in Found(b, e)
  BY <1>1
<1>3. todo \subseteq Cand
  BY <1>a, <1>2, FoundIs
<1>f. ASSUME NEW e \in Emails, NEW c \in Found(b, e)
      PROVE  c.mail = e /\ c.id # 0 /\ (c.act = "release" => c.prev.link = runs[b].rule)
  BY <1>2, FoundIs
<1>4. \A c \in todo : c.id # 0 /\ (c.act = "release" => c.prev.link = runs[b].rule)
  BY <1>a, <1>f
<1>5. \A c, d \in todo : c.mail = d.mail => c = d
  <2>1. ASSUME NEW c \in todo, NEW d \in todo, c.mail = d.mail
        PROVE  c = d
    <3>1. PICK e \in Emails : c \in Found(b, e)
      BY <1>a
    <3>2. PICK f \in Emails : d \in Found(b, f)
      BY <1>a
    <3>3. c.mail = e /\ d.mail = f
      BY <1>f, <3>1, <3>2
    <3>4. e = f
      BY <2>1, <3>3
    <3>5. d \in Found(b, e)
      BY <3>2, <3>4
    <3>6. \A x, y \in Found(b, e) : x = y
      BY <1>2, FoundIs
    <3> QED
      BY <3>1, <3>5, <3>6
  <2> QED
    BY <2>1
<1>runs. runs' \in [Runs -> RunOK]
  <2> DEFINE x == [runs[b] EXCEPT !.at = "next", !.todo = todo, !.aiDown = down, !.on = FALSE, !.matching = FALSE]
  <2>1. runs \in [Runs -> RunOK] /\ runs[b] \in RunOK
    BY DEF Typed
  <2>2. runs[b] \in Run
    BY <2>1 DEF RunOK
  <2>3. x \in Run
    BY <1>3, <2>2 DEF Run
  <2>f0. x.at = "next" /\ runs[b].at = "scan" /\ x.rule = runs[b].rule /\ x.todo = todo /\ x.cur = runs[b].cur
    BY <2>2 DEF Run, RunScan
  <2>f1. runs[b].cur = {} /\ runs[b].rule \in Rules
    BY <2>1, <2>f0 DEF RunOK, AtRelease
  <2>4. runs' = [runs EXCEPT ![b] = x]
    BY <2>1, <1>1
  <2> HIDE DEF x
  <2>5. x \in RunOK
    BY <2>1, <2>2, <2>3, <2>f0, <2>f1, <1>3, <1>4, <1>5 DEF RunOK, AtRelease
  <2> QED
    BY <2>1, <2>4, <2>5
<1> QED
  BY <1>u, <1>runs DEF Typed, OneCalled

LEMMA RunRewriteTyped ==
  ASSUME Typed, NEW b \in Runs, RunRewrite(b)
  PROVE  Typed'
<1>u. UNCHANGED <<rules, born, cache, jobs, calls, undos, reviews, writers>>
  BY DEF RunRewrite, tables
<1>1. PICK c \in runs[b].todo :
        /\ runs' = [runs EXCEPT ![b].todo = @ \ {c}]
        /\ \/ /\ rows' = [rows EXCEPT ![c.mail].snap = IF c.act = "release" THEN Flagged(b, c.prev) ELSE c.next]
              /\ Logged(b, c, IF c.act = "release" THEN "marked_review" ELSE "applied",
                        IF c.act = "release" THEN Flagged(b, c.prev) ELSE c.next)
           \/ UNCHANGED <<rows, revs>>
  BY DEF RunRewrite
<1>2. c \in Cand /\ c.mail \in Emails
  BY CandIs DEF Typed, RunOK, Run
<1>3. (IF c.act = "release" THEN Flagged(b, c.prev) ELSE c.next) \in Snap
  BY <1>2, CandIs, FlaggedType
<1>runs. runs' \in [Runs -> RunOK]
  <2>0. runs \in [Runs -> RunOK] /\ runs[b] \in RunOK /\ runs[b] \in Run
    BY DEF Typed, RunOK
  <2> DEFINE x == [runs[b] EXCEPT !.todo = @ \ {c}]
  <2>1. x \in Run
    BY <2>0 DEF Run
  <2>2. x.at = "next" /\ runs[b].at = "next" /\ x.rule = runs[b].rule /\ x.todo \subseteq runs[b].todo /\ x.cur = runs[b].cur
    BY <2>0 DEF Run, RunRewrite
  <2>3. runs' = [runs EXCEPT ![b] = x]
    BY <1>1, <2>0
  <2> HIDE DEF x
  <2>4. x \in RunOK
    BY <2>0, <2>1, <2>2, RunKeeps DEF AtRelease
  <2> QED
    BY <2>0, <2>3, <2>4
<1>rows. rows' \in [Emails -> Row]
  BY <1>1, <1>2, <1>3, RowSnapType DEF Typed
<1>revs. revs' \in [Runs -> [Emails -> Rev]]
  BY <1>1, <1>2, <1>3, LoggedType DEF Typed
<1> QED
  BY <1>u, <1>runs, <1>rows, <1>revs DEF Typed, OneCalled

LEMMA RunReleaseTyped ==
  ASSUME Typed, NEW b \in Runs, RunRelease(b)
  PROVE  Typed'
<1>u. UNCHANGED <<rules, born, cache, jobs, calls, undos, reviews, writers>>
  BY DEF RunRelease, tables
<1>1. PICK c \in runs[b].todo : c.act = "release" /\
        \/ /\ rows' = [rows EXCEPT ![c.mail] = NoRow]
           /\ Logged(b, c, "deferred", NoSnap)
           /\ runs' = [runs EXCEPT ![b].at = "call", ![b].todo = @ \ {c}, ![b].cur = {c}]
        \/ runs' = [runs EXCEPT ![b].todo = @ \ {c}] /\ UNCHANGED <<rows, revs>>
  BY DEF RunRelease, Rewrites
<1>2. c \in Cand /\ c.mail \in Emails
  BY CandIs DEF Typed, RunOK, Run
<1>runs. runs' \in [Runs -> RunOK]
  <2>0. runs \in [Runs -> RunOK] /\ runs[b] \in RunOK /\ runs[b] \in Run
    BY DEF Typed, RunOK
  <2> DEFINE x == [runs[b] EXCEPT !.todo = @ \ {c}]
             y == [runs[b] EXCEPT !.at = "call", !.todo = @ \ {c}, !.cur = {c}]
  <2>1. x \in Run /\ y \in Run
    BY <1>2, <2>0 DEF Run
  <2>2. runs[b].at = "next" /\ x.at = "next" /\ x.rule = runs[b].rule /\ x.todo \subseteq runs[b].todo /\ x.cur = runs[b].cur
    BY <2>0 DEF Run, RunRelease
  <2>3. y.at = "call" /\ y.rule = runs[b].rule /\ y.todo = runs[b].todo \ {c} /\ y.cur = {c}
    BY <2>0 DEF Run
  <2>4. runs' = [runs EXCEPT ![b] = x] \/ runs' = [runs EXCEPT ![b] = y]
    BY <1>1, <2>0
  <2> HIDE DEF x, y
  <2>5. x \in RunOK
    BY <2>0, <2>1, <2>2, RunKeeps DEF AtRelease
  <2>6. y \in RunOK
    BY <1>1, <2>0, <2>1, <2>2, <2>3 DEF RunOK, AtRelease
  <2> QED
    BY <2>0, <2>4, <2>5, <2>6
<1>rows. rows' \in [Emails -> Row]
  BY <1>1, <1>2, Blanks DEF Typed
<1>revs. revs' \in [Runs -> [Emails -> Rev]]
  BY <1>1, <1>2, LoggedType, Blanks DEF Typed
<1> QED
  BY <1>u, <1>runs, <1>rows, <1>revs DEF Typed, OneCalled

LEMMA RunClassifyTyped ==
  ASSUME Typed, NEW b \in Runs, RunClassify(b)
  PROVE  Typed'
<1>u. UNCHANGED <<rules, rows, born, revs, cache, jobs, runs, undos, reviews, writers>>
  BY DEF RunClassify, tables
<1>calls. calls' \in [Callers -> CallOK]
  <2>1. runs[b] \in Run /\ calls \in [Callers -> CallOK]
    BY DEF Typed, RunOK
  <2>2. Current(b).mail \in Emails
    BY CurrentIs, CandIs DEF RunClassify, AtRelease
  <2>3. runs[b].hits[Current(b).mail] \in Hit
    BY <2>1, <2>2 DEF Run, Matcher
  <2>4. Entered(Current(b).mail, Routed(Current(b).mail, runs[b].hits[Current(b).mail])) \in CallOK
    BY <2>2, <2>3, EnteredOK
  <2> QED
    BY <2>1, <2>4 DEF RunClassify
<1>one. OneCalled'
  <2>1. \A k \in Jobs : calls'[k] = calls[k]
    BY DEF RunClassify, Typed
  <2> QED
    BY <1>u, <2>1 DEF Typed, OneCalled
<1> QED
  BY <1>u, <1>calls, <1>one DEF Typed

LEMMA RunReturnedTyped ==
  ASSUME Typed, NEW b \in Runs, RunReturned(b)
  PROVE  Typed'
<1>u. UNCHANGED <<rules, rows, born, revs, cache, jobs, calls, undos, reviews, writers>>
  BY DEF RunReturned, tables
<1>runs. runs' \in [Runs -> RunOK]
  <2>0. runs \in [Runs -> RunOK] /\ runs[b] \in RunOK /\ runs[b] \in Run
    BY DEF Typed, RunOK
  <2> DEFINE n == IF calls[b].snap.by = "rule" THEN runs[b].strikes ELSE 0
             x == [runs[b] EXCEPT !.at = "record", !.strikes = n]
  <2>n. n \in 0..MaxStrikes
    BY <2>0 DEF Run
  <2>3. runs' = [runs EXCEPT ![b] = x]
    BY <2>0 DEF RunReturned
  <2> HIDE DEF n
  <2>1. x \in Run
    BY <2>0, <2>n DEF Run
  <2>2. x.at = "record" /\ runs[b].at = "call" /\ x.rule = runs[b].rule /\ x.todo = runs[b].todo /\ x.cur = runs[b].cur
    BY <2>0 DEF Run, RunReturned
  <2> HIDE DEF x
  <2>4. x \in RunOK
    BY <2>0, <2>1, <2>2, RunKeeps DEF AtRelease
  <2> QED
    BY <2>0, <2>3, <2>4
<1> QED
  BY <1>u, <1>runs DEF Typed, OneCalled

\* A revision's outcome.
LEMMA OutcomeType ==
  ASSUME Typed, NEW b \in Runs, NEW e \in Emails, NEW status \in {"reclassified", "marked_review"},
         NEW s \in Snap, revs' = [revs EXCEPT ![b][e].status = status, ![b][e].next = s]
  PROVE  /\ revs' \in [Runs -> [Emails -> Rev]]
         /\ revs' = [revs EXCEPT ![b] = [revs[b] EXCEPT ![e] =
              [revs[b][e] EXCEPT !.status = status, !.next = s]]]
<1> DEFINE x == [revs[b][e] EXCEPT !.status = status, !.next = s]
<1>1. revs \in [Runs -> [Emails -> Rev]]
  BY DEF Typed
<1>a. revs[b][e] \in Rev
  BY <1>1
<1>2. x \in Rev
  BY <1>a DEF Rev
<1>3. revs' = [revs EXCEPT ![b] = [revs[b] EXCEPT ![e] = x]]
  BY <1>1
<1> HIDE DEF x
<1>4. [revs[b] EXCEPT ![e] = x] \in [Emails -> Rev]
  BY <1>1, <1>2
<1>5. revs' \in [Runs -> [Emails -> Rev]]
  BY <1>1, <1>3, <1>4
<1> QED
  BY <1>3, <1>5 DEF x

LEMMA RunRecordTyped ==
  ASSUME Typed, NEW b \in Runs, RunRecord(b)
  PROVE  Typed'
<1>u. UNCHANGED <<rules, rows, born, cache, jobs, undos, reviews, writers>>
  BY DEF RunRecord, tables
<1>runs. runs' \in [Runs -> RunOK]
  <2>0. runs \in [Runs -> RunOK] /\ runs[b] \in RunOK /\ runs[b] \in Run
    BY DEF Typed, RunOK
  <2> DEFINE x == [runs[b] EXCEPT !.at = "next", !.cur = {}]
  <2>1. x \in Run
    BY <2>0 DEF Run
  <2>2. x.at = "next" /\ runs[b].at \in AtRelease /\ x.rule = runs[b].rule /\ x.todo = runs[b].todo /\ x.cur = {}
    BY <2>0 DEF Run, RunRecord, AtRelease
  <2>3. runs' = [runs EXCEPT ![b] = x]
    BY <2>0 DEF RunRecord
  <2> HIDE DEF x
  <2>4. x \in RunOK
    BY <2>0, <2>1, <2>2, RunGoesOn
  <2> QED
    BY <2>0, <2>3, <2>4
<1>revs. revs' \in [Runs -> [Emails -> Rev]]
  <2>1. Current(b).mail \in Emails
    BY CurrentIs, CandIs DEF RunRecord, AtRelease
  <2>2. calls[b].snap \in Snap
    BY DEF Typed, CallOK, Call
  <2> QED
    BY <2>1, <2>2, OutcomeType DEF RunRecord
<1>calls. calls' \in [Callers -> CallOK]
  BY BlanksOK DEF RunRecord, Typed
<1>one. OneCalled'
  <2>1. \A k \in Jobs : calls'[k] = calls[k]
    BY DEF RunRecord, Typed
  <2> QED
    BY <1>u, <2>1 DEF Typed, OneCalled
<1> QED
  BY <1>u, <1>runs, <1>revs, <1>calls, <1>one DEF Typed

LEMMA RunFailedTyped ==
  ASSUME Typed, NEW b \in Runs, RunFailed(b)
  PROVE  Typed'
<1>u. UNCHANGED <<rules, rows, born, revs, cache, jobs, undos, reviews, writers>>
  BY DEF RunFailed, tables
<1>runs. runs' \in [Runs -> RunOK]
  <2>0. runs \in [Runs -> RunOK] /\ runs[b] \in RunOK /\ runs[b] \in Run
    BY DEF Typed, RunOK
  <2> DEFINE n == IF calls[b].at = "ai" /\ runs[b].strikes < MaxStrikes THEN runs[b].strikes + 1 ELSE runs[b].strikes
             d == runs[b].aiDown \/ calls[b].at = "open" \/ (calls[b].at = "ai" /\ n = MaxStrikes)
             x == [runs[b] EXCEPT !.at = "restore", !.strikes = n, !.aiDown = d]
  <2>n. n \in 0..MaxStrikes
    BY <2>0 DEF Run
  <2>3. runs' = [runs EXCEPT ![b] = x]
    BY <2>0 DEF RunFailed
  <2>d. d \in BOOLEAN
    BY Zenon
  <2> HIDE DEF n, d
  <2>1. x \in Run
    BY <2>0, <2>n, <2>d DEF Run
  <2>2. x.at = "restore" /\ runs[b].at = "call" /\ x.rule = runs[b].rule /\ x.todo = runs[b].todo /\ x.cur = runs[b].cur
    BY <2>0 DEF Run, RunFailed
  <2> HIDE DEF x
  <2>4. x \in RunOK
    BY <2>0, <2>1, <2>2, RunKeeps DEF AtRelease
  <2> QED
    BY <2>0, <2>3, <2>4
<1>calls. calls' \in [Callers -> CallOK]
  BY BlanksOK DEF RunFailed, Typed
<1>one. OneCalled'
  <2>1. \A k \in Jobs : calls'[k] = calls[k]
    BY DEF RunFailed, Typed
  <2> QED
    BY <1>u, <2>1 DEF Typed, OneCalled
<1> QED
  BY <1>u, <1>runs, <1>calls, <1>one DEF Typed

LEMMA RunRestoreTyped ==
  ASSUME Typed, NEW b \in Runs, RunRestore(b)
  PROVE  Typed'
<1>u. UNCHANGED <<rules, born, cache, jobs, calls, undos, reviews, writers>>
  BY DEF RunRestore, tables
<1>1. Current(b) \in Cand /\ Current(b).mail \in Emails
  BY CurrentIs, CandIs DEF RunRestore, AtRelease
<1>2. Flagged(b, Current(b).prev) \in Snap
  BY <1>1, CandIs, FlaggedType
<1>runs. runs' \in [Runs -> RunOK]
  <2>0. runs \in [Runs -> RunOK] /\ runs[b] \in RunOK /\ runs[b] \in Run
    BY DEF Typed, RunOK
  <2> DEFINE x == [runs[b] EXCEPT !.at = "next", !.cur = {}]
  <2>1. x \in Run
    BY <2>0 DEF Run
  <2>2. x.at = "next" /\ runs[b].at \in AtRelease /\ x.rule = runs[b].rule /\ x.todo = runs[b].todo /\ x.cur = {}
    BY <2>0 DEF Run, RunRestore, AtRelease
  <2>3. runs' = [runs EXCEPT ![b] = x]
    BY <2>0 DEF RunRestore
  <2> HIDE DEF x
  <2>4. x \in RunOK
    BY <2>0, <2>1, <2>2, RunGoesOn
  <2> QED
    BY <2>0, <2>3, <2>4
<1>rows. rows' \in [Emails -> Row]
  <2>1. NewRow(Current(b).id, Flagged(b, Current(b).prev)) \in Row
    BY <1>1, <1>2, CandIs DEF NewRow, Row
  <2> QED
    BY <2>1 DEF RunRestore, Typed
<1>revs. revs' \in [Runs -> [Emails -> Rev]]
  <2>1. revs' = revs \/ revs' = [revs EXCEPT ![b][Current(b).mail].status = "marked_review",
                                       ![b][Current(b).mail].next = Flagged(b, Current(b).prev)]
    BY DEF RunRestore
  <2> QED
    BY <1>1, <1>2, <2>1, OutcomeType DEF Typed
<1> QED
  BY <1>u, <1>runs, <1>rows, <1>revs DEF Typed, OneCalled

LEMMA RunEndTyped ==
  ASSUME Typed, NEW b \in Runs, RunEnd(b)
  PROVE  Typed'
<1>u. UNCHANGED <<rules, rows, born, revs, cache, jobs, calls, undos, reviews, writers>>
  BY DEF RunEnd, tables
<1>runs. runs' \in [Runs -> RunOK]
  <2>0. runs \in [Runs -> RunOK] /\ runs[b] \in RunOK /\ runs[b] \in Run
    BY DEF Typed, RunOK
  <2> DEFINE x == [NoRun EXCEPT !.at = "done", !.rule = runs[b].rule]
  <2>1. x \in Run
    BY <2>0, Blanks DEF Run
  <2>2. x.at = "done" /\ x.todo = {} /\ x.cur = {}
    BY DEF NoRun
  <2>3. runs' = [runs EXCEPT ![b] = x]
    BY DEF RunEnd
  <2> HIDE DEF x
  <2>4. x \in RunOK
    BY <2>1, <2>2 DEF RunOK, AtRelease
  <2> QED
    BY <2>0, <2>3, <2>4
<1> QED
  BY <1>u, <1>runs DEF Typed, OneCalled

----------------------------------------------------------------------------
(* Types: undos, reviews, writes of rules, crashes.                        *)

LEMMA UndoBeginTyped ==
  ASSUME Typed, NEW u \in Undos, UndoBegin(u)
  PROVE  Typed'
<1>u. UNCHANGED <<rules, rows, born, revs, cache, jobs, calls, runs, reviews, writers>>
  BY DEF UndoBegin, tables
<1>undos. undos' \in [Undos -> UndoOK]
  <2>0. undos \in [Undos -> UndoOK] /\ undos[u] \in UndoOK /\ undos[u] \in Undo
    BY DEF Typed, UndoOK
  <2>1. PICK b \in Runs : undos' = [undos EXCEPT ![u] = [NoUndo EXCEPT !.at = "next", !.batch = b,
                        !.todo = {e \in Revised(b) : ~revs[b][e].undone}]]
    BY DEF UndoBegin
  <2> DEFINE x == [NoUndo EXCEPT !.at = "next", !.batch = b, !.todo = {e \in Revised(b) : ~revs[b][e].undone}]
  <2>2. x \in Undo /\ x.at = "next" /\ x.batch = b
    BY Blanks DEF Undo, Revised
  <2> HIDE DEF x
  <2>3. x \in UndoOK
    BY <2>2 DEF UndoOK
  <2> QED
    BY <2>0, <2>1, <2>3 DEF x
<1> QED
  BY <1>u, <1>undos DEF Typed, OneCalled

LEMMA RestoredType ==
  ASSUME NEW s \in Snap
  PROVE  Restored(s) \in Snap /\ Restored(s) \in {s, [s EXCEPT !.link = None]}
<1>1. [s EXCEPT !.link = None] \in Snap
  BY DEF Snap
<1> QED
  BY <1>1 DEF Restored

LEMMA UndoReadTyped ==
  ASSUME Typed, NEW u \in Undos, UndoRead(u)
  PROVE  Typed'
<1>u. UNCHANGED <<rules, rows, born, revs, cache, jobs, calls, runs, reviews, writers>>
  BY DEF UndoRead, tables
<1>undos. undos' \in [Undos -> UndoOK]
  <2>0. undos \in [Undos -> UndoOK] /\ undos[u] \in UndoOK /\ undos[u] \in Undo
    BY DEF Typed, UndoOK
  <2>1. PICK e \in undos[u].todo :
         \/ undos' = [undos EXCEPT ![u].at = "apply", ![u].todo = @ \ {e}, ![u].mail = e,
                ![u].id = rows[e].id, ![u].restore = Restored(revs[undos[u].batch][e].prev)]
         \/ undos' = [undos EXCEPT ![u].todo = @ \ {e}]
    BY DEF UndoRead
  <2> DEFINE x == [undos[u] EXCEPT !.at = "apply", !.todo = @ \ {e}, !.mail = e, !.id = rows[e].id,
                          !.restore = Restored(revs[undos[u].batch][e].prev)]
             y == [undos[u] EXCEPT !.todo = @ \ {e}]
  <2>2. undos[u].at = "next" /\ undos[u].batch \in Runs /\ e \in Emails /\ rows[e].id \in Nat
    BY <2>0, <2>1 DEF UndoRead, UndoOK, Undo, Typed, Row
  <2>3. revs[undos[u].batch][e].prev \in Snap
    BY <2>2 DEF Typed, Rev
  <2>4. x \in Undo /\ x.at = "apply" /\ x.batch = undos[u].batch /\ x.mail = e
    BY <2>0, <2>2, <2>3, RestoredType DEF Undo
  <2>5. y \in Undo /\ y.at = undos[u].at /\ y.batch = undos[u].batch
    BY <2>0 DEF Undo
  <2>6. undos' = [undos EXCEPT ![u] = x] \/ undos' = [undos EXCEPT ![u] = y]
    BY <2>0, <2>1
  <2> HIDE DEF x, y
  <2>7. x \in UndoOK /\ y \in UndoOK
    BY <2>2, <2>4, <2>5 DEF UndoOK
  <2> QED
    BY <2>0, <2>6, <2>7
<1> QED
  BY <1>u, <1>undos DEF Typed, OneCalled

LEMMA UndoApplyTyped ==
  ASSUME Typed, NEW u \in Undos, UndoApply(u)
  PROVE  Typed'
<1>u. UNCHANGED <<rules, born, cache, jobs, calls, runs, reviews, writers>>
  BY DEF UndoApply, tables
<1> DEFINE b == undos[u].batch
           e == undos[u].mail
           s == undos[u].restore
<1>1. b \in Runs /\ e \in Emails /\ s \in Snap /\ revs[b][e] \in Rev
  BY DEF UndoApply, Typed, UndoOK, Undo
<1>2. /\ rows' = rows \/ rows' = [rows EXCEPT ![e].snap = s] \/ rows' = [rows EXCEPT ![e] = NewRow(revs[b][e].id, s)]
      /\ revs' = revs \/ revs' = [revs EXCEPT ![b][e].undone = TRUE]
  <2>1. rows \in [Emails -> Row]
    BY DEF Typed
  <2> QED
    BY <1>1, <2>1 DEF UndoApply
<1> HIDE DEF b, e, s
<1>undos. undos' \in [Undos -> UndoOK]
  <2>0. undos \in [Undos -> UndoOK] /\ undos[u] \in UndoOK /\ undos[u] \in Undo
    BY DEF Typed, UndoOK
  <2> DEFINE x == [undos[u] EXCEPT !.at = "next", !.mail = 0, !.id = 0, !.restore = NoSnap]
  <2>1. x \in Undo /\ x.at = "next" /\ x.batch = undos[u].batch
    BY <2>0, Blanks DEF Undo
  <2>2. undos' = [undos EXCEPT ![u] = x]
    BY <2>0 DEF UndoApply
  <2> HIDE DEF x
  <2>3. x \in UndoOK
    BY <2>0, <2>1 DEF UndoOK, UndoApply
  <2> QED
    BY <2>0, <2>2, <2>3
<1>rows. rows' \in [Emails -> Row]
  <2>1. CASE rows' = [rows EXCEPT ![e].snap = s]
    BY <1>1, <2>1, RowSnapType
  <2>2. CASE rows' = [rows EXCEPT ![e] = NewRow(revs[b][e].id, s)]
    <3>1. NewRow(revs[b][e].id, s) \in Row
      BY <1>1 DEF NewRow, Row, Rev
    <3> QED
      BY <2>2, <3>1 DEF Typed
  <2> QED
    BY <1>2, <2>1, <2>2 DEF Typed
<1>revs. revs' \in [Runs -> [Emails -> Rev]]
  <2> DEFINE x == [revs[b][e] EXCEPT !.undone = TRUE]
  <2>1. x \in Rev /\ revs \in [Runs -> [Emails -> Rev]]
    BY <1>1 DEF Rev, Typed
  <2>2. revs' = [revs EXCEPT ![b] = [revs[b] EXCEPT ![e] = x]] \/ revs' = revs
    BY <1>2, <2>1
  <2> HIDE DEF x
  <2>3. [revs[b] EXCEPT ![e] = x] \in [Emails -> Rev]
    BY <1>1, <2>1
  <2> QED
    BY <1>1, <2>1, <2>2, <2>3
<1> QED
  BY <1>u, <1>undos, <1>rows, <1>revs DEF Typed, OneCalled

LEMMA UndoEndTyped ==
  ASSUME Typed, NEW u \in Undos, UndoEnd(u)
  PROVE  Typed'
<1>u. UNCHANGED <<rules, rows, born, revs, cache, jobs, calls, runs, reviews, writers>>
  BY DEF UndoEnd, tables
<1>undos. undos' \in [Undos -> UndoOK]
  <2>0. undos \in [Undos -> UndoOK] /\ undos[u] \in UndoOK /\ undos[u] \in Undo
    BY DEF Typed, UndoOK
  <2> DEFINE x == [NoUndo EXCEPT !.at = "done"]
  <2>1. x \in Undo /\ x.at = "done"
    BY Blanks DEF Undo
  <2>2. undos' = [undos EXCEPT ![u] = x]
    BY DEF UndoEnd
  <2> HIDE DEF x
  <2>3. x \in UndoOK
    BY <2>1 DEF UndoOK
  <2> QED
    BY <2>0, <2>2, <2>3
<1> QED
  BY <1>u, <1>undos DEF Typed, OneCalled

LEMMA ReviewFindTyped ==
  ASSUME Typed, NEW v \in Reviewers, ReviewFind(v)
  PROVE  Typed'
<1>u. UNCHANGED <<rules, rows, born, revs, cache, jobs, calls, runs, undos, writers>>
  BY DEF ReviewFind, tables
<1>reviews. reviews' \in [Reviewers -> Review]
  <2>1. PICK e \in Emails, recategorize \in BOOLEAN : reviews' = [reviews EXCEPT ![v] =
              [at |-> IF recategorize THEN "upsert" ELSE IF rows[e].reviewed THEN "delete" ELSE "create",
               mail |-> e, id |-> rows[e].id]]
    BY DEF ReviewFind
  <2> DEFINE a == IF recategorize THEN "upsert" ELSE IF rows[e].reviewed THEN "delete" ELSE "create"
             x == [at |-> a, mail |-> e, id |-> rows[e].id]
  <2>2. a \in {"upsert", "delete", "create"} /\ rows[e].id \in Nat
    BY DEF Typed, Row
  <2>3. reviews' = [reviews EXCEPT ![v] = x]
    BY <2>1
  <2> HIDE DEF a
  <2>4. x \in Review
    BY <2>2 DEF Review
  <2> HIDE DEF x
  <2> QED
    BY <2>3, <2>4 DEF Typed
<1> QED
  BY <1>u, <1>reviews DEF Typed, OneCalled

LEMMA ReviewDeleteTyped ==
  ASSUME Typed, NEW v \in Reviewers, ReviewDelete(v)
  PROVE  Typed'
<1>u. UNCHANGED <<rules, born, revs, cache, jobs, calls, runs, undos, writers>>
  BY DEF ReviewDelete, tables
<1>reviews. reviews' \in [Reviewers -> Review]
  <2> DEFINE x == [reviews[v] EXCEPT !.at = "create"]
  <2>0. reviews \in [Reviewers -> Review]
    BY DEF Typed
  <2>1. x \in Review
    BY <2>0 DEF Review
  <2>2. reviews' = [reviews EXCEPT ![v] = x] \/ reviews' = [reviews EXCEPT ![v] = ReviewDone]
    BY <2>0 DEF ReviewDelete
  <2> HIDE DEF x
  <2> QED
    BY <2>0, <2>1, <2>2, Blanks
<1>rows. rows' \in [Emails -> Row]
  <2> DEFINE e == reviews[v].mail
             x == [rows[e] EXCEPT !.reviewed = FALSE]
  <2>0. rows \in [Emails -> Row]
    BY DEF Typed
  <2>1. e \in Emails => x \in Row
    BY <2>0 DEF Row
  <2>2. rows' = rows \/ rows' = [rows EXCEPT ![e] = x]
    BY <2>0 DEF ReviewDelete
  <2> HIDE DEF x, e
  <2> QED
    BY <2>0, <2>1, <2>2
<1> QED
  BY <1>u, <1>reviews, <1>rows DEF Typed, OneCalled

LEMMA ReviewDecideTyped ==
  ASSUME Typed, NEW v \in Reviewers, ReviewDecide(v)
  PROVE  Typed'
<1>u. UNCHANGED <<rules, born, revs, cache, jobs, calls, runs, undos, writers>>
  BY DEF ReviewDecide, tables
<1>reviews. reviews' \in [Reviewers -> Review]
  BY Blanks DEF ReviewDecide, Typed
<1>rows. rows' \in [Emails -> Row]
  <2> DEFINE e == reviews[v].mail
             x == [rows[e] EXCEPT !.reviewed = TRUE]
  <2>0. rows \in [Emails -> Row]
    BY DEF Typed
  <2>1. e \in Emails => x \in Row
    BY <2>0 DEF Row
  <2>2. rows' = rows \/ rows' = [rows EXCEPT ![e] = x]
    BY <2>0 DEF ReviewDecide
  <2> HIDE DEF x, e
  <2> QED
    BY <2>0, <2>1, <2>2
<1> QED
  BY <1>u, <1>reviews, <1>rows DEF Typed, OneCalled

LEMMA WriteBeginTyped ==
  ASSUME Typed, NEW w \in Writers, WriteBegin(w)
  PROVE  Typed'
<1>u. UNCHANGED <<rules, rows, born, revs, cache, jobs, calls, runs, undos, reviews>>
  BY DEF WriteBegin, tables
<1>writers. writers' \in [Writers -> WriterOK]
  <2>1. PICK r \in Rules : writers' = [writers EXCEPT ![w] = [at |-> "write", rule |-> r, seen |-> rules[r]]]
    BY DEF WriteBegin
  <2> DEFINE x == [at |-> "write", rule |-> r, seen |-> rules[r]]
  <2>2. x \in Writer /\ x.rule \in Rules
    BY DEF Writer, Typed
  <2>3. writers' = [writers EXCEPT ![w] = x]
    BY <2>1
  <2> HIDE DEF x
  <2>4. x \in WriterOK
    BY <2>2 DEF WriterOK
  <2> QED
    BY <2>3, <2>4 DEF Typed
<1> QED
  BY <1>u, <1>writers DEF Typed, OneCalled

\* A write of a rule, in its transaction.
LEMMA WriterGoesOn ==
  ASSUME Typed, NEW w \in Writers, writers' = [writers EXCEPT ![w].at = "invalidate"]
  PROVE  writers' \in [Writers -> WriterOK] /\ writers'[w].at = "invalidate"
<1> DEFINE x == [writers[w] EXCEPT !.at = "invalidate"]
<1>1. writers \in [Writers -> WriterOK]
  BY DEF Typed
<1>2. writers[w] \in Writer
  BY <1>1 DEF WriterOK
<1>3. x \in Writer /\ x.at = "invalidate"
  BY <1>2 DEF Writer
<1>4. writers' = [writers EXCEPT ![w] = x]
  BY <1>1
<1> HIDE DEF x
<1>5. x \in WriterOK
  BY <1>3 DEF WriterOK
<1> QED
  BY <1>1, <1>3, <1>4, <1>5

LEMMA WriteType ==
  ASSUME Typed, NEW w \in Writers, NEW rule \in Rule, Write(w, rule)
  PROVE  /\ rules' \in [Rules -> Rule] /\ writers' \in [Writers -> WriterOK]
         /\ writers'[w].at = "invalidate"
  BY WriterGoesOn DEF Write, Typed

\* What a creation, a patch or a deletion writes.
LEMMA CreationType ==
  ASSUME NEW on \in BOOLEAN, NEW v \in Versions
  PROVE  [state |-> "stored", on |-> on, ver |-> v] \in Rule
  BY DEF Rule

LEMMA PatchType ==
  ASSUME NEW r \in Rule
  PROVE  /\ \A on \in BOOLEAN : [r EXCEPT !.on = on] \in Rule /\ [r EXCEPT !.on = on].state = r.state
         /\ \A v \in Versions : [r EXCEPT !.ver = v] \in Rule /\ [r EXCEPT !.ver = v].state = r.state
         /\ [r EXCEPT !.state = "gone"] \in Rule /\ [r EXCEPT !.state = "gone"].state = "gone"
  BY DEF Rule

\* What a write of a rule does.
LEMMA CreateIs ==
  ASSUME Typed, NEW w \in Writers, RuleCreate(w)
  PROVE  \/ \E rule \in Rule : Write(w, rule) /\ rule.state = "stored" /\ rules[writers[w].rule].state = "new"
         \/ UNCHANGED rules /\ writers' = [writers EXCEPT ![w] = WriterDone]
<1>1. CASE rules[writers[w].rule].state = "new"
  <2>1. PICK on \in BOOLEAN, v \in Versions : Write(w, [state |-> "stored", on |-> on, ver |-> v])
    BY <1>1 DEF RuleCreate
  <2>2. [state |-> "stored", on |-> on, ver |-> v].state = "stored"
    OBVIOUS
  <2> QED
    BY <1>1, <2>1, <2>2, CreationType
<1> QED
  BY <1>1 DEF RuleCreate

LEMMA UpdateIs ==
  ASSUME Typed, NEW w \in Writers, RuleUpdate(w)
  PROVE  \/ \E rule \in Rule : Write(w, rule) /\ rule.state = "stored" /\ Stored(writers[w].rule)
         \/ UNCHANGED rules /\ writers' = [writers EXCEPT ![w] = WriterDone]
<1> DEFINE r == writers[w].seen
<1>1. r \in Rule /\ r.state = "stored"
  BY DEF Typed, WriterOK, Writer, RuleUpdate
<1>2. CASE Stored(writers[w].rule)
  <2>1. CASE \E on \in BOOLEAN : Write(w, [r EXCEPT !.on = on])
    <3>1. PICK on \in BOOLEAN : Write(w, [r EXCEPT !.on = on])
      BY <2>1
    <3>2. [r EXCEPT !.on = on] \in Rule /\ [r EXCEPT !.on = on].state = "stored"
      BY <1>1, PatchType
    <3> QED
      BY <1>2, <3>1, <3>2
  <2>2. CASE \E v \in Versions : Write(w, [r EXCEPT !.ver = v])
    <3>1. PICK v \in Versions : Write(w, [r EXCEPT !.ver = v])
      BY <2>2
    <3>2. [r EXCEPT !.ver = v] \in Rule /\ [r EXCEPT !.ver = v].state = "stored"
      BY <1>1, PatchType
    <3> QED
      BY <1>2, <3>1, <3>2
  <2> QED
    BY <1>2, <2>1, <2>2 DEF RuleUpdate
<1> QED
  BY <1>2 DEF RuleUpdate

LEMMA RemoveIs ==
  ASSUME Typed, NEW w \in Writers, RuleRemove(w)
  PROVE  \/ \E rule \in Rule : /\ Write(w, rule) /\ rule.state = "gone"
                              /\ Stored(writers[w].rule) /\ rows' = Unlinked(writers[w].rule)
         \/ UNCHANGED <<rules, rows>> /\ writers' = [writers EXCEPT ![w].at = "invalidate"]
<1> DEFINE r == rules[writers[w].rule]
<1>1. CASE Stored(writers[w].rule)
  <2>1. writers[w].rule \in Rules
    BY DEF Typed, WriterOK, RuleRemove
  <2>2. r \in Rule
    BY <2>1 DEF Typed
  <2>3. Write(w, [r EXCEPT !.state = "gone"]) /\ rows' = Unlinked(writers[w].rule)
    BY <1>1 DEF RuleRemove
  <2>4. [r EXCEPT !.state = "gone"] \in Rule /\ [r EXCEPT !.state = "gone"].state = "gone"
    BY <2>2, PatchType
  <2> HIDE DEF r
  <2> QED
    BY <1>1, <2>3, <2>4
<1> QED
  BY <1>1 DEF RuleRemove

LEMMA RuleCreateTyped ==
  ASSUME Typed, NEW w \in Writers, RuleCreate(w)
  PROVE  Typed'
<1>u. UNCHANGED <<rows, born, revs, cache, jobs, calls, runs, undos, reviews>>
  BY DEF RuleCreate, tables
<1>rules. rules' \in [Rules -> Rule]
  BY CreateIs, WriteType DEF Typed
<1>writers. writers' \in [Writers -> WriterOK]
  BY CreateIs, WriteType, BlanksOK DEF Typed
<1> QED
  BY <1>u, <1>rules, <1>writers DEF Typed, OneCalled

LEMMA RuleUpdateTyped ==
  ASSUME Typed, NEW w \in Writers, RuleUpdate(w)
  PROVE  Typed'
<1>u. UNCHANGED <<rows, born, revs, cache, jobs, calls, runs, undos, reviews>>
  BY DEF RuleUpdate, tables
<1>rules. rules' \in [Rules -> Rule]
  BY UpdateIs, WriteType DEF Typed
<1>writers. writers' \in [Writers -> WriterOK]
  BY UpdateIs, WriteType, BlanksOK DEF Typed
<1> QED
  BY <1>u, <1>rules, <1>writers DEF Typed, OneCalled

LEMMA RuleRemoveTyped ==
  ASSUME Typed, NEW w \in Writers, RuleRemove(w)
  PROVE  Typed'
<1>u. UNCHANGED <<born, revs, cache, jobs, calls, runs, undos, reviews>>
  BY DEF RuleRemove, tables
<1>rules. rules' \in [Rules -> Rule]
  BY RemoveIs, WriteType DEF Typed
<1>writers. writers' \in [Writers -> WriterOK]
  BY RemoveIs, WriterGoesOn, WriteType
<1>rows. rows' \in [Emails -> Row]
  <2>0. rows \in [Emails -> Row]
    BY DEF Typed
  <2>1. ASSUME NEW e \in Emails
        PROVE  [rows[e] EXCEPT !.snap.link = None] \in Row
    <3>1. rows[e].snap \in Snap
      BY <2>0 DEF Row
    <3>2. [rows[e].snap EXCEPT !.link = None] \in Snap
      BY <3>1 DEF Snap
    <3> DEFINE s == [rows[e].snap EXCEPT !.link = None]
    <3> HIDE DEF s
    <3>3. [rows[e] EXCEPT !.snap = s] \in Row
      BY <2>0, <3>2 DEF Row, s
    <3>4. [rows[e] EXCEPT !.snap.link = None] = [rows[e] EXCEPT !.snap = s]
      BY <2>0 DEF Row, s
    <3> QED
      BY <3>3, <3>4
  <2>2. Unlinked(writers[w].rule) \in [Emails -> Row]
    BY <2>0, <2>1 DEF Unlinked
  <2> QED
    BY <2>0, <2>2, RemoveIs
<1> QED
  BY <1>u, <1>rules, <1>writers, <1>rows DEF Typed, OneCalled

LEMMA InvalidateTyped ==
  ASSUME Typed, NEW w \in Writers, Invalidate(w)
  PROVE  Typed'
<1>u. UNCHANGED <<rules, rows, born, revs, jobs, calls, runs, undos, reviews>>
  BY DEF Invalidate, tables
<1>cache. cache' \in Cache
  BY Blanks DEF Invalidate
<1>writers. writers' \in [Writers -> WriterOK]
  BY BlanksOK DEF Invalidate, Typed
<1> QED
  BY <1>u, <1>cache, <1>writers DEF Typed, OneCalled

LEMMA CrashTyped ==
  ASSUME Typed, Crash
  PROVE  Typed'
<1>u. UNCHANGED <<rules, rows, born, revs>>
  BY DEF Crash, tables
<1>1. jobs' \in [Jobs -> JobOK]
  BY BlanksOK DEF Crash, Typed
<1>2. calls' \in [Callers -> CallOK]
  BY BlanksOK DEF Crash
<1>3. runs' \in [Runs -> RunOK]
  <2>1. ASSUME NEW b \in Runs
        PROVE  [NoRun EXCEPT !.at = "dead", !.rule = runs[b].rule] \in RunOK
    <3> DEFINE x == [NoRun EXCEPT !.at = "dead", !.rule = runs[b].rule]
    <3>1. runs[b].rule \in Rules \cup {None}
      BY DEF Typed, RunOK, Run
    <3>2. x \in Run
      BY <3>1, Blanks DEF Run
    <3>3. x.at = "dead" /\ x.todo = {} /\ x.cur = {}
      BY DEF NoRun
    <3> HIDE DEF x
    <3>4. x \in RunOK
      BY <3>2, <3>3 DEF RunOK, AtRelease
    <3> QED
      BY <3>4 DEF x
  <2> QED
    BY <2>1 DEF Crash, Typed
<1>4. undos' \in [Undos -> UndoOK]
  <2> DEFINE x == [NoUndo EXCEPT !.at = "done"]
  <2>1. x \in Undo /\ x.at = "done"
    BY Blanks DEF Undo
  <2>2. x \in UndoOK
    BY <2>1 DEF UndoOK
  <2>3. undos' = [u \in Undos |-> IF u \in Active(undos) THEN x ELSE undos[u]]
    BY DEF Crash
  <2> HIDE DEF x
  <2> QED
    BY <2>2, <2>3 DEF Typed
<1>5. reviews' \in [Reviewers -> Review] /\ writers' \in [Writers -> WriterOK] /\ cache' \in Cache
  BY Blanks, BlanksOK DEF Crash, Typed
<1>6. OneCalled'
  <2>1. \A j \in Jobs : jobs'[j].at \in {"idle", "done"}
    <3>1. \A j \in Jobs : j \in Active(jobs) \/ jobs[j].at \in {"idle", "done"}
      BY DEF Active, Typed, JobOK, Job
    <3>2. JobDone.at = "done"
      BY Blanks DEF JobDone, Job
    <3> QED
      BY <3>1, <3>2 DEF Crash
  <2> QED
    BY <2>1 DEF OneCalled
<1> QED
  BY <1>u, <1>1, <1>2, <1>3, <1>4, <1>5, <1>6 DEF Typed

LEMMA InitTyped == ASSUME Init PROVE Typed
<1>1. PICK requested \in Requested : ToCome(requested)
  BY DEF Init
<1>2. rules \in [Rules -> Rule]
  <2>1. \A v \in Versions : [state |-> "stored", on |-> TRUE, ver |-> v] \in Rule
    BY DEF Rule
  <2> QED
    BY <2>1, Blanks DEF Init, InUse
<1>3. Written \subseteq Snap
  <2>2. ASSUME NEW s \in Written
        PROVE  s \in AiSnaps \/ \E r \in Rules, v \in Versions : s = RuleSnap([rule |-> r, ver |-> v])
    BY <2>2 DEF Written
  <2>3. ASSUME NEW s \in Written PROVE s \in Snap
    <3>1. CASE \E r \in Rules, v \in Versions : s = RuleSnap([rule |-> r, ver |-> v])
      <4>1. PICK r \in Rules, v \in Versions : s = RuleSnap([rule |-> r, ver |-> v])
        BY <3>1
      <4>2. [rule |-> r, ver |-> v] \in Hit
        BY DEF Hit
      <4> QED
        BY <4>1, <4>2, RuleSnapType
    <3> QED
      BY <2>2, <3>1, AiSnapType
  <2> QED
    BY <2>3
<1>4. rows \in [Emails -> Row]
  <2>1. \A s \in Written, d \in BOOLEAN : [id |-> 1, snap |-> s, reviewed |-> d] \in Row
    BY <1>3 DEF Row
  <2> QED
    BY <2>1, Blanks DEF Init, InUse
<1>5. born \in [Emails -> Nat] /\ cache \in Cache /\ revs \in [Runs -> [Emails -> Rev]]
  BY <1>4, Blanks DEF Init, InUse, Row
<1>6. jobs \in [Jobs -> JobOK] /\ calls \in [Callers -> CallOK]
  BY <1>1, BlanksOK DEF ToCome
<1>7. runs \in [Runs -> RunOK]
  <2> DEFINE x == [NoRun EXCEPT !.at = "done"]
  <2>1. NoRun.at = "idle" /\ NoRun.todo = {} /\ NoRun.cur = {} /\ x.at = "done" /\ x.todo = {} /\ x.cur = {}
    BY DEF NoRun
  <2>2. x \in Run
    BY Blanks DEF Run
  <2>3. runs = [b \in Runs |-> IF b \in requested THEN NoRun ELSE x]
    BY <1>1 DEF ToCome
  <2> HIDE DEF x
  <2>4. x \in RunOK /\ NoRun \in RunOK
    BY <2>1, <2>2, Blanks DEF RunOK, AtRelease
  <2> QED
    BY <2>3, <2>4
<1>8. undos \in [Undos -> UndoOK]
  <2> DEFINE x == [NoUndo EXCEPT !.at = "done"]
  <2>1. x \in Undo /\ x.at = "done"
    BY Blanks DEF Undo
  <2>2. undos = [u \in Undos |-> IF u \in requested THEN NoUndo ELSE x]
    BY <1>1 DEF ToCome
  <2> HIDE DEF x
  <2>3. x \in UndoOK
    BY <2>1 DEF UndoOK
  <2> QED
    BY <2>2, <2>3, BlanksOK
<1>9. reviews \in [Reviewers -> Review] /\ writers \in [Writers -> WriterOK]
  BY <1>1, Blanks, BlanksOK DEF ToCome
<1>10. OneCalled
  <2>1. NoJob.one = FALSE /\ JobDone.one = FALSE
    BY DEF NoJob, JobDone
  <2> QED
    BY <1>1, <2>1 DEF ToCome, OneCalled
<1> QED
  BY <1>2, <1>4, <1>5, <1>6, <1>7, <1>8, <1>9, <1>10 DEF Typed

LEMMA NextTyped == ASSUME Typed, [Next]_vars PROVE Typed'
<1>1. ASSUME NEW j \in Jobs, JobStep(j)
      PROVE  Typed'
  BY <1>1, JobBeginTyped, JobBeginOneTyped, JobMatchOneTyped, GetMatcherTyped,
     LoadMatcherTyped, MatcherLoadedTyped, MatcherFailsTyped, JobRuleTyped, JobGateTyped,
     JobNextTyped, JobResumeTyped, JobEndTyped DEF JobStep
<1>2. ASSUME NEW p \in Callers, CallStep(p)
      PROVE  Typed'
  BY <1>2, ClassifyAnswerTyped, ClassifyWriteTyped DEF CallStep
<1>3. ASSUME NEW b \in Runs, RunStep(b)
      PROVE  Typed'
  BY <1>3, RunBeginTyped, RunLoadTyped, RunScanTyped, RunRewriteTyped, RunReleaseTyped,
     RunClassifyTyped, RunReturnedTyped, RunRecordTyped, RunFailedTyped, RunRestoreTyped,
     RunEndTyped DEF RunStep
<1>4. ASSUME NEW u \in Undos, UndoStep(u)
      PROVE  Typed'
  BY <1>4, UndoBeginTyped, UndoReadTyped, UndoApplyTyped, UndoEndTyped DEF UndoStep
<1>5. ASSUME NEW v \in Reviewers, ReviewStep(v)
      PROVE  Typed'
  BY <1>5, ReviewFindTyped, ReviewDeleteTyped, ReviewDecideTyped DEF ReviewStep
<1>6. ASSUME NEW w \in Writers, WriterStep(w)
      PROVE  Typed'
  BY <1>6, WriteBeginTyped, RuleCreateTyped, RuleUpdateTyped, RuleRemoveTyped, InvalidateTyped
     DEF WriterStep
<1>7. CASE UNCHANGED vars
  BY <1>7 DEF vars, Typed, OneCalled
<1> QED
  BY <1>1, <1>2, <1>3, <1>4, <1>5, <1>6, <1>7, CrashTyped DEF Next

LEMMA AlwaysTyped == Spec => []Typed
  BY InitTyped, NextTyped, PTL DEF Spec

\* Tables, cache and requests stay well typed, whatever the requests do to one
\* another and wherever they die; a batch never goes on at its last strike.
THEOREM RowsTypeCorrect == Spec => []TypeOK
<1>1. Typed => TypeOK
  BY DEF Typed, TypeOK, CallOK, JobOK, RunOK, UndoOK, WriterOK
<1> QED
  BY <1>1, AlwaysTyped, PTL

----------------------------------------------------------------------------
(* The cached matcher.                                                     *)

\* The cache is compiled from the rules, so what leaves the rules, the cache
\* and those who load it alone keeps it.
LEMMA CompiledStays == ASSUME UNCHANGED rules PROVE Compiled' = Compiled
  BY DEF Compiled, Matching, Winner, Stored

LEMMA CacheKept ==
  ASSUME CacheInv, UNCHANGED <<rules, cache, jobs>>, NoneInvalidates' => NoneInvalidates
  PROVE  CacheInv'
<1>1. LoaderWorks'
  BY DEF CacheInv, LoaderWorks
<1>2. ReadIsFresh'
  BY CompiledStays DEF CacheInv, ReadIsFresh
<1>3. CacheFresh'
  BY CompiledStays DEF CacheInv, CacheFresh, NoneInvalidates
<1> QED
  BY <1>1, <1>2, <1>3 DEF CacheInv

\* A request that is not loading the matcher.
LEMMA JobElsewhere ==
  ASSUME CacheInv, NEW j \in Jobs, UNCHANGED <<rules, cache, writers>>,
         jobs[j].at \notin {"query", "read"}, \A k \in Jobs \ {j} : jobs'[k] = jobs[k]
  PROVE  CacheInv'
<1>1. cache.at = "loading" => cache.by \in Jobs /\ cache.by # j /\ jobs'[cache.by] = jobs[cache.by]
  BY DEF CacheInv, LoaderWorks
<1>2. LoaderWorks'
  BY <1>1 DEF CacheInv, LoaderWorks
<1>3. ReadIsFresh'
  BY <1>1, CompiledStays DEF CacheInv, ReadIsFresh, NoneInvalidates
<1>4. CacheFresh'
  BY CompiledStays DEF CacheInv, CacheFresh
<1> QED
  BY <1>2, <1>3, <1>4 DEF CacheInv

LEMMA CacheDropped ==
  ASSUME cache' = NoCache
  PROVE  CacheInv'
<1>1. cache'.at = "none"
  BY DEF NoCache
<1> QED
  BY <1>1 DEF CacheInv, LoaderWorks, ReadIsFresh, CacheFresh

LEMMA JobsCache ==
  ASSUME Typed, CacheInv, NEW j \in Jobs,
         JobBegin(j) \/ JobBeginOne(j) \/ JobMatchOne(j) \/ JobRule(j) \/ JobGate(j) \/ JobNext(j)
           \/ JobResume(j) \/ JobEnd(j)
  PROVE  CacheInv'
<1>0. jobs \in [Jobs -> JobOK]
  BY DEF Typed
<1>1. CASE JobBegin(j)
  BY <1>0, <1>1, JobElsewhere DEF JobBegin, tables
<1>2. CASE JobBeginOne(j)
  BY <1>0, <1>2, JobElsewhere DEF JobBeginOne, tables
<1>3. CASE JobMatchOne(j)
  BY <1>0, <1>3, JobElsewhere DEF JobMatchOne, tables
<1>4. CASE JobRule(j)
  <2>1. \A k \in Jobs \ {j} : jobs'[k] = jobs[k]
    BY <1>0, <1>4 DEF JobRule
  <2> QED
    BY <1>4, <2>1, JobElsewhere DEF JobRule
<1>5. CASE JobGate(j)
  BY <1>0, <1>5, JobElsewhere DEF JobGate, tables
<1>6. CASE JobNext(j)
  BY <1>0, <1>6, JobElsewhere DEF JobNext, tables
<1>7. CASE JobResume(j)
  <2>1. \A k \in Jobs \ {j} : jobs'[k] = jobs[k]
    BY <1>0, <1>7 DEF JobResume
  <2> QED
    BY <1>7, <2>1, JobElsewhere DEF JobResume, tables
<1>8. CASE JobEnd(j)
  BY <1>0, <1>8, JobElsewhere DEF JobEnd, tables
<1> QED
  BY <1>1, <1>2, <1>3, <1>4, <1>5, <1>6, <1>7, <1>8

LEMMA GetMatcherCache ==
  ASSUME Typed, CacheInv, NEW j \in Jobs, GetMatcher(j)
  PROVE  CacheInv'
<1>0. jobs \in [Jobs -> JobOK] /\ jobs[j] \in Job /\ jobs[j].at = "load"
  BY DEF Typed, JobOK, GetMatcher
<1>u. UNCHANGED <<rules, writers>> /\ \A k \in Jobs \ {j} : jobs'[k] = jobs[k]
  BY <1>0 DEF GetMatcher, tables
<1>1. CASE cache.at \in {"loaded", "loading"}
  <2>1. UNCHANGED cache
    BY <1>1 DEF GetMatcher
  <2> QED
    BY <1>0, <1>u, <2>1, JobElsewhere
<1>2. CASE cache.at \notin {"loaded", "loading"}
  <2>1. jobs' = [jobs EXCEPT ![j].at = "query", ![j].waits = j]
        /\ cache' = [NoCache EXCEPT !.at = "loading", !.by = j]
    BY <1>2 DEF GetMatcher
  <2>2. jobs'[j].at = "query" /\ jobs'[j].waits = j
    BY <1>0, <2>1 DEF Job
  <2>3. cache'.at = "loading" /\ cache'.by = j
    BY <2>1 DEF NoCache
  <2>4. LoaderWorks' /\ ReadIsFresh' /\ CacheFresh'
    BY <2>2, <2>3 DEF LoaderWorks, ReadIsFresh, CacheFresh
  <2> QED
    BY <2>4 DEF CacheInv
<1> QED
  BY <1>1, <1>2

\* The query reads the rules of this moment.
LEMMA LoadMatcherCache ==
  ASSUME Typed, CacheInv, NEW j \in Jobs, LoadMatcher(j)
  PROVE  CacheInv'
<1>0. jobs \in [Jobs -> JobOK] /\ jobs[j] \in Job
  BY DEF Typed, JobOK
<1>1. UNCHANGED <<rules, cache, writers>> /\ \A k \in Jobs \ {j} : jobs'[k] = jobs[k]
  BY <1>0 DEF LoadMatcher, tables
<1>2. jobs'[j].at = "read" /\ jobs'[j].hits = Compiled /\ jobs'[j].waits = jobs[j].waits
  BY <1>0 DEF LoadMatcher, Job
<1>3. LoaderWorks'
  BY <1>1, <1>2 DEF CacheInv, LoaderWorks
<1>4. ReadIsFresh'
  BY <1>1, <1>2, CompiledStays DEF CacheInv, LoaderWorks, ReadIsFresh, NoneInvalidates
<1>5. CacheFresh'
  BY <1>1, CompiledStays DEF CacheInv, CacheFresh
<1> QED
  BY <1>3, <1>4, <1>5 DEF CacheInv

\* Those who wait for a promise are not the one who makes another.
LEMMA OtherPromise ==
  ASSUME CacheInv, NEW j \in Jobs, cache.at = "loading", cache.by # j
  PROVE  cache.by \in Jobs \ Awaiting(j)
  BY DEF CacheInv, LoaderWorks, Awaiting

LEMMA MatcherLoadedCache ==
  ASSUME Typed, CacheInv, NEW j \in Jobs, MatcherLoaded(j)
  PROVE  CacheInv'
<1>0. UNCHANGED <<rules, writers>>
  BY DEF MatcherLoaded, tables
<1>1. CASE Loading(j)
  <2>1. cache'.at = "loaded" /\ cache'.hits = jobs[j].hits
    BY <1>1 DEF MatcherLoaded, Cached
  <2>2. NoneInvalidates => jobs[j].hits = Compiled
    BY <1>1 DEF CacheInv, ReadIsFresh, Loading, MatcherLoaded
  <2>3. CacheFresh'
    BY <1>0, <2>1, <2>2, CompiledStays DEF CacheFresh, NoneInvalidates
  <2> QED
    BY <2>1, <2>3 DEF CacheInv, LoaderWorks, ReadIsFresh
<1>2. CASE ~Loading(j)
  <2>1. UNCHANGED cache
    BY <1>2 DEF MatcherLoaded, Cached
  <2>2. cache.at = "loading" => cache.by \in Jobs /\ jobs'[cache.by] = jobs[cache.by]
    BY <1>2, OtherPromise DEF MatcherLoaded, Loading
  <2>3. LoaderWorks'
    BY <2>1, <2>2 DEF CacheInv, LoaderWorks
  <2>4. ReadIsFresh'
    BY <1>0, <2>1, <2>2, CompiledStays DEF CacheInv, ReadIsFresh, NoneInvalidates
  <2>5. CacheFresh'
    BY <1>0, <2>1, CompiledStays DEF CacheInv, CacheFresh
  <2> QED
    BY <2>3, <2>4, <2>5 DEF CacheInv
<1> QED
  BY <1>1, <1>2

LEMMA MatcherFailsCache ==
  ASSUME Typed, CacheInv, NEW j \in Jobs, MatcherFails(j)
  PROVE  CacheInv'
<1>0. UNCHANGED <<rules, writers>>
  BY DEF MatcherFails, tables
<1>1. CASE Loading(j)
  BY <1>1, CacheDropped DEF MatcherFails
<1>2. CASE ~Loading(j)
  <2>1. UNCHANGED cache
    BY <1>2 DEF MatcherFails
  <2>2. cache.at = "loading" => cache.by \in Jobs /\ jobs'[cache.by] = jobs[cache.by]
    BY <1>2, OtherPromise DEF MatcherFails, Loading
  <2>3. LoaderWorks'
    BY <2>1, <2>2 DEF CacheInv, LoaderWorks
  <2>4. ReadIsFresh'
    BY <1>0, <2>1, <2>2, CompiledStays DEF CacheInv, ReadIsFresh, NoneInvalidates
  <2>5. CacheFresh'
    BY <1>0, <2>1, CompiledStays DEF CacheInv, CacheFresh
  <2> QED
    BY <2>3, <2>4, <2>5 DEF CacheInv
<1> QED
  BY <1>1, <1>2

\* A write of a rule: until its request has dropped the cache, nothing is
\* claimed of it.
LEMMA WriterCache ==
  ASSUME Typed, CacheInv, NEW w \in Writers, WriterStep(w)
  PROVE  CacheInv'
<1>0. writers \in [Writers -> WriterOK]
  BY DEF Typed
<1>1. ASSUME writers'[w].at = "invalidate", UNCHANGED <<cache, jobs>> PROVE CacheInv'
  <2>1. ~NoneInvalidates'
    BY <1>1 DEF NoneInvalidates
  <2>2. LoaderWorks'
    BY <1>1 DEF CacheInv, LoaderWorks
  <2>3. ReadIsFresh'
    BY <2>1 DEF ReadIsFresh
  <2>4. CacheFresh'
    BY <2>1 DEF CacheFresh, NoneInvalidates
  <2> QED
    BY <2>2, <2>3, <2>4 DEF CacheInv
<1>2. ASSUME writers[w].at \in {"idle", "write"}, UNCHANGED <<rules, cache, jobs>>,
             \A v \in Writers \ {w} : writers'[v] = writers[v]
      PROVE  CacheInv'
  BY <1>2, CacheKept DEF NoneInvalidates
<1>3. CASE WriteBegin(w)
  BY <1>0, <1>2, <1>3 DEF WriteBegin, tables
<1>4. CASE RuleCreate(w)
  <2>1. UNCHANGED <<cache, jobs>> /\ writers[w].at = "write"
    BY <1>4 DEF RuleCreate
  <2>2. CASE \E rule \in Rule : Write(w, rule)
    BY <1>1, <2>1, <2>2, WriteType
  <2> QED
    BY <1>0, <1>2, <1>4, <2>1, <2>2, CreateIs
<1>5. CASE RuleUpdate(w)
  <2>1. UNCHANGED <<cache, jobs>> /\ writers[w].at = "write"
    BY <1>5 DEF RuleUpdate
  <2>2. CASE \E rule \in Rule : Write(w, rule)
    BY <1>1, <2>1, <2>2, WriteType
  <2> QED
    BY <1>0, <1>2, <1>5, <2>1, <2>2, UpdateIs
<1>6. CASE RuleRemove(w)
  <2>1. UNCHANGED <<cache, jobs>>
    BY <1>6 DEF RuleRemove
  <2>2. CASE \E rule \in Rule : Write(w, rule)
    BY <1>1, <2>1, <2>2, WriteType
  <2>3. CASE writers' = [writers EXCEPT ![w].at = "invalidate"]
    BY <1>1, <2>1, <2>3, WriterGoesOn
  <2> QED
    BY <1>6, <2>2, <2>3, RemoveIs
<1>7. CASE Invalidate(w)
  BY <1>7, CacheDropped DEF Invalidate
<1> QED
  BY <1>3, <1>4, <1>5, <1>6, <1>7 DEF WriterStep

\* The steps of the others.
LEMMA OthersCache ==
  ASSUME CacheInv, UNCHANGED <<rules, cache, jobs, writers>>
  PROVE  CacheInv'
  BY CacheKept DEF NoneInvalidates

LEMMA NextCache == ASSUME Typed, CacheInv, [Next]_vars PROVE CacheInv'
<1>1. ASSUME NEW j \in Jobs, JobStep(j) PROVE CacheInv'
  BY <1>1, JobsCache, GetMatcherCache, LoadMatcherCache, MatcherLoadedCache, MatcherFailsCache DEF JobStep
<1>2. ASSUME NEW p \in Callers, CallStep(p) PROVE CacheInv'
  BY <1>2, OthersCache DEF CallStep, ClassifyAnswer, ClassifyWrite, tables
<1>3. ASSUME NEW b \in Runs, RunStep(b) PROVE CacheInv'
  <2>1. UNCHANGED <<rules, cache, jobs, writers>>
    BY <1>3 DEF RunStep, RunBegin, RunLoad, RunScan, RunRewrite, RunRelease, RunClassify, RunReturned,
       RunRecord, RunFailed, RunRestore, RunEnd, tables
  <2> QED
    BY <2>1, OthersCache
<1>4. ASSUME NEW u \in Undos, UndoStep(u) PROVE CacheInv'
  <2>1. UNCHANGED <<rules, cache, jobs, writers>>
    BY <1>4 DEF UndoStep, UndoBegin, UndoRead, UndoApply, UndoEnd, tables
  <2> QED
    BY <2>1, OthersCache
<1>5. ASSUME NEW v \in Reviewers, ReviewStep(v) PROVE CacheInv'
  <2>1. UNCHANGED <<rules, cache, jobs, writers>>
    BY <1>5 DEF ReviewStep, ReviewFind, ReviewDelete, ReviewDecide, tables
  <2> QED
    BY <2>1, OthersCache
<1>6. CASE Crash
  BY <1>6, CacheDropped DEF Crash
<1>7. CASE UNCHANGED vars
  BY <1>7, OthersCache DEF vars
<1> QED
  BY <1>1, <1>2, <1>3, <1>4, <1>5, <1>6, <1>7, WriterCache DEF Next

\* What is cached is what the rules compile to, but while a write is about to
\* drop it (sender-rules.service.ts, getMatcher and invalidateMatcherCache).
THEOREM CacheStaysFresh == Spec => []CacheFresh
<1>1. ASSUME Init PROVE CacheInv
  <2>1. cache.at = "none"
    BY <1>1 DEF Init, InUse, NoCache
  <2> QED
    BY <2>1 DEF CacheInv, LoaderWorks, ReadIsFresh, CacheFresh
<1>2. ASSUME Typed, CacheInv, [Next]_vars PROVE CacheInv'
  BY <1>2, NextCache
<1>3. CacheInv => CacheFresh
  BY DEF CacheInv
<1> QED
  BY <1>1, <1>2, <1>3, AlwaysTyped, PTL DEF Spec

----------------------------------------------------------------------------
(* Rows and the log: frames.                                               *)

\* A change of a row and of its entry in the log of a batch, in one step.
Change(b, e, row, rev) ==
    rows' = [rows EXCEPT ![e] = row] /\ revs' = [revs EXCEPT ![b] = [revs[b] EXCEPT ![e] = rev]]

LEMMA ChangeIs ==
  ASSUME Typed, NEW b \in Runs, NEW e \in Emails, NEW row \in Row, NEW rev \in Rev,
         Change(b, e, row, rev)
  PROVE  /\ rows'[e] = row /\ \A f \in Emails \ {e} : rows'[f] = rows[f]
         /\ revs'[b][e] = rev /\ \A f \in Emails \ {e} : revs'[b][f] = revs[b][f]
         /\ \A q \in Runs \ {b} : revs'[q] = revs[q]
<1>1. rows \in [Emails -> Row] /\ revs \in [Runs -> [Emails -> Rev]] /\ revs[b] \in [Emails -> Rev]
  BY DEF Typed
<1>2. [revs[b] EXCEPT ![e] = rev] \in [Emails -> Rev]
  BY <1>1
<1> QED
  BY <1>1, <1>2 DEF Change

\* What leaves the log, the runs and the undos alone, and no email without
\* the row it had; a run's call may move on.
LEMMA CallsMove ==
  ASSUME RowInv, UNCHANGED <<rules, revs, runs, undos>>, NoRowIsBlank',
         \A e \in Emails : HasRow(e) => HasRow(e)',
         \A b \in Runs :
           \/ calls'[b] = calls[b]
           \/ /\ runs[b].at \in {"call", "record"}
              /\ runs[b].at = "call" => \A c \in runs[b].cur :
                   c.mail = calls'[b].mail
                   /\ (calls'[b].at = "done" /\ c.mail \in Emails => HasRow(c.mail)')
  PROVE  RowInv'
<1>1. RuleWas'
  BY DEF RowInv, RuleWas
<1>2. ASSUME NEW b \in Runs PROVE RunLog(b)' /\ RunCall(b)'
  <2>1. RunLog(b)'
    BY DEF RowInv, RunLog, Open
  <2>2. RunCall(b)'
    BY DEF RowInv, RunCall
  <2> QED
    BY <2>1, <2>2
<1>3. ASSUME NEW u \in Undos PROVE UndoLog(u)'
  BY DEF RowInv, UndoLog, UndoIsOf
<1>4. ReleasedIsAnswered'
  <2> SUFFICES ASSUME NEW e \in Emails, NEW p \in Runs, revs'[p][e].act = "release", ~HasRow(e)'
               PROVE  \E b \in Runs : Answers(b, e)'
    BY DEF ReleasedIsAnswered
  <2>1. PICK b \in Runs : Answers(b, e)
    BY DEF RowInv, ReleasedIsAnswered
  <2>2. CASE At(b, e)
    <3>1. calls'[b].at # "done"
      BY <2>1, <2>2 DEF Answers, At
    <3> QED
      BY <2>1, <2>2, <3>1 DEF Answers, At
  <2>3. CASE ~At(b, e)
    BY <2>1, <2>3 DEF Answers, At
  <2> QED
    BY <2>2, <2>3
<1> QED
  BY <1>1, <1>2, <1>3, <1>4 DEF RowInv

\* A step of a run that has not ended.
OnlyRun(b) ==
    /\ \A q \in Runs \ {b} : runs'[q] = runs[q] /\ calls'[q] = calls[q] /\ revs'[q] = revs[q]
    /\ UNCHANGED <<rules, undos>> /\ runs[b].at \notin {"done", "dead"}

LEMMA RunMoves ==
  ASSUME Typed, RowInv, NEW b \in Runs, OnlyRun(b), NoRowIsBlank',
         runs'[b].rule = runs[b].rule \/ rules[runs'[b].rule].state # "new",
         RunLog(b)', RunCall(b)',
         \A e \in Emails :
           (\E q \in Runs : revs'[q][e].act = "release") /\ ~HasRow(e)' =>
             \/ Answers(b, e)'
             \/ /\ \E q \in Runs : revs[q][e].act = "release"
                /\ ~HasRow(e) /\ ~Answers(b, e)
  PROVE  RowInv'
<1>1. RuleWas'
  BY DEF RowInv, RuleWas, OnlyRun
<1>2. ASSUME NEW q \in Runs \ {b} PROVE RunLog(q)' /\ RunCall(q)'
  <2>1. RunLog(q)'
    BY DEF RowInv, RunLog, Open, OnlyRun
  <2>2. RunCall(q)'
    BY DEF RowInv, RunCall, OnlyRun
  <2> QED
    BY <2>1, <2>2
<1>3. ASSUME NEW u \in Undos PROVE UndoLog(u)'
  <2>1. undos[u].at \in {"next", "apply"} => undos[u].batch \in Runs \ {b}
    BY DEF RowInv, UndoLog, OnlyRun, Typed, UndoOK
  <2>2. undos[u].at \in {"next", "apply"} =>
          runs'[undos[u].batch] = runs[undos[u].batch] /\ revs'[undos[u].batch] = revs[undos[u].batch]
    BY <2>1 DEF OnlyRun
  <2>3. undos'[u] = undos[u] /\ UndoLog(u)
    BY DEF OnlyRun, RowInv
  <2> QED
    BY <2>2, <2>3 DEF UndoLog, UndoIsOf
<1>4. ReleasedIsAnswered'
  <2> SUFFICES ASSUME NEW e \in Emails, (\E q \in Runs : revs'[q][e].act = "release"), ~HasRow(e)',
                      ~Answers(b, e)'
               PROVE  \E q \in Runs : Answers(q, e)'
    BY DEF ReleasedIsAnswered
  <2>1. PICK q \in Runs \ {b} : Answers(q, e)
    BY DEF RowInv, ReleasedIsAnswered
  <2>2. Answers(q, e)'
    BY <2>1 DEF Answers, At, OnlyRun
  <2> QED
    BY <2>2
<1> QED
  BY <1>1, <1>2, <1>3, <1>4 DEF RowInv

\* A run that goes on and changes no row.
LEMMA RunMovesOn ==
  ASSUME Typed, RowInv, NEW b \in Runs, OnlyRun(b), UNCHANGED <<rows, revs>>,
         runs'[b].rule = runs[b].rule \/ (runs[b].at = "idle" /\ rules[runs'[b].rule].state # "new"),
         runs'[b].at \in {"idle", "load", "scan"} => runs[b].at \in {"idle", "load", "scan"},
         \A c \in runs'[b].todo : c.mail \in Emails /\ (c \in runs[b].todo \/ runs[b].at \in {"idle", "load", "scan"}),
         runs'[b].cur \subseteq runs[b].cur, RunCall(b)',
         \A e \in Emails : Answers(b, e) /\ ~HasRow(e) => Answers(b, e)'
  PROVE  RowInv'
<1>1. NoRowIsBlank'
  BY DEF RowInv, NoRowIsBlank, HasRow
<1>2. RunLog(b)'
  <2>1. RunLog(b) /\ revs' = revs
    BY DEF RowInv
  <2>2. \A c \in runs'[b].todo : revs[b][c.mail].act = "none"
    BY <2>1 DEF RunLog
  <2>3. \A c \in runs'[b].cur : Open(b, c)'
    BY <2>1 DEF RunLog, Open
  <2> QED
    BY <2>1, <2>2, <2>3 DEF RunLog
<1>3. ASSUME NEW e \in Emails PROVE HasRow(e)' <=> HasRow(e)
  BY DEF HasRow
<1> QED
  BY <1>1, <1>2, <1>3, RunMoves DEF RowInv

----------------------------------------------------------------------------
(* Rows and the log: classification, reviews, and writes of rules.         *)

LEMMA RowsStay == ASSUME RowInv, UNCHANGED rows PROVE NoRowIsBlank' /\ \A e \in Emails : HasRow(e) => HasRow(e)'
  BY DEF RowInv, NoRowIsBlank, HasRow

LEMMA UpsertIs ==
  ASSUME Typed, NEW e \in Emails, NEW s \in Snap, Upsert(e, s)
  PROVE  /\ rows'[e].id # 0 /\ rows'[e].snap = s
         /\ HasRow(e) => rows'[e].id = rows[e].id /\ rows'[e].reviewed = rows[e].reviewed
         /\ ~HasRow(e) => ~rows'[e].reviewed
         /\ \A f \in Emails \ {e} : rows'[f] = rows[f]
<1>0. rows \in [Emails -> Row] /\ rows[e] \in Row /\ born[e] \in Nat
  BY DEF Typed
<1>1. CASE HasRow(e)
  <2> DEFINE x == [rows[e] EXCEPT !.snap = s]
  <2>1. x.id = rows[e].id /\ x.snap = s /\ x.reviewed = rows[e].reviewed
    BY <1>0 DEF Row
  <2>2. rows' = [rows EXCEPT ![e] = x]
    BY <1>1 DEF Upsert
  <2> HIDE DEF x
  <2>3. rows'[e] = x /\ \A f \in Emails \ {e} : rows'[f] = rows[f]
    BY <1>0, <2>2
  <2> QED
    BY <1>1, <2>1, <2>3 DEF HasRow
<1>2. CASE ~HasRow(e)
  <2> DEFINE x == NewRow(born[e] + 1, s)
  <2>1. x.id # 0 /\ x.snap = s /\ ~x.reviewed
    BY <1>0 DEF NewRow
  <2>2. rows' = [rows EXCEPT ![e] = x]
    BY <1>2 DEF Upsert
  <2> HIDE DEF x
  <2>3. rows'[e] = x /\ \A f \in Emails \ {e} : rows'[f] = rows[f]
    BY <1>0, <2>2
  <2> QED
    BY <1>2, <2>1, <2>3
<1> QED
  BY <1>1, <1>2

LEMMA UpsertRows ==
  ASSUME Typed, RowInv, NEW e \in Emails, NEW s \in Snap, Upsert(e, s)
  PROVE  NoRowIsBlank' /\ HasRow(e)' /\ \A f \in Emails : HasRow(f) => HasRow(f)'
  BY UpsertIs DEF RowInv, NoRowIsBlank, HasRow

\* What a job writes.
LEMMA JobRuleIs ==
  ASSUME Typed, NEW j \in Jobs, JobRule(j)
  PROVE  UNCHANGED rows \/ \E e \in Emails, s \in Snap : Upsert(e, s)
<1> DEFINE e == Newest(jobs[j].todo)
           h == jobs[j].hits[e]
<1>1. jobs[j] \in Job
  BY DEF Typed, JobOK
<1>2. e \in Emails
  BY <1>1, NewestIs DEF Job, JobRule
<1>3. h \in Hit
  BY <1>1, <1>2 DEF Job, Matcher
<1>4. RuleSnap(h) \in Snap
  BY <1>3, RuleSnapType
<1>5. UNCHANGED rows \/ Upsert(e, RuleSnap(h))
  BY DEF JobRule
<1> QED
  BY <1>2, <1>4, <1>5

LEMMA JobRows ==
  ASSUME Typed, RowInv, NEW j \in Jobs, JobStep(j)
  PROVE  RowInv'
<1>1. calls \in [Callers -> CallOK] /\ j \notin Runs
  BY DEF Typed
<1>2. UNCHANGED <<rules, revs, runs, undos>>
  BY DEF JobStep, JobBegin, JobBeginOne, JobMatchOne, GetMatcher, LoadMatcher, MatcherLoaded, MatcherFails,
     JobRule, JobGate, JobNext, JobResume, JobEnd, tables
<1>3. ASSUME NEW b \in Runs PROVE calls'[b] = calls[b]
  <2>1. CASE JobBeginOne(j)
    BY <1>1, <2>1 DEF JobBeginOne
  <2>2. CASE JobMatchOne(j)
    BY <1>1, <2>2 DEF JobMatchOne
  <2>3. CASE MatcherFails(j)
    BY <1>1, <2>3 DEF MatcherFails, Awaiting
  <2>4. CASE JobNext(j)
    BY <1>1, <2>4 DEF JobNext
  <2>5. CASE JobResume(j)
    BY <1>1, <2>5 DEF JobResume
  <2>6. CASE UNCHANGED calls
    BY <2>6
  <2> QED
    BY <2>1, <2>2, <2>3, <2>4, <2>5, <2>6 DEF JobStep, JobBegin, GetMatcher, LoadMatcher, MatcherLoaded,
       JobRule, JobGate, JobEnd
<1>4. UNCHANGED rows \/ \E e \in Emails, s \in Snap : Upsert(e, s)
  <2>1. CASE JobRule(j)
    BY <2>1, JobRuleIs
  <2>2. CASE UNCHANGED rows
    BY <2>2
  <2> QED
    BY <2>1, <2>2 DEF JobStep, JobBegin, JobBeginOne, JobMatchOne, GetMatcher, LoadMatcher, MatcherLoaded,
       MatcherFails, JobGate, JobNext, JobResume, JobEnd, tables
<1>5. NoRowIsBlank' /\ \A e \in Emails : HasRow(e) => HasRow(e)'
  BY <1>4, RowsStay, UpsertRows
<1> QED
  BY <1>2, <1>3, <1>5, CallsMove

\* What a call writes, and what it comes to.
LEMMA WriteIs ==
  ASSUME Typed, NEW p \in Callers, ClassifyWrite(p)
  PROVE  /\ calls[p].mail \in Emails /\ calls[p].snap \in Snap
         /\ UNCHANGED rows \/ Upsert(calls[p].mail, calls[p].snap)
         /\ calls'[p].mail = calls[p].mail /\ \A q \in Callers \ {p} : calls'[q] = calls[q]
         /\ calls'[p].at = "done" => Upsert(calls[p].mail, calls[p].snap)
<1>1. calls \in [Callers -> CallOK] /\ calls[p] \in Call /\ calls[p].mail \in Emails /\ calls[p].snap \in Snap
  BY DEF Typed, CallOK, Call, ClassifyWrite
<1>2. CASE LinkHolds(calls[p].snap)
  BY <1>1, <1>2 DEF ClassifyWrite, Call
<1>3. CASE ~LinkHolds(calls[p].snap)
  BY <1>1, <1>3 DEF ClassifyWrite, Call
<1> QED
  BY <1>1, <1>2, <1>3

LEMMA CallRows ==
  ASSUME Typed, RowInv, NEW p \in Callers, CallStep(p)
  PROVE  RowInv'
<1>0. calls \in [Callers -> CallOK] /\ \A q \in Callers : calls[q] \in Call
  BY DEF Typed, CallOK
<1>c. p \in Runs /\ calls[p].at # "none" =>
        runs[p].at \in {"call", "record"} /\ (runs[p].at = "call" => \A c \in runs[p].cur : c.mail = calls[p].mail)
  BY DEF RowInv, RunCall
<1>1. CASE ClassifyAnswer(p)
  <2>1. UNCHANGED <<rules, revs, runs, undos, rows>> /\ calls[p].at = "ask"
    BY <1>1 DEF ClassifyAnswer, tables
  <2>2. calls'[p].mail = calls[p].mail /\ calls'[p].at # "done" /\ \A q \in Callers \ {p} : calls'[q] = calls[q]
    <3>1. CASE \E s \in AiSnaps : calls' = [calls EXCEPT ![p].at = "write", ![p].snap = s]
      BY <1>0, <3>1 DEF Call
    <3>2. CASE \E f \in {"open", "ai"} : calls' = [calls EXCEPT ![p].at = f]
      BY <1>0, <3>2 DEF Call
    <3> QED
      BY <1>1, <3>1, <3>2 DEF ClassifyAnswer
  <2>3. NoRowIsBlank' /\ \A e \in Emails : HasRow(e) => HasRow(e)'
    BY <2>1, RowsStay
  <2> QED
    BY <1>c, <2>1, <2>2, <2>3, CallsMove
<1>2. CASE ClassifyWrite(p)
  <2>1. UNCHANGED <<rules, revs, runs, undos>> /\ calls[p].at = "write"
    BY <1>2 DEF ClassifyWrite
  <2>2. NoRowIsBlank' /\ \A e \in Emails : HasRow(e) => HasRow(e)'
    BY <1>2, WriteIs, RowsStay, UpsertRows
  <2>3. calls'[p].at = "done" => HasRow(calls[p].mail)'
    BY <1>2, WriteIs, UpsertRows
  <2>4. calls'[p].mail = calls[p].mail /\ \A q \in Callers \ {p} : calls'[q] = calls[q]
    BY <1>2, WriteIs
  <2> QED
    BY <1>c, <2>1, <2>2, <2>3, <2>4, CallsMove
<1> QED
  BY <1>1, <1>2 DEF CallStep

\* A review changes nothing but whether the row has a decision.
LEMMA ReviewIs ==
  ASSUME Typed, NEW v \in Reviewers, ReviewStep(v)
  PROVE  /\ UNCHANGED <<rules, revs, runs, undos, calls>>
         /\ \/ UNCHANGED rows
            \/ \E e \in Emails, d \in BOOLEAN :
                 HasRow(e) /\ rows' = [rows EXCEPT ![e] = [id |-> rows[e].id, snap |-> rows[e].snap, reviewed |-> d]]
<1>1. UNCHANGED <<rules, revs, runs, undos, calls>>
  BY DEF ReviewStep, ReviewFind, ReviewDelete, ReviewDecide, tables
<1> DEFINE e == reviews[v].mail
<1>2. ASSUME NEW d \in BOOLEAN, rows' = [rows EXCEPT ![e].reviewed = d]
      PROVE  UNCHANGED rows \/ rows' = [rows EXCEPT ![e] = [id |-> rows[e].id, snap |-> rows[e].snap, reviewed |-> d]]
  <2>1. rows \in [Emails -> Row] /\ (e \in Emails => rows[e] \in Row)
    BY DEF Typed
  <2>2. CASE e \in Emails
    <3> DEFINE x == [rows[e] EXCEPT !.reviewed = d]
    <3>1. x = [id |-> rows[e].id, snap |-> rows[e].snap, reviewed |-> d]
      BY <2>1, <2>2 DEF Row
    <3> QED
      BY <1>2, <3>1
  <2>3. CASE e \notin Emails
    BY <1>2, <2>1, <2>3
  <2> QED
    BY <2>2, <2>3
<1>3. CASE e \in Emails
  <2>1. CASE ReviewFind(v)
    BY <1>1, <2>1 DEF ReviewFind, tables
  <2>2. CASE ReviewDelete(v)
    BY <1>1, <1>2, <1>3, <2>2 DEF ReviewDelete, RowIs
  <2>3. CASE ReviewDecide(v)
    BY <1>1, <1>2, <1>3, <2>3 DEF ReviewDecide, RowIs
  <2> QED
    BY <2>1, <2>2, <2>3 DEF ReviewStep
<1>4. CASE e \notin Emails
  <2>1. rows \in [Emails -> Row]
    BY DEF Typed
  <2>2. UNCHANGED rows
    BY <1>4, <2>1 DEF ReviewStep, ReviewFind, ReviewDelete, ReviewDecide, tables
  <2> QED
    BY <1>1, <2>2
<1> QED
  BY <1>3, <1>4

LEMMA ReviewRows ==
  ASSUME Typed, RowInv, NEW v \in Reviewers, ReviewStep(v)
  PROVE  RowInv'
<1>1. UNCHANGED <<rules, revs, runs, undos, calls>>
  BY ReviewIs
<1>2. CASE UNCHANGED rows
  BY <1>1, <1>2, RowsStay, CallsMove
<1>3. CASE \E e \in Emails, d \in BOOLEAN :
             HasRow(e) /\ rows' = [rows EXCEPT ![e] = [id |-> rows[e].id, snap |-> rows[e].snap, reviewed |-> d]]
  <2>1. PICK e \in Emails, d \in BOOLEAN :
          HasRow(e) /\ rows' = [rows EXCEPT ![e] = [id |-> rows[e].id, snap |-> rows[e].snap, reviewed |-> d]]
    BY <1>3
  <2>2. rows \in [Emails -> Row]
    BY DEF Typed
  <2>3. NoRowIsBlank' /\ \A f \in Emails : HasRow(f) => HasRow(f)'
    BY <2>1, <2>2 DEF RowInv, NoRowIsBlank, HasRow
  <2> QED
    BY <1>1, <2>3, CallsMove
<1> QED
  BY <1>2, <1>3, ReviewIs

\* A rule that has been stored is not new again, and one that is gone stays so.
LEMMA RulesMove ==
  ASSUME Typed, RowInv, UNCHANGED <<revs, runs, undos, calls>>, NoRowIsBlank',
         \A e \in Emails : HasRow(e) => HasRow(e)',
         \A r \in Rules : /\ rules[r].state # "new" => rules'[r].state # "new"
                          /\ rules[r].state = "gone" => rules'[r].state = "gone"
  PROVE  RowInv'
<1>1. RuleWas'
  BY DEF RowInv, RuleWas
<1>2. ASSUME NEW b \in Runs PROVE RunLog(b)' /\ RunCall(b)'
  BY DEF RowInv, RunLog, RunCall, Open
<1>3. ASSUME NEW u \in Undos PROVE UndoLog(u)'
  BY DEF RowInv, UndoLog, UndoIsOf
<1>4. ReleasedIsAnswered'
  <2> SUFFICES ASSUME NEW e \in Emails, NEW p \in Runs, revs'[p][e].act = "release", ~HasRow(e)'
               PROVE  \E b \in Runs : Answers(b, e)'
    BY DEF ReleasedIsAnswered
  <2>1. PICK b \in Runs : Answers(b, e)
    BY DEF RowInv, ReleasedIsAnswered
  <2> QED
    BY <2>1 DEF Answers, At
<1> QED
  BY <1>1, <1>2, <1>3, <1>4 DEF RowInv

LEMMA WriteMoves ==
  ASSUME Typed, NEW w \in Writers, NEW rule \in Rule, Write(w, rule), writers[w].at = "write",
         \/ rules[writers[w].rule].state = "new" /\ rule.state = "stored"
         \/ Stored(writers[w].rule) /\ rule.state # "new"
  PROVE  \A r \in Rules : /\ rules[r].state # "new" => rules'[r].state # "new"
                          /\ rules[r].state = "gone" => rules'[r].state = "gone"
<1>1. rules \in [Rules -> Rule] /\ writers[w].rule \in Rules
  BY DEF Typed, WriterOK
<1>2. rules' = [rules EXCEPT ![writers[w].rule] = rule]
  BY DEF Write
<1> QED
  BY <1>1, <1>2 DEF Stored

\* The rows of a deleted rule stay.
LEMMA UnlinkedIs ==
  ASSUME Typed, NEW r \in Rules, rows' = Unlinked(r)
  PROVE  \A e \in Emails :
           /\ rows'[e].id = rows[e].id /\ rows'[e].reviewed = rows[e].reviewed
           /\ rows[e].snap.link # r => rows'[e] = rows[e]
<1> SUFFICES ASSUME NEW e \in Emails
             PROVE  /\ rows'[e].id = rows[e].id /\ rows'[e].reviewed = rows[e].reviewed
                    /\ rows[e].snap.link # r => rows'[e] = rows[e]
  OBVIOUS
<1>1. rows[e] \in Row
  BY DEF Typed
<1>2. rows'[e] = IF rows[e].snap.link = r THEN [rows[e] EXCEPT !.snap.link = None] ELSE rows[e]
  BY DEF Unlinked
<1> QED
  BY <1>1, <1>2 DEF Row

LEMMA UnlinkedRows ==
  ASSUME Typed, RowInv, NEW r \in Rules, rows' = Unlinked(r)
  PROVE  NoRowIsBlank' /\ \A e \in Emails : HasRow(e) => HasRow(e)'
<1>1. NoSnap.link # r
  BY DEF NoSnap
<1> QED
  BY <1>1, UnlinkedIs DEF RowInv, NoRowIsBlank, HasRow

LEMMA WriterRows ==
  ASSUME Typed, RowInv, NEW w \in Writers, WriterStep(w)
  PROVE  RowInv'
<1>0. UNCHANGED <<revs, runs, undos, calls>>
  BY DEF WriterStep, WriteBegin, RuleCreate, RuleUpdate, RuleRemove, Invalidate, tables
<1>1. CASE UNCHANGED <<rules, rows>>
  BY <1>0, <1>1, RowsStay, RulesMove
<1>2. CASE WriteBegin(w) \/ Invalidate(w)
  BY <1>1, <1>2 DEF WriteBegin, Invalidate, tables
<1>3. CASE RuleCreate(w)
  <2>1. UNCHANGED rows /\ writers[w].at = "write"
    BY <1>3 DEF RuleCreate
  <2>2. CASE \E rule \in Rule : Write(w, rule) /\ rule.state = "stored" /\ rules[writers[w].rule].state = "new"
    BY <1>0, <2>1, <2>2, RowsStay, WriteMoves, RulesMove
  <2> QED
    BY <1>1, <1>3, <2>1, <2>2, CreateIs
<1>4. CASE RuleUpdate(w)
  <2>1. UNCHANGED rows /\ writers[w].at = "write"
    BY <1>4 DEF RuleUpdate
  <2>2. CASE \E rule \in Rule : Write(w, rule) /\ rule.state = "stored" /\ Stored(writers[w].rule)
    BY <1>0, <2>1, <2>2, RowsStay, WriteMoves, RulesMove
  <2> QED
    BY <1>1, <1>4, <2>1, <2>2, UpdateIs
<1>5. CASE RuleRemove(w)
  <2>1. writers[w].at = "write" /\ writers[w].rule \in Rules
    BY <1>5 DEF RuleRemove, Typed, WriterOK
  <2>2. CASE \E rule \in Rule : /\ Write(w, rule) /\ rule.state = "gone"
                                /\ Stored(writers[w].rule) /\ rows' = Unlinked(writers[w].rule)
    BY <1>0, <2>1, <2>2, UnlinkedRows, WriteMoves, RulesMove
  <2> QED
    BY <1>1, <1>5, <2>2, RemoveIs
<1> QED
  BY <1>2, <1>3, <1>4, <1>5 DEF WriterStep

----------------------------------------------------------------------------
(* Rows and the log: what a run and an undo do to them.                    *)

LEMMA CandOf ==
  ASSUME Typed, NEW b \in Runs, NEW c \in runs[b].todo \cup runs[b].cur
  PROVE  /\ c \in Cand /\ c.mail \in Emails /\ c.id \in Nat /\ c.id # 0 /\ c.prev \in Snap /\ c.next \in Snap
         /\ c.act = "release" => c.prev.link = runs[b].rule
<1>1. runs[b] \in RunOK /\ runs[b] \in Run
  BY DEF Typed, RunOK
<1>2. c \in Cand
  BY <1>1 DEF Run
<1> QED
  BY <1>1, <1>2, CandIs DEF RunOK

\* Where a run is after a step, with what candidates.
RunIs(b, at, todo, cur) ==
    /\ runs'[b].at = at /\ runs'[b].rule = runs[b].rule /\ runs'[b].todo = todo /\ runs'[b].cur = cur
    /\ \A q \in Runs \ {b} : runs'[q] = runs[q]

\* The entry of a candidate in the log.
EntryOf(c, status, next) == [act |-> c.act, status |-> status, id |-> c.id, prev |-> c.prev,
                             next |-> next, undone |-> FALSE]

LEMMA EntryType ==
  ASSUME NEW c \in Cand, NEW status \in {"applied", "deferred", "marked_review"}, NEW next \in Snap
  PROVE  EntryOf(c, status, next) \in Rev
  BY CandIs DEF EntryOf, Rev

LEMMA EntryHas ==
  ASSUME Typed, NEW b \in Runs, NEW e \in Emails
  PROVE  revs[b][e] \in Rev /\ rows[e] \in Row
<1>1. revs \in [Runs -> [Emails -> Rev]] /\ rows \in [Emails -> Row]
  BY DEF Typed
<1> QED
  BY <1>1

LEMMA RowWith ==
  ASSUME NEW r \in Row, NEW s \in Snap, r.reviewed = FALSE
  PROVE  [r EXCEPT !.snap = s] = NewRow(r.id, s)
<1> DEFINE x == [r EXCEPT !.snap = s]
<1>1. x \in Row /\ x.id = r.id /\ x.snap = s /\ x.reviewed = FALSE
  BY DEF Row
<1> HIDE DEF x
<1>2. x = [id |-> x.id, snap |-> x.snap, reviewed |-> x.reviewed]
  BY <1>1 DEF Row
<1>3. x = NewRow(r.id, s)
  BY <1>1, <1>2 DEF NewRow
<1> QED
  BY <1>3 DEF x

\* A candidate whose row is as scanned, with no decision.
LEMMA UntouchedIs ==
  ASSUME Typed, NEW c \in Cand, Untouched(c)
  PROVE  rows[c.mail] = NewRow(c.id, c.prev)
<1>1. rows[c.mail] \in Row
  BY CandIs DEF Typed
<1> QED
  BY <1>1 DEF Row, Untouched, NewRow

LEMMA RewriteIs ==
  ASSUME Typed, NEW b \in Runs, RunRewrite(b)
  PROVE  \E c \in runs[b].todo, next \in Snap :
           /\ RunIs(b, "next", runs[b].todo \ {c}, runs[b].cur)
           /\ \/ UNCHANGED <<rows, revs>>
              \/ \E status \in {"applied", "marked_review"} :
                   /\ rows[c.mail] = NewRow(c.id, c.prev)
                   /\ Change(b, c.mail, NewRow(c.id, next), EntryOf(c, status, next))
<1>1. PICK c \in runs[b].todo :
        /\ runs' = [runs EXCEPT ![b].todo = @ \ {c}]
        /\ \/ /\ Untouched(c)
              /\ rows' = [rows EXCEPT ![c.mail].snap = IF c.act = "release" THEN Flagged(b, c.prev) ELSE c.next]
              /\ Logged(b, c, IF c.act = "release" THEN "marked_review" ELSE "applied",
                        IF c.act = "release" THEN Flagged(b, c.prev) ELSE c.next)
           \/ UNCHANGED <<rows, revs>>
  BY DEF RunRewrite
<1> DEFINE next == IF c.act = "release" THEN Flagged(b, c.prev) ELSE c.next
           status == IF c.act = "release" THEN "marked_review" ELSE "applied"
<1>2. c \in Cand /\ c.mail \in Emails
  BY CandOf
<1>3. next \in Snap /\ status \in {"applied", "marked_review"}
  BY <1>2, CandIs, FlaggedType
<1>4. RunIs(b, "next", runs[b].todo \ {c}, runs[b].cur)
  <2>1. runs \in [Runs -> RunOK] /\ runs[b] \in Run /\ runs[b].at = "next"
    BY DEF Typed, RunOK, RunRewrite
  <2> QED
    BY <1>1, <2>1 DEF RunIs, Run
<1> HIDE DEF next, status
<1>5. CASE UNCHANGED <<rows, revs>>
  BY <1>3, <1>4, <1>5
<1>6. CASE ~UNCHANGED <<rows, revs>>
  <2>1. Untouched(c) /\ rows' = [rows EXCEPT ![c.mail].snap = next] /\ Logged(b, c, status, next)
    BY <1>1, <1>6 DEF next, status
  <2>2. rows[c.mail] = NewRow(c.id, c.prev)
    BY <1>2, <2>1, UntouchedIs
  <2>3. rows' = [rows EXCEPT ![c.mail] = NewRow(c.id, next)]
    <3>1. rows[c.mail] \in Row /\ rows[c.mail].id = c.id /\ rows[c.mail].reviewed = FALSE
      BY <1>2, <2>1 DEF Typed, Untouched, Row
    <3>2. [rows[c.mail] EXCEPT !.snap = next] = NewRow(c.id, next)
      BY <1>3, <3>1, RowWith
    <3> QED
      BY <2>1, <3>2
  <2>4. revs' = [revs EXCEPT ![b] = [revs[b] EXCEPT ![c.mail] = EntryOf(c, status, next)]]
    <3>1. revs \in [Runs -> [Emails -> Rev]]
      BY DEF Typed
    <3> QED
      BY <1>2, <2>1, <3>1 DEF Logged, EntryOf
  <2>5. Change(b, c.mail, NewRow(c.id, next), EntryOf(c, status, next))
    BY <2>3, <2>4 DEF Change
  <2> QED
    BY <1>3, <1>4, <2>2, <2>5
<1> QED
  BY <1>5, <1>6

LEMMA ReleaseIs ==
  ASSUME Typed, NEW b \in Runs, RunRelease(b)
  PROVE  \E c \in runs[b].todo :
           \/ UNCHANGED <<rows, revs>> /\ RunIs(b, "next", runs[b].todo \ {c}, runs[b].cur)
           \/ /\ RunIs(b, "call", runs[b].todo \ {c}, {c})
              /\ c.act = "release" /\ rows[c.mail] = NewRow(c.id, c.prev)
              /\ Change(b, c.mail, NoRow, EntryOf(c, "deferred", NoSnap))
<1>1. PICK c \in runs[b].todo : c.act = "release" /\
        \/ /\ Untouched(c)
           /\ rows' = [rows EXCEPT ![c.mail] = NoRow]
           /\ Logged(b, c, "deferred", NoSnap)
           /\ runs' = [runs EXCEPT ![b].at = "call", ![b].todo = @ \ {c}, ![b].cur = {c}]
        \/ runs' = [runs EXCEPT ![b].todo = @ \ {c}] /\ UNCHANGED <<rows, revs>>
  BY DEF RunRelease, Rewrites
<1>2. c \in Cand /\ c.mail \in Emails
  BY CandOf
<1>3. runs \in [Runs -> RunOK] /\ runs[b] \in Run /\ runs[b].at = "next"
  BY DEF Typed, RunOK, RunRelease
<1>4. CASE runs' = [runs EXCEPT ![b].todo = @ \ {c}] /\ UNCHANGED <<rows, revs>>
  BY <1>3, <1>4 DEF RunIs, Run
<1>5. CASE /\ Untouched(c)
           /\ rows' = [rows EXCEPT ![c.mail] = NoRow]
           /\ Logged(b, c, "deferred", NoSnap)
           /\ runs' = [runs EXCEPT ![b].at = "call", ![b].todo = @ \ {c}, ![b].cur = {c}]
  <2>1. RunIs(b, "call", runs[b].todo \ {c}, {c})
    BY <1>3, <1>5 DEF RunIs, Run
  <2>2. rows[c.mail] = NewRow(c.id, c.prev)
    BY <1>2, <1>5, UntouchedIs
  <2>3. revs' = [revs EXCEPT ![b] = [revs[b] EXCEPT ![c.mail] = EntryOf(c, "deferred", NoSnap)]]
    <3>1. revs \in [Runs -> [Emails -> Rev]]
      BY DEF Typed
    <3> QED
      BY <1>2, <1>5, <3>1 DEF Logged, EntryOf
  <2>4. Change(b, c.mail, NoRow, EntryOf(c, "deferred", NoSnap))
    BY <1>5, <2>3 DEF Change
  <2> QED
    BY <1>1, <2>1, <2>2, <2>4
<1> QED
  BY <1>1, <1>4, <1>5

LEMMA RecordIs ==
  ASSUME Typed, NEW b \in Runs, RunRecord(b)
  PROVE  \E c \in Cand, rev \in Rev :
           /\ runs[b].cur = {c} /\ RunIs(b, "next", runs[b].todo, {})
           /\ rev.act = revs[b][c.mail].act /\ rev.id = revs[b][c.mail].id
           /\ rev.prev = revs[b][c.mail].prev /\ rev.undone = revs[b][c.mail].undone
           /\ UNCHANGED rows /\ Change(b, c.mail, rows[c.mail], rev)
<1>1. PICK c \in Cand : c = Current(b) /\ runs[b].cur = {c} /\ c.mail \in Emails
  BY CurrentIs, CandIs DEF RunRecord, AtRelease
<1> DEFINE rev == [revs[b][c.mail] EXCEPT !.status = "reclassified", !.next = calls[b].snap]
<1>2. RunIs(b, "next", runs[b].todo, {})
  <2>1. runs \in [Runs -> RunOK] /\ runs[b] \in Run
    BY DEF Typed, RunOK
  <2> QED
    BY <2>1 DEF RunIs, Run, RunRecord
<1>3. revs[b][c.mail] \in Rev /\ calls[b].snap \in Snap /\ rows \in [Emails -> Row]
  <2>1. calls[b] \in CallOK /\ rows \in [Emails -> Row]
    BY DEF Typed
  <2>2. calls[b].snap \in Snap
    BY <2>1 DEF CallOK, Call
  <2>3. revs[b][c.mail] \in Rev
    BY <1>1, EntryHas, Zenon
  <2> QED
    BY <2>1, <2>2, <2>3
<1>4. revs' = [revs EXCEPT ![b] = [revs[b] EXCEPT ![c.mail] = rev]]
  <2>1. revs' = [revs EXCEPT ![b][c.mail].status = "reclassified", ![b][c.mail].next = calls[b].snap]
    BY <1>1 DEF RunRecord
  <2>2. PICK e \in Emails : e = c.mail
    BY <1>1, Zenon
  <2>3. revs' = [revs EXCEPT ![b][e].status = "reclassified", ![b][e].next = calls[b].snap]
    BY <2>1, <2>2, Zenon
  <2>4. revs' = [revs EXCEPT ![b] = [revs[b] EXCEPT ![e] =
                  [revs[b][e] EXCEPT !.status = "reclassified", !.next = calls[b].snap]]]
    <3>1. revs \in [Runs -> [Emails -> Rev]]
      BY DEF Typed
    <3> QED
      BY <2>3, <3>1
  <2> QED
    BY <2>2, <2>4, Zenon
<1>5. rev \in Rev /\ rev.act = revs[b][c.mail].act /\ rev.id = revs[b][c.mail].id
      /\ rev.prev = revs[b][c.mail].prev /\ rev.undone = revs[b][c.mail].undone
  BY <1>3 DEF Rev
<1>6. UNCHANGED rows
  BY DEF RunRecord
<1> HIDE DEF rev
<1>7. Change(b, c.mail, rows[c.mail], rev)
  BY <1>1, <1>3, <1>4, <1>6 DEF Change
<1> QED
  BY <1>1, <1>2, <1>5, <1>6, <1>7

LEMMA RestoreIs ==
  ASSUME Typed, NEW b \in Runs, RunRestore(b)
  PROVE  \E c \in Cand :
           /\ runs[b].cur = {c} /\ RunIs(b, "next", runs[b].todo, {})
           /\ \/ UNCHANGED <<rows, revs>> /\ (HasRow(c.mail) \/ ~LinkHolds(Flagged(b, c.prev)))
              \/ \E next \in Snap, rev \in Rev :
                   /\ rev.act = revs[b][c.mail].act /\ rev.id = revs[b][c.mail].id
                   /\ rev.prev = revs[b][c.mail].prev /\ rev.undone = revs[b][c.mail].undone
                   /\ rev.next = next /\ ~HasRow(c.mail) /\ Change(b, c.mail, NewRow(c.id, next), rev)
<1>1. PICK c \in Cand, next \in Snap :
        c = Current(b) /\ next = Flagged(b, c.prev) /\ runs[b].cur = {c} /\ c.mail \in Emails
  BY CurrentIs, CandIs, FlaggedType DEF RunRestore, AtRelease
<1> DEFINE rev == [revs[b][c.mail] EXCEPT !.status = "marked_review", !.next = next]
<1>2. RunIs(b, "next", runs[b].todo, {})
  <2>1. runs \in [Runs -> RunOK] /\ runs[b] \in Run
    BY DEF Typed, RunOK
  <2> QED
    BY <2>1 DEF RunIs, Run, RunRestore
<1>3. CASE ~HasRow(c.mail) /\ LinkHolds(next)
  <2>1. rows' = [rows EXCEPT ![c.mail] = NewRow(c.id, next)]
        /\ revs' = [revs EXCEPT ![b][c.mail].status = "marked_review", ![b][c.mail].next = next]
    BY <1>1, <1>3 DEF RunRestore
  <2>2. revs[b][c.mail] \in Rev
    BY <1>1, EntryHas, Zenon
  <2>3. rev \in Rev /\ rev.act = revs[b][c.mail].act /\ rev.id = revs[b][c.mail].id
        /\ rev.prev = revs[b][c.mail].prev /\ rev.undone = revs[b][c.mail].undone /\ rev.next = next
    BY <1>1, <2>2 DEF Rev
  <2>4. revs' = [revs EXCEPT ![b] = [revs[b] EXCEPT ![c.mail] = rev]]
    <3>1. PICK e \in Emails : e = c.mail
      BY <1>1, Zenon
    <3>2. revs' = [revs EXCEPT ![b][e].status = "marked_review", ![b][e].next = next]
      BY <2>1, <3>1, Zenon
    <3>3. revs' = [revs EXCEPT ![b] = [revs[b] EXCEPT ![e] =
                    [revs[b][e] EXCEPT !.status = "marked_review", !.next = next]]]
      <4>1. revs \in [Runs -> [Emails -> Rev]]
        BY DEF Typed
      <4> QED
        BY <3>2, <4>1
    <3> QED
      BY <3>1, <3>3, Zenon
  <2> HIDE DEF rev
  <2>5. Change(b, c.mail, NewRow(c.id, next), rev)
    BY <2>1, <2>4 DEF Change
  <2> QED
    BY <1>1, <1>2, <1>3, <2>3, <2>5
<1>4. CASE ~(~HasRow(c.mail) /\ LinkHolds(next))
  <2>1. UNCHANGED <<rows, revs>>
    BY <1>1, <1>4 DEF RunRestore
  <2> QED
    BY <1>1, <1>2, <1>4, <2>1
<1> QED
  BY <1>3, <1>4

LEMMA ApplyIs ==
  ASSUME Typed, NEW u \in Undos, UndoApply(u)
  PROVE  LET b == undos[u].batch  e == undos[u].mail
         IN /\ b \in Runs /\ e \in Emails /\ undos[u].restore \in Snap /\ UNCHANGED runs
            /\ \/ UNCHANGED <<rows, revs>>
               \/ \E id \in Nat, rev \in Rev :
                    /\ ~revs[b][e].undone /\ LinkHolds(undos[u].restore)
                    /\ IF undos[u].id = 0 THEN ~HasRow(e) /\ id = revs[b][e].id
                       ELSE /\ HasRow(e) /\ id = rows[e].id /\ ~rows[e].reviewed
                            /\ rows[e].snap = revs[b][e].next
                    /\ rev.act = revs[b][e].act /\ rev.id = revs[b][e].id
                    /\ rev.prev = revs[b][e].prev /\ rev.next = revs[b][e].next /\ rev.undone
                    /\ Change(b, e, NewRow(id, undos[u].restore), rev)
<1> DEFINE b == undos[u].batch
           e == undos[u].mail
           s == undos[u].restore
           id == IF undos[u].id = 0 THEN revs[b][e].id ELSE rows[e].id
           rev == [revs[b][e] EXCEPT !.undone = TRUE]
           holds == /\ ~revs[b][e].undone /\ LinkHolds(s)
                    /\ IF undos[u].id = 0 THEN ~HasRow(e)
                       ELSE rows[e].id = undos[u].id /\ rows[e].snap = revs[b][e].next /\ ~rows[e].reviewed
<1>1. b \in Runs /\ e \in Emails /\ s \in Snap /\ revs[b][e] \in Rev /\ rows[e] \in Row
  BY DEF UndoApply, Typed, UndoOK, Undo
<1>2. UNCHANGED runs
  BY DEF UndoApply
<1>3. CASE ~holds
  <2>1. UNCHANGED <<rows, revs>>
    BY <1>3 DEF UndoApply
  <2> QED
    BY <1>1, <1>2, <2>1
<1>4. CASE holds
  <2>1. rows' = [rows EXCEPT ![e] = IF undos[u].id = 0 THEN NewRow(revs[b][e].id, s)
                                    ELSE [rows[e] EXCEPT !.snap = s]]
        /\ revs' = [revs EXCEPT ![b][e].undone = TRUE]
    <3>1. rows \in [Emails -> Row]
      BY DEF Typed
    <3> QED
      BY <1>1, <1>4, <3>1 DEF UndoApply
  <2>2. id \in Nat /\ rev \in Rev /\ rev.act = revs[b][e].act /\ rev.id = revs[b][e].id
        /\ rev.prev = revs[b][e].prev /\ rev.next = revs[b][e].next /\ rev.undone
    BY <1>1 DEF Row, Rev
  <2>3. revs' = [revs EXCEPT ![b] = [revs[b] EXCEPT ![e] = rev]]
    BY <1>1, <2>1 DEF Typed
  <2>4. rows' = [rows EXCEPT ![e] = NewRow(id, s)]
    <3>1. CASE undos[u].id = 0
      BY <2>1, <3>1
    <3>2. CASE undos[u].id # 0
      <4>1. rows[e].reviewed = FALSE
        BY <1>1, <1>4, <3>2 DEF Row
      <4>2. [rows[e] EXCEPT !.snap = s] = NewRow(rows[e].id, s)
        BY <1>1, <4>1, RowWith
      <4> QED
        BY <2>1, <3>2, <4>1, <4>2
    <3> QED
      BY <3>1, <3>2
  <2>5. Change(b, e, NewRow(id, s), rev)
    BY <2>3, <2>4 DEF Change
  <2>6. IF undos[u].id = 0 THEN ~HasRow(e) /\ id = revs[b][e].id
        ELSE HasRow(e) /\ id = rows[e].id /\ ~rows[e].reviewed /\ rows[e].snap = revs[b][e].next
    BY <1>4 DEF HasRow
  <2>7. ~revs[b][e].undone /\ LinkHolds(s)
    BY <1>4
  <2> HIDE DEF rev, id
  <2> QED
    BY <1>1, <1>2, <2>2, <2>5, <2>6, <2>7
<1> QED
  BY <1>3, <1>4

----------------------------------------------------------------------------
(* Rows and the log: runs keep the invariant.                              *)

LEMMA StillAnswers ==
  ASSUME NEW b \in Runs, NEW e \in Emails, Answers(b, e), UNCHANGED <<rules, revs>>,
         runs'[b].rule = runs[b].rule, runs'[b].cur = runs[b].cur, runs[b].at # "dead",
         At(b, e) => runs'[b].at # "record" /\ calls'[b].at # "done"
  PROVE  Answers(b, e)'
<1>1. At(b, e)' <=> At(b, e)
  BY DEF At
<1> QED
  BY <1>1 DEF Answers

\* Before its scan a run has logged nothing, so no email waits for it.
LEMMA NoneWaits ==
  ASSUME RowInv, NEW b \in Runs, runs[b].at \in {"idle", "load", "scan"}, NEW e \in Emails
  PROVE  ~Answers(b, e)
  BY DEF RowInv, RunLog, Answers

LEMMA RunBeginRows ==
  ASSUME Typed, RowInv, NEW b \in Runs, RunBegin(b)
  PROVE  RowInv'
<1>1. PICK r \in Rules, mode \in {"reclassify", "mark_review"}, matching \in BOOLEAN :
        /\ Stored(r)
        /\ runs' = [runs EXCEPT ![b] = [NoRun EXCEPT !.at = "load", !.rule = r,
                      !.on = rules[r].on, !.mode = mode, !.matching = matching]]
  BY DEF RunBegin
<1>2. UNCHANGED <<rules, rows, revs, undos, calls>> /\ runs[b].at = "idle"
  BY DEF RunBegin, tables
<1>3. /\ runs'[b].at = "load" /\ runs'[b].rule = r /\ runs'[b].todo = {} /\ runs'[b].cur = {}
      /\ \A q \in Runs \ {b} : runs'[q] = runs[q]
  BY <1>1 DEF NoRun, Typed
<1>4. OnlyRun(b)
  BY <1>2, <1>3 DEF OnlyRun
<1>5. RunCall(b)'
  BY <1>2, <1>3 DEF RowInv, RunCall
<1>6. \A e \in Emails : ~Answers(b, e)
  BY <1>2, NoneWaits
<1>7. rules[runs'[b].rule].state # "new"
  BY <1>1, <1>3 DEF Stored
<1> QED
  BY <1>2, <1>3, <1>4, <1>5, <1>6, <1>7, RunMovesOn

LEMMA RunLoadRows ==
  ASSUME Typed, RowInv, NEW b \in Runs, RunLoad(b)
  PROVE  RowInv'
<1>1. runs \in [Runs -> RunOK] /\ runs[b] \in Run /\ \A c \in runs[b].todo : c.mail \in Emails
  BY CandOf DEF Typed, RunOK
<1>2. UNCHANGED <<rules, rows, revs, undos, calls>> /\ runs[b].at = "load"
  BY DEF RunLoad, tables
<1>3. RunIs(b, "scan", runs[b].todo, runs[b].cur)
  BY <1>1 DEF RunLoad, Run, RunIs
<1>4. OnlyRun(b)
  BY <1>2, <1>3 DEF OnlyRun, RunIs
<1>5. RunCall(b)'
  BY <1>2, <1>3 DEF RowInv, RunCall, RunIs
<1>6. \A e \in Emails : ~Answers(b, e)
  BY <1>2, NoneWaits
<1> QED
  BY <1>1, <1>2, <1>3, <1>4, <1>5, <1>6, RunMovesOn DEF RunIs

LEMMA RunScanRows ==
  ASSUME Typed, RowInv, NEW b \in Runs, RunScan(b)
  PROVE  RowInv'
<1>1. PICK todo \in SUBSET UNION {Found(b, e) : e \in Emails}, down \in BOOLEAN :
        runs' = [runs EXCEPT ![b] = [runs[b] EXCEPT !.at = "next", !.todo = todo, !.aiDown = down,
                                                   !.on = FALSE, !.matching = FALSE]]
  BY ChosenIs
<1>2. UNCHANGED <<rules, rows, revs, undos, calls>> /\ runs[b].at = "scan"
  BY DEF RunScan, tables
<1>3. RunIs(b, "next", todo, runs[b].cur)
  <2>1. runs \in [Runs -> RunOK] /\ runs[b] \in Run
    BY DEF Typed, RunOK
  <2> QED
    BY <1>1, <2>1 DEF Run, RunIs
<1>4. OnlyRun(b)
  BY <1>2, <1>3 DEF OnlyRun, RunIs
<1>5. RunCall(b)'
  BY <1>2, <1>3 DEF RowInv, RunCall, RunIs
<1>6. \A e \in Emails : ~Answers(b, e)
  BY <1>2, NoneWaits
<1>7. \A c \in todo : c.mail \in Emails
  BY <1>2, FoundIs
<1> QED
  BY <1>2, <1>3, <1>4, <1>5, <1>6, <1>7, RunMovesOn DEF RunIs

\* A run that keeps the candidate it has released, if any.
LEMMA RunStays ==
  ASSUME Typed, RowInv, NEW b \in Runs, RunIs(b, runs'[b].at, runs'[b].todo, runs[b].cur),
         runs'[b].todo \subseteq runs[b].todo, runs[b].at \notin {"idle", "load", "scan", "done", "dead"},
         runs'[b].at \notin {"idle", "load", "scan", "call"}, UNCHANGED <<rules, rows, revs, undos>>,
         \A q \in Runs \ {b} : calls'[q] = calls[q],
         runs'[b].at # "record" => calls'[b].at = "none",
         runs'[b].at = "record" => calls[b].at = "done"
  PROVE  RowInv'
<1>1. OnlyRun(b)
  BY DEF OnlyRun, RunIs
<1>2. RunCall(b)'
  BY DEF RunCall, RunIs
<1>3. \A c \in runs'[b].todo : c.mail \in Emails
  BY CandOf
<1>4. ASSUME NEW e \in Emails, Answers(b, e) PROVE Answers(b, e)'
  <2>1. At(b, e) => calls[b].at # "done" /\ runs[b].at # "record"
    BY <1>4 DEF Answers
  <2> QED
    BY <1>4, <2>1, StillAnswers DEF RunIs
<1> QED
  BY <1>1, <1>2, <1>3, <1>4, RunMovesOn DEF RunIs

LEMMA RunClassifyRows ==
  ASSUME Typed, RowInv, NEW b \in Runs, RunClassify(b)
  PROVE  RowInv'
<1>1. UNCHANGED <<rules, rows, revs, runs, undos>> /\ runs[b].at = "call"
  BY DEF RunClassify, tables
<1>2. runs[b].cur = {Current(b)} /\ Current(b).mail \in Emails
  BY <1>1, CurrentIs, CandIs DEF AtRelease
<1>3. runs[b].hits[Current(b).mail] \in Hit
  <2>1. runs[b] \in Run
    BY DEF Typed, RunOK
  <2> QED
    BY <1>2, <2>1 DEF Run, Matcher
<1>4. calls' = [calls EXCEPT ![b] = Entered(Current(b).mail, Routed(Current(b).mail, runs[b].hits[Current(b).mail]))]
  BY DEF RunClassify
<1>5. /\ calls'[b].mail = Current(b).mail /\ (calls'[b].at = "done" => HasRow(Current(b).mail))
      /\ \A q \in Runs \ {b} : calls'[q] = calls[q]
  <2>1. calls \in [Callers -> CallOK]
    BY DEF Typed
  <2> QED
    BY <1>2, <1>3, <1>4, <2>1, EnteredOK
<1>6. NoRowIsBlank' /\ \A e \in Emails : HasRow(e) => HasRow(e)'
  BY <1>1, RowsStay
<1> QED
  BY <1>1, <1>2, <1>5, <1>6, CallsMove

LEMMA RunReturnedRows ==
  ASSUME Typed, RowInv, NEW b \in Runs, RunReturned(b)
  PROVE  RowInv'
<1>1. UNCHANGED <<rules, rows, revs, undos, calls>> /\ runs[b].at = "call" /\ calls[b].at = "done"
  BY DEF RunReturned, tables
<1>2. RunIs(b, "record", runs[b].todo, runs[b].cur)
  <2>1. runs \in [Runs -> RunOK] /\ runs[b] \in Run
    BY DEF Typed, RunOK
  <2> QED
    BY <2>1 DEF RunReturned, Run, RunIs
<1> QED
  BY <1>1, <1>2, RunStays DEF RunIs

LEMMA RunFailedRows ==
  ASSUME Typed, RowInv, NEW b \in Runs, RunFailed(b)
  PROVE  RowInv'
<1>1. UNCHANGED <<rules, rows, revs, undos>> /\ runs[b].at = "call"
  BY DEF RunFailed, tables
<1>2. calls'[b].at = "none" /\ \A q \in Runs \ {b} : calls'[q] = calls[q]
  BY DEF RunFailed, NoCall, Typed
<1>3. RunIs(b, "restore", runs[b].todo, runs[b].cur)
  <2>1. runs \in [Runs -> RunOK] /\ runs[b] \in Run
    BY DEF Typed, RunOK
  <2> QED
    BY <2>1 DEF RunFailed, Run, RunIs
<1> QED
  BY <1>1, <1>2, <1>3, RunStays DEF RunIs

LEMMA RunEndRows ==
  ASSUME Typed, RowInv, NEW b \in Runs, RunEnd(b)
  PROVE  RowInv'
<1>1. UNCHANGED <<rules, rows, revs, undos, calls>> /\ runs[b].at = "next" /\ runs[b].todo = {}
  BY DEF RunEnd, tables
<1>2. RunIs(b, "done", {}, {})
  BY DEF RunEnd, NoRun, RunIs, Typed
<1>3. runs[b].cur = {} /\ calls[b].at = "none"
  BY <1>1 DEF Typed, RunOK, AtRelease, RowInv, RunCall
<1> QED
  BY <1>1, <1>2, <1>3, RunStays DEF RunIs

\* A change of one row and its entry leaves the other emails as they were.
LEMMA OthersWait ==
  ASSUME Typed, RowInv, NEW b \in Runs, NEW f \in Emails, NEW row \in Row, NEW rev \in Rev,
         Change(b, f, row, rev), UNCHANGED rules, runs'[b].rule = runs[b].rule, runs[b].at # "dead",
         \A e \in Emails \ {f} : ~At(b, e) /\ ~At(b, e)',
         NEW e \in Emails \ {f}, \E q \in Runs : revs'[q][e].act = "release", ~HasRow(e)'
  PROVE  Answers(b, e)' \/ ((\E q \in Runs : revs[q][e].act = "release") /\ ~HasRow(e) /\ ~Answers(b, e))
<1>1. rows'[e] = rows[e] /\ \A q \in Runs : revs'[q][e] = revs[q][e]
  BY ChangeIs
<1>2. ~HasRow(e) /\ \E q \in Runs : revs[q][e].act = "release"
  BY <1>1 DEF HasRow
<1>3. ASSUME Answers(b, e) PROVE Answers(b, e)'
  BY <1>1, <1>3 DEF Answers
<1> QED
  BY <1>2, <1>3

\* The other candidates of a run are of other emails.
LEMMA OtherMail ==
  ASSUME Typed, NEW b \in Runs, NEW c \in runs[b].todo \cup runs[b].cur, NEW d \in runs[b].todo, d # c
  PROVE  d.mail # c.mail
<1>1. runs[b] \in RunOK
  BY DEF Typed
<1> QED
  BY <1>1 DEF RunOK

LEMMA RunRewriteRows ==
  ASSUME Typed, RowInv, NEW b \in Runs, RunRewrite(b)
  PROVE  RowInv'
<1>1. UNCHANGED <<rules, undos, calls>> /\ runs[b].at = "next"
  BY DEF RunRewrite, tables
<1>2. runs[b].cur = {} /\ calls[b].at = "none" /\ RunLog(b)
  BY <1>1 DEF Typed, RunOK, AtRelease, RowInv, RunCall
<1>3. PICK c \in runs[b].todo, next \in Snap :
        /\ RunIs(b, "next", runs[b].todo \ {c}, runs[b].cur)
        /\ \/ UNCHANGED <<rows, revs>>
           \/ \E status \in {"applied", "marked_review"} :
                /\ rows[c.mail] = NewRow(c.id, c.prev)
                /\ Change(b, c.mail, NewRow(c.id, next), EntryOf(c, status, next))
  BY RewriteIs
<1>4. CASE UNCHANGED <<rows, revs>>
  BY <1>1, <1>2, <1>3, <1>4, RunStays DEF RunIs
<1>5. CASE ~UNCHANGED <<rows, revs>>
  <2>1. PICK status \in {"applied", "marked_review"} :
          Change(b, c.mail, NewRow(c.id, next), EntryOf(c, status, next))
    BY <1>3, <1>5
  <2>2. PICK f \in Emails : f = c.mail
    BY CandOf
  <2>3. PICK row \in Row, rev \in Rev : row = NewRow(c.id, next) /\ rev = EntryOf(c, status, next)
    BY CandOf, EntryType DEF NewRow, Row
  <2>4. Change(b, f, row, rev)
    BY <2>1, <2>2, <2>3
  <2>5. row.id # 0 /\ rev.id # 0
    BY <2>3, CandOf DEF NewRow, EntryOf
  <2>6. /\ rows'[f] = row /\ \A e \in Emails \ {f} : rows'[e] = rows[e]
        /\ revs'[b][f] = rev /\ \A e \in Emails \ {f} : revs'[b][e] = revs[b][e]
        /\ \A q \in Runs \ {b} : revs'[q] = revs[q]
    BY <2>4, ChangeIs
  <2>7. OnlyRun(b)
    BY <1>1, <1>3, <2>6 DEF OnlyRun, RunIs
  <2>8. NoRowIsBlank'
    BY <2>5, <2>6 DEF RowInv, NoRowIsBlank, HasRow
  <2>9. RunLog(b)'
    <3>1. \A d \in runs'[b].todo : revs'[b][d.mail].act = "none"
      <4>1. ASSUME NEW d \in runs'[b].todo PROVE d \in runs[b].todo /\ d.mail \in Emails \ {f}
        BY <1>3, <2>2, <4>1, OtherMail, CandOf DEF RunIs
      <4> QED
        BY <1>2, <2>6, <4>1 DEF RunLog
    <3> QED
      BY <1>2, <1>3, <2>5, <2>6, <3>1 DEF RunLog, RunIs
  <2>10. RunCall(b)'
    BY <1>1, <1>2, <1>3 DEF RunCall, RunIs
  <2>11. \A e \in Emails : ~At(b, e) /\ ~At(b, e)'
    BY <1>2, <1>3 DEF At, RunIs
  <2>12. ASSUME NEW e \in Emails, \E q \in Runs : revs'[q][e].act = "release", ~HasRow(e)'
         PROVE  Answers(b, e)' \/ ((\E q \in Runs : revs[q][e].act = "release") /\ ~HasRow(e) /\ ~Answers(b, e))
    <3>1. e # f
      BY <2>5, <2>6, <2>12 DEF HasRow
    <3>2. runs'[b].rule = runs[b].rule /\ runs[b].at # "dead"
      BY <1>1, <1>3 DEF RunIs
    <3> QED
      BY <1>1, <2>4, <2>11, <2>12, <3>1, <3>2, OthersWait
  <2>13. runs'[b].rule = runs[b].rule
    BY <1>3 DEF RunIs
  <2> QED
    BY <2>7, <2>8, <2>9, <2>10, <2>12, <2>13, RunMoves
<1> QED
  BY <1>4, <1>5

LEMMA RunReleaseRows ==
  ASSUME Typed, RowInv, NEW b \in Runs, RunRelease(b)
  PROVE  RowInv'
<1>1. UNCHANGED <<rules, undos, calls>> /\ runs[b].at = "next"
  BY DEF RunRelease, tables
<1>2. runs[b].cur = {} /\ calls[b].at = "none" /\ RunLog(b)
  BY <1>1 DEF Typed, RunOK, AtRelease, RowInv, RunCall
<1>3. PICK c \in runs[b].todo :
        \/ UNCHANGED <<rows, revs>> /\ RunIs(b, "next", runs[b].todo \ {c}, runs[b].cur)
        \/ /\ RunIs(b, "call", runs[b].todo \ {c}, {c})
           /\ c.act = "release" /\ rows[c.mail] = NewRow(c.id, c.prev)
           /\ Change(b, c.mail, NoRow, EntryOf(c, "deferred", NoSnap))
  BY ReleaseIs
<1>4. CASE UNCHANGED <<rows, revs>> /\ RunIs(b, "next", runs[b].todo \ {c}, runs[b].cur)
  BY <1>1, <1>2, <1>4, RunStays DEF RunIs
<1>5. CASE /\ RunIs(b, "call", runs[b].todo \ {c}, {c})
           /\ c.act = "release" /\ rows[c.mail] = NewRow(c.id, c.prev)
           /\ Change(b, c.mail, NoRow, EntryOf(c, "deferred", NoSnap))
  <2>2. PICK f \in Emails : f = c.mail
    BY CandOf
  <2>3. PICK row \in Row, rev \in Rev : row = NoRow /\ rev = EntryOf(c, "deferred", NoSnap)
    BY CandOf, EntryType, Blanks
  <2>4. Change(b, f, row, rev)
    BY <1>5, <2>2, <2>3
  <2>5. /\ rev.id # 0 /\ rev.act = "release" /\ rev.status = "deferred" /\ rev.id = c.id /\ rev.prev = c.prev
        /\ rev.next = NoSnap /\ ~rev.undone /\ row.snap = NoSnap /\ ~row.reviewed
    BY <1>5, <2>3, CandOf DEF EntryOf, NoRow
  <2>6. /\ rows'[f] = row /\ \A e \in Emails \ {f} : rows'[e] = rows[e]
        /\ revs'[b][f] = rev /\ \A e \in Emails \ {f} : revs'[b][e] = revs[b][e]
        /\ \A q \in Runs \ {b} : revs'[q] = revs[q]
    BY <2>4, ChangeIs
  <2>7. OnlyRun(b)
    BY <1>1, <1>5, <2>6 DEF OnlyRun, RunIs
  <2>8. NoRowIsBlank'
    BY <2>5, <2>6 DEF RowInv, NoRowIsBlank, HasRow
  <2>9. RunLog(b)'
    <3>1. \A d \in runs'[b].todo : revs'[b][d.mail].act = "none"
      <4>1. ASSUME NEW d \in runs'[b].todo PROVE d \in runs[b].todo /\ d.mail \in Emails \ {f}
        BY <1>5, <2>2, <4>1, OtherMail, CandOf DEF RunIs
      <4> QED
        BY <1>2, <2>6, <4>1 DEF RunLog
    <3>2. Open(b, c)'
      BY <2>2, <2>5, <2>6 DEF Open
    <3>3. runs'[b].at = "call" /\ \A d \in runs'[b].cur : Open(b, d)'
      BY <1>5, <3>2 DEF RunIs
    <3>4. \A e \in Emails : revs'[b][e].act # "none" => revs'[b][e].id # 0
      BY <1>2, <2>5, <2>6 DEF RunLog
    <3> QED
      BY <3>1, <3>3, <3>4 DEF RunLog
  <2>10. RunCall(b)'
    BY <1>1, <1>2, <1>5 DEF RunCall, RunIs
  <2>11. \A e \in Emails \ {f} : ~At(b, e) /\ ~At(b, e)'
    BY <1>2, <1>5, <2>2 DEF At, RunIs
  <2>12. ASSUME NEW e \in Emails, \E q \in Runs : revs'[q][e].act = "release", ~HasRow(e)'
         PROVE  Answers(b, e)' \/ ((\E q \in Runs : revs[q][e].act = "release") /\ ~HasRow(e) /\ ~Answers(b, e))
    <3>1. CASE e = f
      <4>1. At(b, f)'
        BY <1>5, <2>2 DEF At, RunIs
      <4>2. Answers(b, f)'
        BY <1>1, <1>2, <1>5, <2>5, <2>6, <4>1 DEF Answers, RunIs
      <4> QED
        BY <3>1, <4>2
    <3>2. CASE e # f
      <4>2. runs'[b].rule = runs[b].rule /\ runs[b].at # "dead"
        BY <1>1, <1>5 DEF RunIs
      <4> QED
        BY <1>1, <2>4, <2>11, <2>12, <3>2, <4>2, OthersWait
    <3> QED
      BY <3>1, <3>2
  <2>13. runs'[b].rule = runs[b].rule
    BY <1>5 DEF RunIs
  <2> QED
    BY <2>7, <2>8, <2>9, <2>10, <2>12, <2>13, RunMoves
<1> QED
  BY <1>3, <1>4, <1>5

\* What a run knows of the candidate it has released.
LEMMA ReleasedIs ==
  ASSUME Typed, RowInv, NEW b \in Runs, NEW c, runs[b].cur = {c}
  PROVE  /\ Open(b, c) /\ c.mail \in Emails /\ c.id # 0 /\ c.prev.link = runs[b].rule
         /\ \A d \in runs[b].todo : d.mail \in Emails /\ d.mail # c.mail
         /\ runs[b].at \in AtRelease /\ runs[b].rule \in Rules
<1>1. runs[b] \in RunOK /\ c \in runs[b].cur
  BY DEF Typed
<1>2. runs[b].at \in AtRelease /\ runs[b].rule \in Rules /\ c.act = "release" /\ c \notin runs[b].todo
  BY <1>1 DEF RunOK
<1>3. Open(b, c)
  BY <1>1 DEF RowInv, RunLog
<1>4. \A d \in runs[b].todo : d.mail \in Emails /\ d.mail # c.mail
  BY <1>1, <1>2, OtherMail, CandOf
<1> QED
  BY <1>1, <1>2, <1>3, <1>4, CandOf

\* The step in which a run is through with it.
LEMMA Through ==
  ASSUME Typed, RowInv, NEW b \in Runs, NEW c, runs[b].cur = {c}, UNCHANGED <<rules, undos>>,
         RunIs(b, "next", runs[b].todo, {}), calls'[b].at = "none", \A q \in Runs \ {b} : calls'[q] = calls[q],
         NEW row \in Row, NEW rev \in Rev, Change(b, c.mail, row, rev),
         rev.act = revs[b][c.mail].act, rev.id = revs[b][c.mail].id,
         row.id # 0 \/ (row = rows[c.mail] /\ runs[b].at = "record")
  PROVE  RowInv'
<1>1. Open(b, c) /\ c.id # 0 /\ runs[b].at \in AtRelease
  BY ReleasedIs
<1>2. PICK f \in Emails : f = c.mail
  BY ReleasedIs
<1>3. Change(b, f, row, rev)
  BY <1>2
<1>4. /\ rows'[f] = row /\ \A e \in Emails \ {f} : rows'[e] = rows[e]
      /\ revs'[b][f] = rev /\ \A e \in Emails \ {f} : revs'[b][e] = revs[b][e]
      /\ \A q \in Runs \ {b} : revs'[q] = revs[q]
  BY <1>3, ChangeIs
<1>5. rev.act = "release" /\ rev.id # 0
  BY <1>1, <1>2 DEF Open
<1>6. OnlyRun(b)
  BY <1>1, <1>4 DEF OnlyRun, RunIs, AtRelease
<1>7. NoRowIsBlank'
  BY <1>2, <1>4 DEF RowInv, NoRowIsBlank, HasRow
<1>8. RunLog(b)'
  <2>1. \A d \in runs'[b].todo : revs'[b][d.mail].act = "none"
    <3>1. ASSUME NEW d \in runs'[b].todo PROVE d \in runs[b].todo /\ d.mail \in Emails \ {f}
      BY <1>2, <3>1, ReleasedIs DEF RunIs
    <3>2. \A d \in runs[b].todo : revs[b][d.mail].act = "none"
      BY DEF RowInv, RunLog
    <3>3. ASSUME NEW d \in runs'[b].todo PROVE revs'[b][d.mail] = revs[b][d.mail]
      BY <1>4, <3>1
    <3> QED
      BY <3>1, <3>2, <3>3
  <2>2. \A e \in Emails : revs'[b][e].act # "none" => revs'[b][e].id # 0
    BY <1>4, <1>5 DEF RowInv, RunLog
  <2> QED
    BY <2>1, <2>2 DEF RunLog, RunIs
<1>9. RunCall(b)'
  BY DEF RunCall, RunIs
<1>10. \A e \in Emails \ {f} : ~At(b, e) /\ ~At(b, e)'
  BY <1>2 DEF At, RunIs
<1>11. runs'[b].rule = runs[b].rule /\ runs[b].at # "dead"
  BY <1>1 DEF RunIs, AtRelease
<1>12. ASSUME NEW e \in Emails, \E q \in Runs : revs'[q][e].act = "release", ~HasRow(e)'
       PROVE  Answers(b, e)' \/ ((\E q \in Runs : revs[q][e].act = "release") /\ ~HasRow(e) /\ ~Answers(b, e))
  <2>1. CASE e = f
    <3>1. row = rows[f] /\ runs[b].at = "record"
      BY <1>2, <1>4, <1>12, <2>1 DEF HasRow
    <3>2. At(b, f) /\ ~HasRow(f) /\ revs[b][f].act = "release"
      BY <1>1, <1>2, <1>4, <1>12, <2>1, <3>1 DEF At, HasRow, Open
    <3> QED
      BY <2>1, <3>1, <3>2 DEF Answers
  <2>2. CASE e # f
    BY <1>3, <1>10, <1>11, <1>12, <2>2, OthersWait
  <2> QED
    BY <2>1, <2>2
<1> QED
  BY <1>6, <1>7, <1>8, <1>9, <1>11, <1>12, RunMoves

LEMMA RunRecordRows ==
  ASSUME Typed, RowInv, NEW b \in Runs, RunRecord(b)
  PROVE  RowInv'
<1>1. UNCHANGED <<rules, undos>> /\ runs[b].at = "record"
  BY DEF RunRecord, tables
<1>2. calls'[b].at = "none" /\ \A q \in Runs \ {b} : calls'[q] = calls[q]
  BY DEF RunRecord, NoCall, Typed
<1>3. PICK c \in Cand, rev \in Rev :
        /\ runs[b].cur = {c} /\ RunIs(b, "next", runs[b].todo, {})
        /\ rev.act = revs[b][c.mail].act /\ rev.id = revs[b][c.mail].id
        /\ Change(b, c.mail, rows[c.mail], rev)
  BY RecordIs
<1>4. PICK row \in Row : row = rows[c.mail]
  BY <1>3, ReleasedIs, EntryHas
<1> QED
  BY <1>1, <1>2, <1>3, <1>4, Through

LEMMA RunRestoreRows ==
  ASSUME Typed, RowInv, NEW b \in Runs, RunRestore(b)
  PROVE  RowInv'
<1>1. UNCHANGED <<rules, undos, calls>> /\ runs[b].at = "restore"
  BY DEF RunRestore, tables
<1>2. calls[b].at = "none"
  BY <1>1 DEF RowInv, RunCall
<1>3. PICK c \in Cand :
        /\ runs[b].cur = {c} /\ RunIs(b, "next", runs[b].todo, {})
        /\ \/ UNCHANGED <<rows, revs>> /\ (HasRow(c.mail) \/ ~LinkHolds(Flagged(b, c.prev)))
           \/ \E next \in Snap, rev \in Rev :
                /\ rev.act = revs[b][c.mail].act /\ rev.id = revs[b][c.mail].id
                /\ Change(b, c.mail, NewRow(c.id, next), rev)
  BY RestoreIs
<1>4. CASE UNCHANGED <<rows, revs>> /\ (HasRow(c.mail) \/ ~LinkHolds(Flagged(b, c.prev)))
  <2>1. OnlyRun(b)
    BY <1>1, <1>3, <1>4 DEF OnlyRun, RunIs
  <2>2. RunCall(b)'
    BY <1>1, <1>2, <1>3 DEF RunCall, RunIs
  <2>3. ASSUME NEW e \in Emails, Answers(b, e), ~HasRow(e) PROVE Answers(b, e)'
    <3>1. runs'[b].rule = runs[b].rule /\ ~At(b, e)'
      BY <1>3 DEF At, RunIs
    <3>2. runs[b].rule \in Rules
      BY <1>3, ReleasedIs
    <3>3. rules[runs[b].rule].state = "gone"
      <4>1. CASE At(b, e)
        <5>1. ~LinkHolds(Flagged(b, c.prev)) /\ c.prev.link = runs[b].rule /\ c.prev \in Snap
          BY <1>3, <1>4, <2>3, <4>1, ReleasedIs, CandIs DEF At
        <5>2. Flagged(b, c.prev).link = c.prev.link
          BY <5>1 DEF Flagged, Snap
        <5>3. ~Stored(runs[b].rule)
          BY <3>2, <5>1, <5>2 DEF LinkHolds
        <5>4. rules[runs[b].rule].state # "new" /\ rules[runs[b].rule] \in Rule
          BY <3>2 DEF RowInv, RuleWas, Typed
        <5> QED
          BY <5>3, <5>4 DEF Stored, Rule
      <4>2. CASE ~At(b, e)
        BY <1>1, <2>3, <4>2 DEF Answers
      <4> QED
        BY <4>1, <4>2
    <3> QED
      BY <1>1, <1>4, <2>3, <3>1, <3>2, <3>3 DEF Answers
  <2>4. \A d \in runs[b].todo : d.mail \in Emails
    BY CandOf
  <2> QED
    BY <1>1, <1>3, <1>4, <2>1, <2>2, <2>3, <2>4, RunMovesOn DEF RunIs
<1>5. CASE \E next \in Snap, rev \in Rev :
             /\ rev.act = revs[b][c.mail].act /\ rev.id = revs[b][c.mail].id
             /\ Change(b, c.mail, NewRow(c.id, next), rev)
  <2>1. PICK next \in Snap, rev \in Rev :
          /\ rev.act = revs[b][c.mail].act /\ rev.id = revs[b][c.mail].id
          /\ Change(b, c.mail, NewRow(c.id, next), rev)
    BY <1>5
  <2>2. PICK row \in Row : row = NewRow(c.id, next)
    BY <1>3, CandOf DEF NewRow, Row
  <2>3. row.id # 0
    BY <1>3, <2>2, CandOf DEF NewRow
  <2> QED
    BY <1>1, <1>2, <1>3, <2>1, <2>2, <2>3, Through
<1> QED
  BY <1>3, <1>4, <1>5

LEMMA RunRows == ASSUME Typed, RowInv, NEW b \in Runs, RunStep(b) PROVE RowInv'
  BY RunBeginRows, RunLoadRows, RunScanRows, RunRewriteRows, RunReleaseRows, RunClassifyRows,
     RunReturnedRows, RunRecordRows, RunFailedRows, RunRestoreRows, RunEndRows DEF RunStep

----------------------------------------------------------------------------
(* Rows and the log: undos, and a crash.                                   *)

LEMMA UndoMoves ==
  ASSUME RowInv, NEW u \in Undos, UNCHANGED <<rules, rows, revs, runs, calls>>,
         \A v \in Undos \ {u} : undos'[v] = undos[v], UndoLog(u)'
  PROVE  RowInv'
<1>1. NoRowIsBlank' /\ RuleWas'
  BY DEF RowInv, NoRowIsBlank, RuleWas, HasRow
<1>2. ASSUME NEW b \in Runs PROVE RunLog(b)' /\ RunCall(b)'
  BY DEF RowInv, RunLog, RunCall, Open
<1>3. ASSUME NEW v \in Undos \ {u} PROVE UndoLog(v)'
  <2>1. undos'[v] = undos[v] /\ UndoLog(v)
    BY DEF RowInv
  <2> QED
    BY <2>1 DEF UndoLog, UndoIsOf
<1>4. ReleasedIsAnswered'
  BY DEF RowInv, ReleasedIsAnswered, HasRow, Answers, At
<1> QED
  BY <1>1, <1>2, <1>3, <1>4 DEF RowInv

LEMMA UndoBeginRows ==
  ASSUME Typed, RowInv, NEW u \in Undos, UndoBegin(u)
  PROVE  RowInv'
<1>1. PICK b \in Runs :
        /\ runs[b].at \in {"done", "dead"}
        /\ undos' = [undos EXCEPT ![u] = [NoUndo EXCEPT !.at = "next", !.batch = b,
                        !.todo = {e \in Revised(b) : ~revs[b][e].undone}]]
  BY DEF UndoBegin
<1>2. UNCHANGED <<rules, rows, revs, runs, calls>>
  BY DEF UndoBegin, tables
<1>3. /\ undos'[u].at = "next" /\ undos'[u].batch = b /\ undos'[u].todo \subseteq Revised(b)
      /\ \A v \in Undos \ {u} : undos'[v] = undos[v]
  BY <1>1 DEF NoUndo, Typed
<1>4. UndoLog(u)'
  BY <1>1, <1>2, <1>3 DEF UndoLog, Revised
<1> QED
  BY <1>2, <1>3, <1>4, UndoMoves

LEMMA UndoReadRows ==
  ASSUME Typed, RowInv, NEW u \in Undos, UndoRead(u)
  PROVE  RowInv'
<1>1. UNCHANGED <<rules, rows, revs, runs, calls>> /\ undos[u].at = "next"
  BY DEF UndoRead, tables
<1>2. undos \in [Undos -> UndoOK] /\ undos[u] \in Undo /\ undos[u].batch \in Runs
  BY <1>1 DEF Typed, UndoOK
<1>3. PICK e \in undos[u].todo :
        \/ /\ ~rows[e].reviewed /\ AsLeft(undos[u].batch, e)
           /\ undos' = [undos EXCEPT ![u].at = "apply", ![u].todo = @ \ {e}, ![u].mail = e,
                ![u].id = rows[e].id, ![u].restore = Restored(revs[undos[u].batch][e].prev)]
        \/ undos' = [undos EXCEPT ![u].todo = @ \ {e}]
  BY DEF UndoRead
<1>4. e \in Emails /\ UndoLog(u)
  BY <1>2 DEF Undo, RowInv
<1>5. CASE undos' = [undos EXCEPT ![u].todo = @ \ {e}]
  <2>1. /\ undos'[u].at = "next" /\ undos'[u].batch = undos[u].batch /\ undos'[u].todo \subseteq undos[u].todo
        /\ \A v \in Undos \ {u} : undos'[v] = undos[v]
    BY <1>1, <1>2, <1>5 DEF Undo
  <2>2. UndoLog(u)'
    BY <1>1, <1>4, <2>1 DEF UndoLog
  <2> QED
    BY <1>1, <2>1, <2>2, UndoMoves
<1>6. CASE /\ ~rows[e].reviewed /\ AsLeft(undos[u].batch, e)
           /\ undos' = [undos EXCEPT ![u].at = "apply", ![u].todo = @ \ {e}, ![u].mail = e,
                ![u].id = rows[e].id, ![u].restore = Restored(revs[undos[u].batch][e].prev)]
  <2>1. /\ undos'[u].at = "apply" /\ undos'[u].batch = undos[u].batch /\ undos'[u].todo \subseteq undos[u].todo
        /\ undos'[u].mail = e /\ undos'[u].id = rows[e].id
        /\ undos'[u].restore = Restored(revs[undos[u].batch][e].prev)
        /\ \A v \in Undos \ {u} : undos'[v] = undos[v]
    BY <1>2, <1>6 DEF Undo
  <2>2. revs[undos[u].batch][e].prev \in Snap
    BY <1>2, <1>4, EntryHas DEF Rev
  <2>3. undos'[u].restore \in {revs[undos[u].batch][e].prev, [revs[undos[u].batch][e].prev EXCEPT !.link = None]}
    BY <2>1, <2>2, RestoredType
  <2>4. undos'[u].id = 0 <=> revs[undos[u].batch][e].next = NoSnap
    BY <1>6, <2>1 DEF AsLeft, HasRow
  <2>5. UndoIsOf(u, undos[u].batch, undos[u].mail)'
    <3>1. revs[undos[u].batch][e].act # "none"
      BY <1>1, <1>4 DEF UndoLog
    <3> QED
      BY <1>1, <2>1, <2>3, <2>4, <3>1 DEF UndoIsOf
  <2>6. UndoLog(u)'
    BY <1>1, <1>4, <2>1, <2>5 DEF UndoLog
  <2> QED
    BY <1>1, <2>1, <2>6, UndoMoves
<1> QED
  BY <1>3, <1>5, <1>6

LEMMA UndoApplyRows ==
  ASSUME Typed, RowInv, NEW u \in Undos, UndoApply(u)
  PROVE  RowInv'
<1>1. UNCHANGED <<rules, runs, calls>> /\ undos[u].at = "apply"
  BY DEF UndoApply, tables
<1>2. /\ undos'[u].at = "next" /\ undos'[u].batch = undos[u].batch /\ undos'[u].todo = undos[u].todo
      /\ \A v \in Undos \ {u} : undos'[v] = undos[v]
  <2>1. undos \in [Undos -> UndoOK] /\ undos[u] \in Undo
    BY DEF Typed, UndoOK
  <2> QED
    BY <2>1 DEF UndoApply, Undo
<1>3. UndoLog(u)
  BY DEF RowInv
<1>4. CASE UNCHANGED <<rows, revs>>
  <2>1. UndoLog(u)'
    BY <1>1, <1>2, <1>3, <1>4 DEF UndoLog
  <2> QED
    BY <1>1, <1>2, <1>4, <2>1, UndoMoves
<1>5. CASE ~UNCHANGED <<rows, revs>>
  <2>1. PICK b \in Runs, e \in Emails, id \in Nat, rev \in Rev :
          /\ b = undos[u].batch /\ e = undos[u].mail
          /\ IF undos[u].id = 0 THEN ~HasRow(e) /\ id = revs[b][e].id ELSE HasRow(e) /\ id = rows[e].id
          /\ rev.act = revs[b][e].act /\ rev.id = revs[b][e].id
          /\ rev.prev = revs[b][e].prev /\ rev.next = revs[b][e].next
          /\ undos[u].restore \in Snap
          /\ Change(b, e, NewRow(id, undos[u].restore), rev)
    BY <1>5, ApplyIs
  <2>2. PICK row \in Row : row = NewRow(id, undos[u].restore)
    BY <2>1 DEF NewRow, Row
  <2>3. runs[b].at \in {"done", "dead"} /\ revs[b][e].act # "none"
    BY <1>1, <1>3, <2>1 DEF UndoLog, UndoIsOf
  <2>4. row.id # 0
    <3>1. revs[b][e].id # 0
      BY <2>3 DEF RowInv, RunLog
    <3> QED
      BY <2>1, <2>2, <3>1 DEF NewRow, HasRow
  <2>5. /\ rows'[e] = row /\ \A f \in Emails \ {e} : rows'[f] = rows[f]
        /\ revs'[b][e] = rev /\ \A f \in Emails \ {e} : revs'[b][f] = revs[b][f]
        /\ \A q \in Runs \ {b} : revs'[q] = revs[q]
    <3>1. Change(b, e, row, rev)
      BY <2>1, <2>2
    <3> QED
      BY <3>1, ChangeIs
  <2>6. ASSUME NEW q \in Runs, NEW f \in Emails
        PROVE  /\ revs'[q][f].act = revs[q][f].act /\ revs'[q][f].id = revs[q][f].id
               /\ revs'[q][f].prev = revs[q][f].prev /\ revs'[q][f].next = revs[q][f].next
    BY <2>1, <2>5
  <2>7. NoRowIsBlank' /\ RuleWas'
    BY <1>1, <2>4, <2>5 DEF RowInv, NoRowIsBlank, RuleWas, HasRow
  <2>8. ASSUME NEW q \in Runs PROVE RunLog(q)' /\ RunCall(q)'
    <3>1. RunCall(q)'
      BY <1>1 DEF RowInv, RunCall
    <3>2. CASE q # b
      <4>1. RunLog(q) /\ revs'[q] = revs[q]
        BY <2>5, <3>2 DEF RowInv
      <4> QED
        BY <1>1, <3>1, <4>1 DEF RunLog, Open
    <3>3. CASE q = b
      <4>1. runs'[b].todo = {} /\ runs'[b].cur = {} /\ runs'[b].at \in {"done", "dead"}
        BY <1>1, <2>3 DEF Typed, RunOK, AtRelease
      <4>2. \A f \in Emails : revs[b][f].act # "none" => revs[b][f].id # 0
        BY DEF RowInv, RunLog
      <4>3. \A f \in Emails : revs'[b][f].act # "none" => revs'[b][f].id # 0
        BY <2>6, <4>2
      <4>4. RunLog(b)'
        BY <4>1, <4>3 DEF RunLog
      <4> QED
        BY <3>1, <3>3, <4>4
    <3> QED
      BY <3>1, <3>2, <3>3
  <2>9. ASSUME NEW v \in Undos PROVE UndoLog(v)'
    <3>1. undos[v].at \in {"next", "apply"} => undos[v].batch \in Runs
      BY DEF Typed, UndoOK
    <3>2. undos[v].at = "apply" => undos[v].mail \in Emails
      BY DEF Typed, UndoOK
    <3>3. undos[v].todo \subseteq Emails
      BY DEF Typed, UndoOK, Undo
    <3>4. UndoLog(v)
      BY DEF RowInv
    <3>5. CASE v = u
      BY <1>1, <1>2, <2>6, <3>1, <3>3, <3>4, <3>5 DEF UndoLog
    <3>6. CASE v # u
      <4>1. undos'[v] = undos[v]
        BY <1>2, <3>6
      <4>2. CASE undos[v].at = "apply"
        <5>1. PICK q \in Runs, f \in Emails : q = undos[v].batch /\ f = undos[v].mail
          BY <3>1, <3>2, <4>2
        <5>2. UndoIsOf(v, q, f)
          BY <3>4, <4>2, <5>1 DEF UndoLog
        <5>3. UndoIsOf(v, q, f)'
          BY <2>6, <4>1, <5>2 DEF UndoIsOf
        <5>4. \A d \in undos[v].todo : revs'[q][d].act # "none"
          BY <2>6, <3>3, <3>4, <4>2, <5>1 DEF UndoLog
        <5> QED
          BY <1>1, <3>4, <4>1, <4>2, <5>1, <5>3, <5>4 DEF UndoLog
      <4>3. CASE undos[v].at # "apply"
        <5>1. CASE undos[v].at = "next"
          <6>1. PICK q \in Runs : q = undos[v].batch
            BY <3>1, <5>1
          <6>2. \A d \in undos[v].todo : revs'[q][d].act # "none"
            BY <2>6, <3>3, <3>4, <5>1, <6>1 DEF UndoLog
          <6> QED
            BY <1>1, <3>4, <4>1, <5>1, <6>1, <6>2 DEF UndoLog
        <5>2. CASE undos[v].at # "next"
          BY <4>1, <4>3, <5>2 DEF UndoLog
        <5> QED
          BY <5>1, <5>2
      <4> QED
        BY <4>2, <4>3
    <3> QED
      BY <3>5, <3>6
  <2>10. ReleasedIsAnswered'
    <3> SUFFICES ASSUME NEW f \in Emails, NEW p \in Runs, revs'[p][f].act = "release", ~HasRow(f)'
                 PROVE  \E q \in Runs : Answers(q, f)'
      BY DEF ReleasedIsAnswered
    <3>1. f # e /\ ~HasRow(f)
      BY <2>4, <2>5 DEF HasRow
    <3>2. revs[p][f].act = "release"
      BY <2>6
    <3>3. PICK q \in Runs : Answers(q, f)
      BY <3>1, <3>2 DEF RowInv, ReleasedIsAnswered
    <3>4. Answers(q, f)'
      BY <1>1, <2>6, <3>3 DEF Answers, At
    <3> QED
      BY <3>4
  <2> QED
    BY <2>7, <2>8, <2>9, <2>10 DEF RowInv
<1> QED
  BY <1>4, <1>5

LEMMA UndoEndRows ==
  ASSUME Typed, RowInv, NEW u \in Undos, UndoEnd(u)
  PROVE  RowInv'
<1>1. UNCHANGED <<rules, rows, revs, runs, calls>>
  BY DEF UndoEnd, tables
<1>2. undos'[u].at = "done" /\ \A v \in Undos \ {u} : undos'[v] = undos[v]
  BY DEF UndoEnd, NoUndo, Typed
<1>3. UndoLog(u)'
  BY <1>2 DEF UndoLog
<1> QED
  BY <1>1, <1>2, <1>3, UndoMoves

LEMMA UndoRows == ASSUME Typed, RowInv, NEW u \in Undos, UndoStep(u) PROVE RowInv'
  BY UndoBeginRows, UndoReadRows, UndoApplyRows, UndoEndRows DEF UndoStep

\* A run that a crash stops answers for the email that it has released.
LEMMA CrashRows ==
  ASSUME Typed, RowInv, Crash
  PROVE  RowInv'
<1>1. UNCHANGED <<rules, rows, revs>> /\ \A b \in Runs : calls'[b].at = "none"
  BY DEF Crash, tables, NoCall
<1>2. ASSUME NEW b \in Runs
      PROVE  \/ runs[b].at \in {"idle", "done", "dead"} /\ runs'[b] = runs[b]
             \/ /\ runs'[b].at = "dead" /\ runs'[b].rule = runs[b].rule /\ runs'[b].todo = {} /\ runs'[b].cur = {}
                /\ runs[b].at \notin {"idle", "done", "dead"}
  BY DEF Crash, Active, Typed, NoRun
<1>3. ASSUME NEW b \in Runs, runs[b].at \in {"idle", "done", "dead"} PROVE runs[b].todo = {} /\ runs[b].cur = {}
  BY <1>3 DEF Typed, RunOK, AtRelease
<1>4. NoRowIsBlank'
  BY <1>1 DEF RowInv, NoRowIsBlank, HasRow
<1>5. RuleWas'
  BY <1>1, <1>2 DEF RowInv, RuleWas
<1>6. ASSUME NEW b \in Runs PROVE RunLog(b)' /\ RunCall(b)'
  <2>1. RunLog(b)
    BY DEF RowInv
  <2>2. runs'[b].todo = {} /\ runs'[b].cur = {}
    BY <1>2, <1>3
  <2>3. runs'[b].at \in {"idle", "load", "scan"} => runs[b].at = "idle"
    BY <1>2
  <2>4. RunLog(b)'
    BY <1>1, <2>1, <2>2, <2>3 DEF RunLog
  <2> QED
    BY <1>1, <2>4 DEF RunCall
<1>7. ASSUME NEW u \in Undos PROVE UndoLog(u)'
  <2>1. undos'[u].at \notin {"next", "apply"}
    BY DEF Crash, Active, Typed, NoUndo
  <2> QED
    BY <2>1 DEF UndoLog
<1>8. ReleasedIsAnswered'
  <2> SUFFICES ASSUME NEW e \in Emails, NEW p \in Runs, revs'[p][e].act = "release", ~HasRow(e)'
               PROVE  \E b \in Runs : Answers(b, e)'
    BY DEF ReleasedIsAnswered
  <2>1. PICK b \in Runs : Answers(b, e)
    BY <1>1 DEF RowInv, ReleasedIsAnswered, HasRow
  <2>2. ~At(b, e)'
    BY <1>2, <1>3 DEF At
  <2>3. runs'[b].at = "dead" \/ (runs'[b].rule \in Rules /\ rules[runs'[b].rule].state = "gone")
    BY <1>2, <1>3, <2>1 DEF Answers, At
  <2> QED
    BY <1>1, <2>1, <2>2, <2>3 DEF Answers
<1> QED
  BY <1>4, <1>5, <1>6, <1>7, <1>8 DEF RowInv

LEMMA InitRows == ASSUME Init PROVE RowInv
<1>1. PICK requested \in Requested : ToCome(requested)
  BY DEF Init
<1>2. \A e \in Emails : rows[e] = NoRow \/ rows[e].id = 1
  BY DEF Init, InUse
<1>3. NoRowIsBlank
  BY <1>2 DEF NoRowIsBlank, HasRow, NoRow
<1>4. \A b \in Runs : /\ runs[b].rule = None /\ runs[b].todo = {} /\ runs[b].cur = {} /\ calls[b].at = "none"
                      /\ \A e \in Emails : revs[b][e].act = "none"
  BY <1>1 DEF ToCome, NoRun, NoCall, Init, InUse, NoRev
<1>5. RuleWas
  BY <1>4 DEF RuleWas
<1>6. \A b \in Runs : RunLog(b) /\ RunCall(b)
  BY <1>4 DEF RunLog, RunCall
<1>7. ASSUME NEW u \in Undos PROVE UndoLog(u)
  <2>1. undos[u].at \in {"idle", "done"}
    BY <1>1 DEF ToCome, NoUndo
  <2> QED
    BY <2>1 DEF UndoLog
<1>8. ReleasedIsAnswered
  BY <1>4 DEF ReleasedIsAnswered
<1> QED
  BY <1>3, <1>5, <1>6, <1>7, <1>8 DEF RowInv

LEMMA NextRows == ASSUME Typed, RowInv, [Next]_vars PROVE RowInv'
<1>1. CASE UNCHANGED vars
  <2>1. UNCHANGED <<rules, revs, runs, undos, calls, rows>>
    BY <1>1 DEF vars
  <2> QED
    BY <2>1, RowsStay, CallsMove
<1> QED
  BY <1>1, JobRows, CallRows, RunRows, UndoRows, ReviewRows, WriterRows, CrashRows DEF Next

\* A released email that has no row is one that a run is still at work on, or
\* died over, or whose rule was deleted under the run
\* (sender-rule-reclassify.service.ts, release and restoreFlagged).
THEOREM ReleasedKeepsRow == Spec => []ReleasedHasRowUnlessRuleGone
<1>1. ASSUME RowInv PROVE ReleasedHasRowUnlessRuleGone
  <2> SUFFICES ASSUME NEW e \in Emails, \E b \in Runs : revs[b][e].act = "release", ~HasRow(e)
               PROVE  \E b \in {q \in Runs : revs[q][e].act = "release" /\ revs[q][e].next = NoSnap} :
                        \/ \E c \in runs[b].cur : c.mail = e
                        \/ runs[b].at = "dead" \/ rules[runs[b].rule].state = "gone"
    BY DEF ReleasedHasRowUnlessRuleGone
  <2>1. PICK b \in Runs : Answers(b, e)
    BY <1>1 DEF RowInv, ReleasedIsAnswered
  <2> QED
    BY <2>1 DEF Answers, At
<1> QED
  BY <1>1, InitRows, NextRows, AlwaysTyped, PTL DEF Spec

----------------------------------------------------------------------------
(* Decisions.                                                              *)

\* The row of an email that has a decision is there.
LEMMA ReviewedHasRow == ASSUME RowInv, NEW e \in Emails, rows[e].reviewed PROVE HasRow(e)
  BY DEF RowInv, NoRowIsBlank

Held(e) == rows[e].reviewed => rows'[e].reviewed /\ rows'[e].id = rows[e].id

LEMMA UpsertHolds ==
  ASSUME Typed, RowInv, NEW f \in Emails, NEW s \in Snap, Upsert(f, s), NEW e \in Emails
  PROVE  Held(e)
  BY UpsertIs, ReviewedHasRow DEF Held

LEMMA ChangeHolds ==
  ASSUME Typed, RowInv, NEW b \in Runs, NEW f \in Emails, NEW row \in Row, NEW rev \in Rev,
         Change(b, f, row, rev), ~rows[f].reviewed, NEW e \in Emails
  PROVE  Held(e)
  BY ChangeIs DEF Held

LEMMA RunHolds ==
  ASSUME Typed, RowInv, NEW b \in Runs, RunStep(b), NEW e \in Emails
  PROVE  Held(e)
<1>0. CASE UNCHANGED rows
  BY <1>0 DEF Held
<1>1. CASE RunRewrite(b)
  <2>1. PICK c \in runs[b].todo, next \in Snap :
          \/ UNCHANGED <<rows, revs>>
          \/ \E status \in {"applied", "marked_review"} :
               /\ rows[c.mail] = NewRow(c.id, c.prev)
               /\ Change(b, c.mail, NewRow(c.id, next), EntryOf(c, status, next))
    BY <1>1, RewriteIs
  <2>2. CASE UNCHANGED <<rows, revs>>
    BY <1>0, <2>2
  <2>3. CASE ~UNCHANGED <<rows, revs>>
    <3>1. PICK status \in {"applied", "marked_review"} :
            rows[c.mail] = NewRow(c.id, c.prev) /\ Change(b, c.mail, NewRow(c.id, next), EntryOf(c, status, next))
      BY <2>1, <2>3
    <3>2. PICK f \in Emails : f = c.mail
      BY CandOf
    <3>3. PICK row \in Row, rev \in Rev : row = NewRow(c.id, next) /\ rev = EntryOf(c, status, next)
      BY CandOf, EntryType DEF NewRow, Row
    <3>4. ~rows[f].reviewed
      BY <3>1, <3>2 DEF NewRow
    <3> QED
      BY <3>1, <3>2, <3>3, <3>4, ChangeHolds
  <2> QED
    BY <2>2, <2>3
<1>2. CASE RunRelease(b)
  <2>1. PICK c \in runs[b].todo :
          \/ UNCHANGED <<rows, revs>>
          \/ /\ c.act = "release" /\ rows[c.mail] = NewRow(c.id, c.prev)
             /\ Change(b, c.mail, NoRow, EntryOf(c, "deferred", NoSnap))
    BY <1>2, ReleaseIs
  <2>2. CASE UNCHANGED <<rows, revs>>
    BY <1>0, <2>2
  <2>3. CASE ~UNCHANGED <<rows, revs>>
    <3>2. PICK f \in Emails : f = c.mail
      BY CandOf
    <3>3. PICK row \in Row, rev \in Rev : row = NoRow /\ rev = EntryOf(c, "deferred", NoSnap)
      BY CandOf, EntryType, Blanks
    <3>4. ~rows[f].reviewed
      BY <2>1, <2>3, <3>2 DEF NewRow
    <3> QED
      BY <2>1, <2>3, <3>2, <3>3, <3>4, ChangeHolds
  <2> QED
    BY <2>2, <2>3
<1>3. CASE RunRestore(b)
  <2>1. PICK c \in Cand :
          /\ runs[b].cur = {c}
          /\ \/ UNCHANGED <<rows, revs>>
             \/ \E next \in Snap, rev \in Rev :
                  ~HasRow(c.mail) /\ Change(b, c.mail, NewRow(c.id, next), rev)
    BY <1>3, RestoreIs
  <2>2. CASE UNCHANGED <<rows, revs>>
    BY <1>0, <2>2
  <2>3. CASE ~UNCHANGED <<rows, revs>>
    <3>1. PICK next \in Snap, rev \in Rev : ~HasRow(c.mail) /\ Change(b, c.mail, NewRow(c.id, next), rev)
      BY <2>1, <2>3
    <3>2. PICK f \in Emails : f = c.mail
      BY <2>1, ReleasedIs
    <3>3. PICK row \in Row : row = NewRow(c.id, next)
      BY <2>1, CandOf DEF NewRow, Row
    <3>4. ~rows[f].reviewed
      BY <3>1, <3>2, ReviewedHasRow
    <3> QED
      BY <3>1, <3>2, <3>3, <3>4, ChangeHolds
  <2> QED
    BY <2>2, <2>3
<1> QED
  BY <1>0, <1>1, <1>2, <1>3 DEF RunStep, RunBegin, RunLoad, RunScan, RunClassify, RunReturned, RunRecord,
     RunFailed, RunEnd, tables

LEMMA UndoHolds ==
  ASSUME Typed, RowInv, NEW u \in Undos, UndoStep(u), NEW e \in Emails
  PROVE  Held(e)
<1>0. CASE UNCHANGED rows
  BY <1>0 DEF Held
<1>1. CASE UndoApply(u)
  <2>2. CASE UNCHANGED <<rows, revs>>
    BY <1>0, <2>2
  <2>3. CASE ~UNCHANGED <<rows, revs>>
    <3>1. PICK b \in Runs, f \in Emails, id \in Nat, rev \in Rev :
            /\ ~HasRow(f) \/ ~rows[f].reviewed
            /\ undos[u].restore \in Snap
            /\ Change(b, f, NewRow(id, undos[u].restore), rev)
      BY <1>1, <2>3, ApplyIs
    <3>2. PICK row \in Row : row = NewRow(id, undos[u].restore)
      BY <3>1 DEF NewRow, Row
    <3>3. ~rows[f].reviewed
      BY <3>1, ReviewedHasRow
    <3> QED
      BY <3>1, <3>2, <3>3, ChangeHolds
  <2> QED
    BY <2>2, <2>3
<1> QED
  BY <1>0, <1>1 DEF UndoStep, UndoBegin, UndoRead, UndoEnd, tables

\* A person's decision on a row goes only with a request to replace it
\* (review-queue.service.ts; lockUnreviewed of the reclassify service).
THEOREM DecisionsHold == Spec => DecisionHeld
<1>1. ASSUME Typed, RowInv, Next, NEW e \in Emails
      PROVE  Held(e) \/ \E v \in Reviewers : ReviewDelete(v)
  <2>0. ASSUME UNCHANGED rows PROVE Held(e)
    BY <2>0 DEF Held
  <2>1. ASSUME NEW j \in Jobs, JobStep(j) PROVE Held(e)
    <3>1. CASE JobRule(j)
      BY <1>1, <2>0, <3>1, JobRuleIs, UpsertHolds
    <3>2. CASE UNCHANGED rows
      BY <2>0, <3>2
    <3> QED
      BY <2>1, <3>1, <3>2 DEF JobStep, JobBegin, JobBeginOne, JobMatchOne, GetMatcher, LoadMatcher, MatcherLoaded,
         MatcherFails, JobGate, JobNext, JobResume, JobEnd, tables
  <2>2. ASSUME NEW p \in Callers, CallStep(p) PROVE Held(e)
    <3>1. CASE ClassifyAnswer(p)
      BY <2>0, <3>1 DEF ClassifyAnswer, tables
    <3>2. CASE ClassifyWrite(p)
      BY <1>1, <2>0, <3>2, WriteIs, UpsertHolds
    <3> QED
      BY <2>2, <3>1, <3>2 DEF CallStep
  <2>3. ASSUME NEW v \in Reviewers, ReviewStep(v), ~ReviewDelete(v) PROVE Held(e)
    <3>1. CASE ReviewFind(v)
      BY <2>0, <3>1 DEF ReviewFind, tables
    <3>2. CASE ReviewDecide(v)
      <4>1. rows \in [Emails -> Row] /\ rows[e] \in Row
        BY <1>1 DEF Typed
      <4>2. CASE UNCHANGED rows
        BY <2>0, <4>2
      <4>3. CASE rows' = [rows EXCEPT ![reviews[v].mail].reviewed = TRUE]
        BY <4>1, <4>3 DEF Held, Row
      <4> QED
        BY <3>2, <4>2, <4>3 DEF ReviewDecide
    <3> QED
      BY <2>3, <3>1, <3>2 DEF ReviewStep
  <2>4. ASSUME NEW w \in Writers, WriterStep(w) PROVE Held(e)
    <3>1. CASE RuleRemove(w)
      <4>1. writers[w].rule \in Rules
        BY <1>1, <3>1 DEF RuleRemove, Typed, WriterOK
      <4>2. UNCHANGED rows \/ rows' = Unlinked(writers[w].rule)
        BY <1>1, <3>1, RemoveIs
      <4> QED
        BY <1>1, <2>0, <4>1, <4>2, UnlinkedIs DEF Held
    <3>2. CASE UNCHANGED rows
      BY <2>0, <3>2
    <3> QED
      BY <2>4, <3>1, <3>2 DEF WriterStep, WriteBegin, RuleCreate, RuleUpdate, Invalidate, tables
  <2>5. CASE Crash
    BY <2>0, <2>5 DEF Crash, tables
  <2> QED
    BY <1>1, <2>1, <2>2, <2>3, <2>4, <2>5, RunHolds, UndoHolds DEF Next
<1>2. ASSUME Typed, RowInv, [Next]_vars
      PROVE  [\A e \in Emails : rows[e].reviewed =>
                \/ rows'[e].reviewed /\ rows'[e].id = rows[e].id
                \/ \E v \in Reviewers : ReviewDelete(v)]_vars
  BY <1>1, <1>2 DEF Held
<1> QED
  BY <1>2, InitRows, NextRows, AlwaysTyped, PTL DEF Spec, DecisionHeld

----------------------------------------------------------------------------
(* The change log that reclassify promises.                                *)

LEMMA LogOf == ASSUME NEW b \in Runs, NEW e \in Emails PROVE log[b][e] = Entry(revs[b][e])
  BY DEF log

LEMMA LogStays == ASSUME UNCHANGED revs PROVE UNCHANGED log
  BY DEF log, Entry

\* An entry and a row are known by their fields.
LogEntry == [made : BOOLEAN, id : Nat, prev : Snap, next : Snap, undone : BOOLEAN]
LEMMA EntryIn == ASSUME NEW rev \in Rev PROVE Entry(rev) \in LogEntry
  BY DEF Entry, LogEntry, Rev

LEMMA LogType == ASSUME Typed PROVE log \in [Runs -> [Emails -> LogEntry]]
<1>1. ASSUME NEW b \in Runs, NEW e \in Emails PROVE Entry(revs[b][e]) \in LogEntry
  <2>1. PICK rev \in Rev : rev = revs[b][e]
    BY EntryHas
  <2> QED
    BY <2>1, EntryIn
<1> QED
  BY <1>1 DEF log

LEMMA LogChanges ==
  ASSUME Typed, NEW b \in Runs, NEW e \in Emails, NEW row \in Row, NEW rev \in Rev,
         Change(b, e, row, rev)
  PROVE  log' = [log EXCEPT ![b][e] = Entry(rev)] /\ log'[b][e] = Entry(rev)
<1>1. revs \in [Runs -> [Emails -> Rev]] /\ revs[b] \in [Emails -> Rev]
  BY DEF Typed
<1>2. /\ revs'[b][e] = rev /\ \A f \in Emails \ {e} : revs'[b][f] = revs[b][f]
      /\ \A q \in Runs \ {b} : revs'[q] = revs[q]
  BY ChangeIs
<1>3. log' = [q \in Runs |-> [f \in Emails |-> Entry(revs'[q][f])]]
  BY DEF log, Entry
<1>4. log'[b][e] = Entry(rev)
  BY <1>2, <1>3
<1>5. \A q \in Runs, f \in Emails : log'[q][f] = IF q = b /\ f = e THEN Entry(rev) ELSE log[q][f]
  BY <1>2, <1>3, LogOf
<1>6. log \in [Runs -> [Emails -> LogEntry]]
  BY LogType
<1>7. PICK entry \in LogEntry : entry = Entry(rev)
  BY EntryIn
<1> DEFINE x == [log[b] EXCEPT ![e] = entry]
<1>8. x \in [Emails -> LogEntry] /\ \A f \in Emails : x[f] = IF f = e THEN entry ELSE log[b][f]
  BY <1>6
<1>9. x = log'[b]
  <2>1. log'[b] = [f \in Emails |-> log'[b][f]]
    BY <1>3
  <2>2. \A f \in Emails : log'[b][f] = x[f]
    BY <1>5, <1>7, <1>8
  <2> QED
    BY <2>1, <2>2, <1>8
<1> HIDE DEF x
<1>10. log' = [log EXCEPT ![b] = x]
  <2>1. \A q \in Runs \ {b} : log'[q] = log[q]
    <3> SUFFICES ASSUME NEW q \in Runs \ {b} PROVE log'[q] = log[q]
      OBVIOUS
    <3>1. log'[q] = [f \in Emails |-> Entry(revs'[q][f])] /\ log[q] = [f \in Emails |-> Entry(revs[q][f])]
      BY <1>3 DEF log
    <3> QED
      BY <1>2, <3>1
  <2>2. log' = [q \in Runs |-> log'[q]] /\ log = [q \in Runs |-> log[q]]
    BY <1>3 DEF log
  <2> QED
    BY <1>9, <2>1, <2>2
<1> QED
  BY <1>4, <1>7, <1>10 DEF x

LEMMA PutIs ==
  ASSUME Typed, NEW e \in Emails, NEW row \in Row, rows' = [rows EXCEPT ![e] = row]
  PROVE  rows'[e] = row /\ Log!Put(e, row.id, row.snap, row.reviewed)
<1>1. row = [id |-> row.id, snap |-> row.snap, reviewed |-> row.reviewed]
  BY DEF Row
<1>2. rows \in [Emails -> Row]
  BY DEF Typed
<1> QED
  BY <1>1, <1>2 DEF Log!Put

LEMMA Classifies ==
  ASSUME Typed, RowInv, UNCHANGED revs, NEW e \in Emails, NEW s \in Snap, Upsert(e, s)
  PROVE  Log!Classify(e)
<1>1. rows \in [Emails -> Row] /\ rows[e] \in Row /\ born[e] \in Nat
  BY DEF Typed
<1>2. PICK row \in Row : rows' = [rows EXCEPT ![e] = row]
  <2>1. CASE HasRow(e)
    <3>1. [rows[e] EXCEPT !.snap = s] \in Row
      BY <1>1 DEF Row
    <3> QED
      BY <2>1, <3>1 DEF Upsert
  <2>2. CASE ~HasRow(e)
    <3>1. NewRow(born[e] + 1, s) \in Row
      BY <1>1 DEF NewRow, Row
    <3> QED
      BY <2>2, <3>1 DEF Upsert
  <2> QED
    BY <2>1, <2>2
<1>3. rows'[e] = row
  BY <1>1, <1>2
<1>4. /\ row.id # 0
      /\ HasRow(e) => row.id = rows[e].id /\ row.reviewed = rows[e].reviewed
      /\ ~HasRow(e) => ~row.reviewed
  BY <1>3, UpsertIs
<1>5. ~HasRow(e) => ~rows[e].reviewed
  BY DEF RowInv, NoRowIsBlank
<1>6. row.reviewed = rows[e].reviewed /\ row.id \in Nat /\ row.snap \in Snap /\ row.reviewed \in BOOLEAN
  BY <1>1, <1>4, <1>5 DEF Row
<1>7. Log!Put(e, row.id, row.snap, row.reviewed)
  BY <1>2, PutIs
<1> QED
  BY <1>3, <1>4, <1>6, <1>7, LogStays DEF Log!Classify, Log!Present, HasRow

LEMMA NewRowIs ==
  ASSUME NEW id \in Nat, NEW s \in Snap
  PROVE  /\ NewRow(id, s) \in Row /\ NewRow(id, s).id = id /\ NewRow(id, s).snap = s
         /\ NewRow(id, s).reviewed = FALSE
  BY DEF NewRow, Row

\* What RunRewrite and RunRelease do: a candidate whose row is as scanned gets
\* another, or none, and an entry in the log.
LEMMA Enters ==
  ASSUME Typed, NEW b \in Runs, NEW f \in Emails, NEW row \in Row, NEW rev \in Rev, Change(b, f, row, rev),
         rows[f] = NewRow(rev.id, rev.prev), revs[b][f].act = "none", rev.act # "none", rev.id # 0,
         ~row.reviewed, rev.next = row.snap, ~rev.undone
  PROVE  /\ Log!Free(b, f) /\ Log!Put(f, row.id, row.snap, FALSE) /\ Log!Enter(b, f, row.snap)
         /\ rows[f].id = rev.id /\ rows'[f] = row
<1>1. row.reviewed = FALSE /\ rev.undone = FALSE
  BY DEF Row, Rev
<1>2. rows[f].id = rev.id /\ rows[f].snap = rev.prev /\ rows[f].reviewed = FALSE
  BY DEF NewRow
<1>3. ~log[b][f].made
  <2>1. PICK old \in Rev : old = revs[b][f]
    BY EntryHas
  <2>3. PICK entry \in LogEntry : entry = Entry(old)
    BY EntryIn
  <2>4. ~entry.made
    BY <2>1, <2>3 DEF Entry
  <2> QED
    BY <2>1, <2>3, <2>4, LogOf
<1>4. Log!Free(b, f)
  BY <1>1, <1>2, <1>3 DEF Log!Free, Log!Present
<1>5. rows'[f] = row /\ Log!Put(f, row.id, row.snap, row.reviewed)
  BY PutIs DEF Change
<1>6. Log!Put(f, row.id, row.snap, FALSE)
  BY <1>1, <1>5
<1>7. log' = [log EXCEPT ![b][f] = Entry(rev)]
  BY LogChanges
<1>8. Entry(rev) = [made |-> TRUE, id |-> rows[f].id, prev |-> rows[f].snap, next |-> row.snap, undone |-> FALSE]
  BY <1>1, <1>2 DEF Entry
<1>9. Log!Enter(b, f, row.snap)
  BY <1>7, <1>8 DEF Log!Enter
<1> QED
  BY <1>2, <1>4, <1>5, <1>6, <1>9

LEMMA Revises ==
  ASSUME Typed, RowInv, NEW b \in Runs, RunRewrite(b)
  PROVE  UNCHANGED <<rows, log>> \/ \E e \in Emails : Log!Revise(b, e)
<1>1. PICK c \in runs[b].todo, next \in Snap :
        \/ UNCHANGED <<rows, revs>>
        \/ \E status \in {"applied", "marked_review"} :
             /\ rows[c.mail] = NewRow(c.id, c.prev)
             /\ Change(b, c.mail, NewRow(c.id, next), EntryOf(c, status, next))
  BY RewriteIs
<1>2. CASE UNCHANGED <<rows, revs>>
  BY <1>2, LogStays
<1>3. CASE ~UNCHANGED <<rows, revs>>
  <2>1. PICK status \in {"applied", "marked_review"} :
          rows[c.mail] = NewRow(c.id, c.prev) /\ Change(b, c.mail, NewRow(c.id, next), EntryOf(c, status, next))
    BY <1>1, <1>3
  <2>2. PICK f \in Emails : f = c.mail
    BY CandOf
  <2>3. PICK id \in Nat : id = c.id
    BY CandOf
  <2>4. PICK row \in Row : row = NewRow(id, next)
    BY DEF NewRow, Row
  <2>5. row.id = c.id /\ row.snap = next /\ row.reviewed = FALSE
    BY <2>3, <2>4 DEF NewRow
  <2>10. PICK rev \in Rev : rev = EntryOf(c, status, next)
    BY CandOf, EntryType
  <2>6. rev.act = c.act /\ rev.id = c.id /\ rev.prev = c.prev /\ rev.next = next /\ rev.undone = FALSE
    BY <2>10 DEF EntryOf
  <2>7. rows[f] = NewRow(c.id, c.prev) /\ Change(b, f, row, rev)
    BY <2>1, <2>2, <2>3, <2>4, <2>10
  <2>8. /\ Log!Free(b, f) /\ Log!Put(f, row.id, row.snap, FALSE) /\ Log!Enter(b, f, row.snap)
        /\ rows[f].id = rev.id /\ rows'[f] = row
    <3>1. rows[f] = NewRow(rev.id, rev.prev) /\ rev.id # 0 /\ rev.act # "none" /\ revs[b][f].act = "none"
      BY <2>2, <2>6, <2>7, CandOf DEF Cand, RowInv, RunLog
    <3>2. ~row.reviewed /\ rev.next = row.snap /\ ~rev.undone
      BY <2>5, <2>6
    <3> QED
      BY <2>7, <3>1, <3>2, Enters, Zenon
  <2>9. Log!Put(f, rows[f].id, rows'[f].snap, FALSE) /\ Log!Enter(b, f, rows'[f].snap)
    BY <2>5, <2>6, <2>8
  <2> QED
    BY <2>8, <2>9 DEF Log!Revise
<1> QED
  BY <1>2, <1>3

LEMMA Releases ==
  ASSUME Typed, RowInv, NEW b \in Runs, RunRelease(b)
  PROVE  UNCHANGED <<rows, log>> \/ \E e \in Emails : Log!Release(b, e)
<1>1. PICK c \in runs[b].todo :
        \/ UNCHANGED <<rows, revs>>
        \/ /\ c.act = "release" /\ rows[c.mail] = NewRow(c.id, c.prev)
           /\ Change(b, c.mail, NoRow, EntryOf(c, "deferred", NoSnap))
  BY ReleaseIs
<1>2. CASE UNCHANGED <<rows, revs>>
  BY <1>2, LogStays
<1>3. CASE ~UNCHANGED <<rows, revs>>
  <2>2. PICK f \in Emails : f = c.mail
    BY CandOf
  <2>4. PICK row \in Row : row = NoRow /\ row.id = 0 /\ row.snap = NoSnap /\ row.reviewed = FALSE
    BY Blanks DEF NoRow
  <2>5. NoSnap \in Snap
    BY Blanks
  <2>10. PICK rev \in Rev : rev = EntryOf(c, "deferred", NoSnap)
    BY <2>5, CandOf, EntryType
  <2>6. rev.act = c.act /\ rev.id = c.id /\ rev.prev = c.prev /\ rev.next = NoSnap /\ rev.undone = FALSE
    BY <2>10 DEF EntryOf
  <2>7. rows[f] = NewRow(c.id, c.prev) /\ Change(b, f, row, rev)
    BY <1>1, <1>3, <2>2, <2>4, <2>10
  <2>8. Log!Free(b, f) /\ Log!Put(f, row.id, row.snap, FALSE) /\ Log!Enter(b, f, row.snap)
    <3>1. rows[f] = NewRow(rev.id, rev.prev) /\ rev.id # 0 /\ rev.act # "none" /\ revs[b][f].act = "none"
      BY <2>2, <2>6, <2>7, CandOf DEF Cand, RowInv, RunLog
    <3> QED
      BY <2>4, <2>6, <2>7, <3>1, Enters
  <2>9. Log!Put(f, 0, NoSnap, FALSE) /\ Log!Enter(b, f, NoSnap)
    BY <2>4, <2>8
  <2> QED
    BY <2>8, <2>9 DEF Log!Release
<1> QED
  BY <1>2, <1>3

\* What RunRecord, RunRestore and UndoApply do to the log.
LEMMA EntryNext ==
  ASSUME NEW old \in Rev, NEW rev \in Rev, rev.act = old.act, rev.id = old.id, rev.prev = old.prev,
         rev.undone = old.undone
  PROVE  Entry(rev) = [Entry(old) EXCEPT !.next = rev.next]
  BY DEF Entry

LEMMA EntryUndone ==
  ASSUME NEW old \in Rev, NEW rev \in Rev, rev.act = old.act, rev.id = old.id, rev.prev = old.prev,
         rev.next = old.next, rev.undone
  PROVE  Entry(rev) = [Entry(old) EXCEPT !.undone = TRUE]
<1>1. PICK x \in LogEntry, y \in LogEntry : x = Entry(rev) /\ y = Entry(old)
  BY EntryIn
<1>2. x.made = y.made /\ x.id = y.id /\ x.prev = y.prev /\ x.next = y.next /\ x.undone
  BY <1>1 DEF Entry
<1>3. x = [y EXCEPT !.undone = TRUE]
  BY <1>2 DEF LogEntry
<1> QED
  BY <1>1, <1>3

LEMMA ReleasedInLog ==
  ASSUME Typed, NEW b \in Runs, NEW f \in Emails, revs[b][f].act = "release", revs[b][f].next = NoSnap,
         ~revs[b][f].undone
  PROVE  Log!Released(b, f) /\ log[b][f].id = revs[b][f].id
<1>1. PICK old \in Rev : old = revs[b][f]
  BY EntryHas
<1>2. PICK entry \in LogEntry : entry = Entry(old)
  BY EntryIn
<1>3. entry.made /\ entry.next = NoSnap /\ ~entry.undone /\ entry.id = old.id
  BY <1>1, <1>2 DEF Entry
<1>4. log[b][f] = entry
  BY <1>1, <1>2, LogOf
<1> QED
  BY <1>1, <1>3, <1>4 DEF Log!Released

LEMMA Settles ==
  ASSUME Typed, NEW b \in Runs, NEW f \in Emails, NEW row \in Row, NEW rev \in Rev, Change(b, f, row, rev),
         revs[b][f].act = "release", revs[b][f].next = NoSnap, ~revs[b][f].undone,
         rev.act = revs[b][f].act, rev.id = revs[b][f].id, rev.prev = revs[b][f].prev,
         rev.undone = revs[b][f].undone,
         \/ UNCHANGED rows
         \/ ~HasRow(f) /\ row.id = rev.id /\ row.snap = rev.next /\ ~row.reviewed
  PROVE  Log!Settle(b, f)
<1>1. Log!Released(b, f) /\ log[b][f].id = rev.id
  BY ReleasedInLog
<1>2. PICK old \in Rev : old = revs[b][f]
  BY EntryHas
<1>3. log' = [log EXCEPT ![b][f] = Entry(rev)] /\ log'[b][f] = Entry(rev)
  BY LogChanges
<1>4. log[b][f] = Entry(old) /\ Entry(rev) = [Entry(old) EXCEPT !.next = rev.next]
  BY <1>2, LogOf, EntryNext
<1>5. Entry(rev).next = rev.next
  BY DEF Entry
<1>6. log' = [log EXCEPT ![b][f].next = log'[b][f].next]
  BY <1>3, <1>4, <1>5
<1>7. ASSUME ~HasRow(f), row.id = rev.id, row.snap = rev.next, ~row.reviewed
      PROVE  ~Log!Present(f) /\ Log!Put(f, log[b][f].id, log'[b][f].next, FALSE)
  <2>1. Log!Put(f, row.id, row.snap, row.reviewed)
    BY PutIs DEF Change
  <2>2. row.reviewed = FALSE
    BY <1>7 DEF Row
  <2>3. Log!Put(f, row.id, row.snap, FALSE)
    BY <2>1, <2>2
  <2> QED
    BY <1>1, <1>3, <1>5, <1>7, <2>3 DEF Log!Present, HasRow
<1> QED
  BY <1>1, <1>6, <1>7 DEF Log!Settle

LEMMA Records ==
  ASSUME Typed, RowInv, NEW b \in Runs, RunRecord(b)
  PROVE  \E e \in Emails : Log!Settle(b, e)
<1>1. PICK c \in Cand, rev \in Rev :
        /\ runs[b].cur = {c}
        /\ rev.act = revs[b][c.mail].act /\ rev.id = revs[b][c.mail].id
        /\ rev.prev = revs[b][c.mail].prev /\ rev.undone = revs[b][c.mail].undone
        /\ UNCHANGED rows /\ Change(b, c.mail, rows[c.mail], rev)
  BY RecordIs
<1>2. PICK f \in Emails : f = c.mail
  BY <1>1, ReleasedIs
<1>3. Open(b, c)
  BY <1>1, ReleasedIs
<1>4. PICK row \in Row : row = rows[f]
  BY EntryHas
<1>5. revs[b][f].act = "release" /\ revs[b][f].next = NoSnap /\ ~revs[b][f].undone
  BY <1>2, <1>3 DEF Open
<1>6. /\ Change(b, f, row, rev) /\ UNCHANGED rows
      /\ rev.act = revs[b][f].act /\ rev.id = revs[b][f].id
      /\ rev.prev = revs[b][f].prev /\ rev.undone = revs[b][f].undone
  BY <1>1, <1>2, <1>4
<1> QED
  BY <1>5, <1>6, Settles

LEMMA Restores ==
  ASSUME Typed, RowInv, NEW b \in Runs, RunRestore(b)
  PROVE  UNCHANGED <<rows, log>> \/ \E e \in Emails : Log!Settle(b, e)
<1>1. PICK c \in Cand :
        /\ runs[b].cur = {c}
        /\ \/ UNCHANGED <<rows, revs>>
           \/ \E next \in Snap, rev \in Rev :
                /\ rev.act = revs[b][c.mail].act /\ rev.id = revs[b][c.mail].id
                /\ rev.prev = revs[b][c.mail].prev /\ rev.undone = revs[b][c.mail].undone
                /\ rev.next = next /\ ~HasRow(c.mail) /\ Change(b, c.mail, NewRow(c.id, next), rev)
  BY RestoreIs
<1>2. CASE UNCHANGED <<rows, revs>>
  BY <1>2, LogStays
<1>3. CASE ~UNCHANGED <<rows, revs>>
  <2>1. PICK next \in Snap, rev \in Rev :
          /\ rev.act = revs[b][c.mail].act /\ rev.id = revs[b][c.mail].id
          /\ rev.prev = revs[b][c.mail].prev /\ rev.undone = revs[b][c.mail].undone
          /\ rev.next = next /\ ~HasRow(c.mail) /\ Change(b, c.mail, NewRow(c.id, next), rev)
    BY <1>1, <1>3
  <2>2. PICK f \in Emails : f = c.mail
    BY <1>1, ReleasedIs
  <2>3. Open(b, c)
    BY <1>1, ReleasedIs
  <2>4. PICK id \in Nat : id = c.id
    BY <1>1, CandOf
  <2>5. PICK row \in Row : row = NewRow(id, next)
    BY DEF NewRow, Row
  <2>6. revs[b][f].act = "release" /\ revs[b][f].next = NoSnap /\ ~revs[b][f].undone /\ revs[b][f].id = id
    BY <2>2, <2>3, <2>4 DEF Open
  <2>7. /\ Change(b, f, row, rev) /\ ~HasRow(f) /\ rev.next = next
        /\ rev.act = revs[b][f].act /\ rev.id = revs[b][f].id
        /\ rev.prev = revs[b][f].prev /\ rev.undone = revs[b][f].undone
    BY <2>1, <2>2, <2>4, <2>5
  <2>8. row.id = rev.id /\ row.snap = rev.next /\ ~row.reviewed
    BY <2>5, <2>6, <2>7 DEF NewRow
  <2> QED
    BY <2>6, <2>7, <2>8, Settles
<1> QED
  BY <1>2, <1>3

\* A row goes back to what the log says it was, once.
LEMMA Undoes ==
  ASSUME Typed, RowInv, NEW u \in Undos, UndoApply(u)
  PROVE  UNCHANGED <<rows, log>> \/ \E b \in Runs, e \in Emails : Log!Undo(b, e)
<1>1. PICK b \in Runs, e \in Emails, s \in Snap : b = undos[u].batch /\ e = undos[u].mail /\ s = undos[u].restore
  BY ApplyIs
<1>2. CASE UNCHANGED <<rows, revs>>
  BY <1>2, LogStays
<1>3. CASE ~UNCHANGED <<rows, revs>>
  <2>1. PICK id \in Nat, rev \in Rev :
          /\ ~revs[b][e].undone
          /\ IF undos[u].id = 0 THEN ~HasRow(e) /\ id = revs[b][e].id
             ELSE /\ HasRow(e) /\ id = rows[e].id /\ ~rows[e].reviewed
                  /\ rows[e].snap = revs[b][e].next
          /\ rev.act = revs[b][e].act /\ rev.id = revs[b][e].id
          /\ rev.prev = revs[b][e].prev /\ rev.next = revs[b][e].next /\ rev.undone
          /\ Change(b, e, NewRow(id, s), rev)
    BY <1>1, <1>3, ApplyIs
  <2>2. /\ revs[b][e].act # "none"
        /\ s \in {revs[b][e].prev, [revs[b][e].prev EXCEPT !.link = None]}
        /\ undos[u].id = 0 <=> revs[b][e].next = NoSnap
    <3>1. undos[u].at = "apply" /\ UndoLog(u)
      BY DEF UndoApply, RowInv
    <3>2. UndoIsOf(u, b, e)
      BY <1>1, <3>1 DEF UndoLog
    <3> QED
      BY <1>1, <3>2 DEF UndoIsOf
  <2>3. PICK old \in Rev : old = revs[b][e]
    BY EntryHas
  <2>4. PICK entry \in LogEntry : entry = Entry(old)
    BY EntryIn
  <2>5. /\ log[b][e] = entry /\ entry.made /\ ~entry.undone /\ entry.id = old.id
        /\ entry.prev = old.prev /\ entry.next = old.next
    BY <2>1, <2>2, <2>3, <2>4, LogOf DEF Entry
  <2>6. PICK row \in Row : row = NewRow(id, s)
    BY DEF NewRow, Row
  <2>7. row.id = id /\ row.snap = s /\ row.reviewed = FALSE /\ Change(b, e, row, rev)
    BY <2>1, <2>6 DEF NewRow
  <2>8. Log!Put(e, row.id, row.snap, row.reviewed)
    BY <2>7, PutIs DEF Change
  <2>9. log' = [log EXCEPT ![b][e] = Entry(rev)] /\ Entry(rev) = [entry EXCEPT !.undone = TRUE]
    BY <2>1, <2>3, <2>4, <2>7, LogChanges, EntryUndone
  <2>10. log' = [log EXCEPT ![b][e].undone = TRUE]
    BY <2>5, <2>9
  <2>11. ~HasRow(e) => ~rows[e].reviewed
    BY DEF RowInv, NoRowIsBlank
  <2>12. /\ ~rows[e].reviewed
         /\ IF entry.next = NoSnap THEN ~HasRow(e) ELSE HasRow(e) /\ rows[e].snap = entry.next
         /\ id = IF HasRow(e) THEN rows[e].id ELSE entry.id
         /\ s \in {entry.prev, [entry.prev EXCEPT !.link = None]}
    BY <2>1, <2>2, <2>3, <2>5, <2>11
  <2>13. Log!Put(e, IF HasRow(e) THEN rows[e].id ELSE entry.id, s, FALSE)
    BY <2>7, <2>8, <2>12
  <2>14. Log!Undo(b, e)
    BY <2>5, <2>10, <2>12, <2>13 DEF Log!Undo, Log!Present, HasRow
  <2> QED
    BY <2>14
<1> QED
  BY <1>2, <1>3

LEMMA Decides ==
  ASSUME Typed, NEW v \in Reviewers, ReviewStep(v)
  PROVE  UNCHANGED <<rows, log>> \/ \E e \in Emails : Log!Decide(e)
<1>1. UNCHANGED log
  BY ReviewIs, LogStays
<1>2. CASE UNCHANGED rows
  BY <1>1, <1>2
<1>3. CASE ~UNCHANGED rows
  <2>1. PICK e \in Emails, d \in BOOLEAN :
          HasRow(e) /\ rows' = [rows EXCEPT ![e] = [id |-> rows[e].id, snap |-> rows[e].snap, reviewed |-> d]]
    BY <1>3, ReviewIs
  <2>2. PICK old \in Row : old = rows[e] /\ old = [id |-> old.id, snap |-> old.snap, reviewed |-> old.reviewed]
    <3>1. PICK old \in Row : old = rows[e]
      BY DEF Typed
    <3> QED
      BY <3>1 DEF Row
  <2>3. d # old.reviewed
    <3>1. SUFFICES ASSUME d = old.reviewed PROVE FALSE
      OBVIOUS
    <3>2. rows' = [rows EXCEPT ![e] = rows[e]]
      BY <2>1, <2>2, <3>1
    <3> QED
      BY <1>3, <3>2 DEF Typed
  <2>4. d = ~old.reviewed
    BY <2>3 DEF Row
  <2> QED
    BY <1>1, <2>1, <2>2, <2>4 DEF Log!Decide, Log!Put, Log!Present, HasRow
<1> QED
  BY <1>2, <1>3

LEMMA Unlinks ==
  ASSUME Typed, NEW w \in Writers, WriterStep(w)
  PROVE  UNCHANGED <<rows, log>> \/ \E r \in Rules : Log!Unlink(r)
<1>1. UNCHANGED log
  BY LogStays DEF WriterStep, WriteBegin, RuleCreate, RuleUpdate, RuleRemove, Invalidate, tables
<1>2. CASE RuleRemove(w)
  <2>1. writers[w].rule \in Rules
    BY <1>2 DEF RuleRemove, Typed, WriterOK
  <2>2. UNCHANGED rows \/ rows' = Unlinked(writers[w].rule)
    BY <1>2, RemoveIs
  <2> QED
    BY <1>1, <2>1, <2>2 DEF Unlinked, Log!Unlink
<1>3. CASE UNCHANGED rows
  BY <1>1, <1>3
<1> QED
  BY <1>2, <1>3 DEF WriterStep, WriteBegin, RuleCreate, RuleUpdate, Invalidate, tables

LEMMA LogInit == ASSUME Init PROVE Log!Init
<1>1. revs = [b \in Runs |-> [e \in Emails |-> NoRev]]
  BY DEF Init, InUse
<1>2. Entry(NoRev) = [made |-> FALSE, id |-> 0, prev |-> NoSnap, next |-> NoSnap, undone |-> FALSE]
  BY DEF Entry, NoRev
<1>3. log = [b \in Runs |-> [e \in Emails |-> Entry(NoRev)]]
  BY <1>1 DEF log
<1> QED
  BY <1>2, <1>3 DEF Log!Init, Log!Blank

LEMMA LogNext == ASSUME Typed, RowInv, [Next]_vars PROVE [Log!Next]_(Log!vars)
<1>0. CASE UNCHANGED <<rows, revs>>
  BY <1>0, LogStays DEF Log!vars
<1>1. ASSUME NEW e \in Emails, NEW s \in Snap, Upsert(e, s), UNCHANGED revs PROVE Log!Next
  BY <1>1, Classifies DEF Log!Next
<1>2. ASSUME NEW j \in Jobs, JobStep(j) PROVE [Log!Next]_(Log!vars)
  <2>1. CASE JobRule(j)
    BY <1>0, <1>1, <2>1, JobRuleIs DEF JobRule
  <2> QED
    BY <1>0, <1>2, <2>1 DEF JobStep, JobBegin, JobBeginOne, JobMatchOne, GetMatcher, LoadMatcher, MatcherLoaded,
       MatcherFails, JobGate, JobNext, JobResume, JobEnd, tables
<1>3. ASSUME NEW p \in Callers, CallStep(p) PROVE [Log!Next]_(Log!vars)
  <2>1. CASE ClassifyAnswer(p)
    BY <1>0, <2>1 DEF ClassifyAnswer, tables
  <2>2. CASE ClassifyWrite(p)
    BY <1>0, <1>1, <2>2, WriteIs DEF ClassifyWrite
  <2> QED
    BY <1>3, <2>1, <2>2 DEF CallStep
<1>4. ASSUME NEW b \in Runs, RunStep(b) PROVE [Log!Next]_(Log!vars)
  <2>1. CASE RunRewrite(b)
    BY <2>1, Revises DEF Log!Next, Log!vars
  <2>2. CASE RunRelease(b)
    BY <2>2, Releases DEF Log!Next, Log!vars
  <2>3. CASE RunRecord(b)
    BY <2>3, Records DEF Log!Next, Log!vars
  <2>4. CASE RunRestore(b)
    BY <2>4, Restores DEF Log!Next, Log!vars
  <2> QED
    BY <1>0, <1>4, <2>1, <2>2, <2>3, <2>4 DEF RunStep, RunBegin, RunLoad, RunScan, RunClassify, RunReturned,
       RunFailed, RunEnd, tables
<1>5. ASSUME NEW u \in Undos, UndoStep(u) PROVE [Log!Next]_(Log!vars)
  <2>1. CASE UndoApply(u)
    BY <2>1, Undoes DEF Log!Next, Log!vars
  <2> QED
    BY <1>0, <1>5, <2>1 DEF UndoStep, UndoBegin, UndoRead, UndoEnd, tables
<1>6. ASSUME NEW v \in Reviewers, ReviewStep(v) PROVE [Log!Next]_(Log!vars)
  BY <1>6, Decides DEF Log!Next, Log!vars
<1>7. ASSUME NEW w \in Writers, WriterStep(w) PROVE [Log!Next]_(Log!vars)
  BY <1>7, Unlinks DEF Log!Next, Log!vars
<1>8. CASE Crash
  BY <1>0, <1>8 DEF Crash, tables
<1>9. CASE UNCHANGED vars
  BY <1>0, <1>9 DEF vars
<1> QED
  BY <1>2, <1>3, <1>4, <1>5, <1>6, <1>7, <1>8, <1>9 DEF Next

\* Reclassify, its undo, and all that runs beside them on the same rows,
\* implement ChangeLog (sender-rule-reclassify.service.ts).
THEOREM KeepsTheLog == Spec => ImplementsLog
<1>1. Init => Log!Init
  BY LogInit
<1>2. Typed /\ RowInv /\ [Next]_vars => [Log!Next]_(Log!vars)
  BY LogNext
<1> QED
  BY <1>1, <1>2, InitRows, NextRows, AlwaysTyped, PTL DEF Spec, ImplementsLog, Log!Spec
=============================================================================
