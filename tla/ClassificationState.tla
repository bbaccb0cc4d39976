------------------------ MODULE ClassificationState ------------------------
(***************************************************************************)
(* The tables that classification, sender rules, reclassify and review     *)
(* share: SenderRule, EmailClassification with its ReviewDecision, and     *)
(* ClassificationRevision; and the requests that are running on them.  One *)
(* action is one statement or one transaction.  An email is numbered by    *)
(* its received date; a field that is null is None, NoHit, NoSnap or 0.    *)
(***************************************************************************)
EXTENDS Integers, FiniteSets

CONSTANTS
    Emails,     \* NormalizedEmail rows, newest the largest
    Rules,      \* SenderRule ids; of two that match, the smaller wins
    Versions,   \* contents (pattern and category) a rule may have
    Covers,     \* Covers[r][v]: emails that version v of rule r matches
    Unusable,   \* versions of rules whose stored category is not in the enum
    None,       \* null
    Jobs,       \* requests that classify: the batch, or one email
    Runs,       \* reclassify requests, by their batchId
    Undos,      \* requests that undo a batch
    Reviewers,  \* review requests
    Writers,    \* requests that write rules
    Requested,  \* those requests that come, one set of these
    MaxStrikes, \* MAX_CONSECUTIVE_REJECTIONS, MAX_CONSECUTIVE_AI_FAILURES
    Limit,      \* query.limit of a reclassify
    Faults      \* what may go wrong: see FaultKinds

FaultKinds == {"ai",     \* the provider fails, rejects, or its breaker is open
               "load",   \* the query that loads the rules fails
               "crash"}  \* the process dies

ASSUME ClassificationAssumption ==
    /\ IsFiniteSet(Emails) /\ Emails \subseteq Nat \ {0}
    /\ Rules \subseteq Nat /\ Versions \subseteq Nat \ {0}
    /\ Covers \in [Rules -> [Versions -> SUBSET Emails]]
    /\ Unusable \subseteq Rules \X Versions
    /\ None \notin Rules \cup Runs \cup Jobs
    /\ Jobs \cap Runs = {}
    /\ Requested \subseteq SUBSET (Jobs \cup Runs \cup Undos \cup Reviewers \cup Writers)
    /\ MaxStrikes \in Nat \ {0} /\ Limit \in Nat \ {0}
    /\ Faults \subseteq FaultKinds

VARIABLES
    rules,   \* SenderRule rows
    rows,    \* EmailClassification row of each email, with its ReviewDecision
    born,    \* ids of classification rows given out, for each email
    revs,    \* ClassificationRevision of a batch for an email
    cache,   \* SenderRulesService.matcherCache
    jobs, calls, runs, undos, reviews, writers  \* requests

tables == <<rules, rows, born, revs>>
requests == <<jobs, calls, runs, undos, reviews, writers>>
vars == <<rules, rows, born, revs, cache, jobs, calls, runs, undos, reviews, writers>>

----------------------------------------------------------------------------
(* Tables.                                                                 *)

\* The id of a deleted rule is not given again.
Rule == [state : {"new", "stored", "gone"}, on : BOOLEAN, ver : Versions \cup {0}]
Stored(r) == rules[r].state = "stored"

Hit == [rule : Rules \cup {None}, ver : Versions \cup {0}]
NoHit == [rule |-> None, ver |-> 0]
Matcher == [Emails -> Hit]

\* ClassificationSnapshot.  by and hit: what wrote the values, and for a rule
\* its id and version; link: senderRuleId; why: the batch whose release put
\* its own reason.
Snap == [by : {"ai", "fallback", "rule", "none"}, hit : Hit, link : Rules \cup {None},
         flag : BOOLEAN, why : Runs \cup {None}]
NoSnap == [by |-> "none", hit |-> NoHit, link |-> None, flag |-> FALSE, why |-> None]

\* buildSenderRuleAttempt, and the two kinds of answer from the provider.
RuleSnap(h) == [by |-> "rule", hit |-> h, link |-> h.rule, flag |-> FALSE, why |-> None]
AiSnaps == {[NoSnap EXCEPT !.by = "ai"], [NoSnap EXCEPT !.by = "fallback", !.flag = TRUE]}

Row == [id : Nat, snap : Snap, reviewed : BOOLEAN]
NoRow == [id |-> 0, snap |-> NoSnap, reviewed |-> FALSE]
NewRow(id, s) == [id |-> id, snap |-> s, reviewed |-> FALSE]
HasRow(e) == rows[e].id # 0

Rev == [act : {"none", "update", "claim", "release"},
        status : {"none", "applied", "deferred", "reclassified", "marked_review"},
        id : Nat, prev : Snap, next : Snap, undone : BOOLEAN]
NoRev == [act |-> "none", status |-> "none", id |-> 0, prev |-> NoSnap,
          next |-> NoSnap, undone |-> FALSE]

\* Foreign key of senderRuleId, and the UPSERT of persist, which writes over
\* whatever row the email has by now and leaves its ReviewDecision.
LinkHolds(s) == s.link \in {r \in Rules : Stored(r)} \cup {None}
Upsert(e, s) ==
    /\ rows' = [rows EXCEPT ![e] =
         IF HasRow(e) THEN [@ EXCEPT !.snap = s] ELSE NewRow(born[e] + 1, s)]
    /\ born' = [born EXCEPT ![e] = IF HasRow(e) THEN @ ELSE @ + 1]

----------------------------------------------------------------------------
(* Matching.                                                               *)

Matching(e) == {r \in Rules : Stored(r) /\ rules[r].on /\ e \in Covers[r][rules[r].ver]}
Winner(e) == CHOOSE r \in Matching(e) : \A q \in Matching(e) : r <= q
Compiled == [e \in Emails |-> IF Matching(e) = {} THEN NoHit
                              ELSE [rule |-> Winner(e), ver |-> rules[Winner(e)].ver]]
\* A match whose output the schema accepts.
Usable(h) == h # NoHit /\ <<h.rule, h.ver>> \notin Unusable

----------------------------------------------------------------------------
(* Requests.  Each runs once: the sets of requests bound the behaviours.   *)

\* The promise in matcherCache, named by the request that began to load it.
Cache == [at : {"none", "loading", "loaded"}, by : Jobs \cup {None}, hits : Matcher]
NoMatcher == [e \in Emails |-> NoHit]
NoCache == [at |-> "none", by |-> None, hits |-> NoMatcher]

\* waits: whose promise it awaits; todo: candidates before the rule pass;
\* left: those for the AI loop; one: classifyEmail without a batch
Job == [at : {"idle", "load", "query", "read", "await", "rules", "ai", "call", "done"},
        one : BOOLEAN,
        waits : Jobs \cup {None}, hits : Matcher, todo : SUBSET Emails,
        left : SUBSET Emails, strikes : 0..MaxStrikes]
NoJob == [at |-> "idle", one |-> FALSE, waits |-> None, hits |-> NoMatcher, todo |-> {},
          left |-> {}, strikes |-> 0]
JobDone == [NoJob EXCEPT !.at = "done"]

\* classifyEmail, called by a job or a run.  snap: what it will write, or the
\* row it returns.
Failures == {"open", "ai", "db"}
Call == [at : {"none", "match", "ask", "write", "done"} \cup Failures,
         mail : Emails \cup {0}, snap : Snap]
NoCall == [at |-> "none", mail |-> 0, snap |-> NoSnap]

Cand == [mail : Emails, act : {"update", "claim", "release"}, id : Nat, prev : Snap, next : Snap]
\* mode: query.release; on: the rule was enabled; cur: the released candidate
Run == [at : {"idle", "load", "scan", "next", "call", "record", "restore", "done", "dead"},
        rule : Rules \cup {None}, on : BOOLEAN, matching : BOOLEAN,
        mode : {"reclassify", "mark_review"}, hits : Matcher, todo : SUBSET Cand,
        cur : SUBSET Cand, aiDown : BOOLEAN, strikes : 0..MaxStrikes]
NoRun == [at |-> "idle", rule |-> None, on |-> FALSE, matching |-> FALSE, mode |-> "reclassify",
          hits |-> NoMatcher, todo |-> {}, cur |-> {}, aiDown |-> FALSE, strikes |-> 0]

\* id, snap: the current row as read; 0: none
Undo == [at : {"idle", "next", "apply", "done"}, batch : Runs \cup {None}, todo : SUBSET Emails,
         mail : Emails \cup {0}, id : Nat, restore : Snap]
NoUndo == [at |-> "idle", batch |-> None, todo |-> {}, mail |-> 0, id |-> 0, restore |-> NoSnap]

Review == [at : {"idle", "delete", "create", "upsert", "done"}, mail : Emails \cup {0}, id : Nat]
NoReview == [at |-> "idle", mail |-> 0, id |-> 0]
ReviewDone == [NoReview EXCEPT !.at = "done"]

Writer == [at : {"idle", "write", "invalidate", "done"}, rule : Rules \cup {None}, seen : Rule]
NoRule == [state |-> "new", on |-> FALSE, ver |-> 0]
NoWriter == [at |-> "idle", rule |-> None, seen |-> NoRule]
WriterDone == [NoWriter EXCEPT !.at = "done"]

TypeOK ==
    /\ rules \in [Rules -> Rule]
    /\ rows \in [Emails -> Row] /\ born \in [Emails -> Nat]
    /\ revs \in [Runs -> [Emails -> Rev]]
    /\ cache \in Cache
    /\ jobs \in [Jobs -> Job] /\ calls \in [Jobs \cup Runs -> Call]
    /\ runs \in [Runs -> Run] /\ undos \in [Undos -> Undo]
    /\ reviews \in [Reviewers -> Review] /\ writers \in [Writers -> Writer]
============================================================================
