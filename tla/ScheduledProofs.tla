--------------------------- MODULE ScheduledProofs ---------------------------
(***************************************************************************)
(* Proofs about what brings mail in.  EmailSync, for any number of         *)
(* requests, messages and changes of UIDVALIDITY: the watermark passes no  *)
(* message that was lost.  DailyRuns, whichever runs cover a day and       *)
(* however their steps fail: a mail is captured once, and mail that a run  *)
(* leaves behind is told.                                                  *)
(***************************************************************************)
EXTENDS EmailSync, DailyRuns, TLAPS, FiniteSetTheorems, FunctionTheorems, SequenceTheorems

----------------------------------------------------------------------------
(* The syncs of one INBOX.                                                 *)

LEMMA ClosedTypes == NoJob \in Job /\ NoRow \in Row
BY SyncAssumption DEF NoJob, Job, NoRow, Row

\* INBOX is no larger than the range of its UIDs.
LEMMA PresentSize == /\ IsFiniteSet(Present) /\ Cardinality(Present) \in 0..MaxMsgs
                     /\ \A S \in SUBSET Present : Cardinality(S) \in 0..Cardinality(Present)
<1>1. IsFiniteSet(Uids) /\ Cardinality(Uids) = MaxMsgs
  <2>1. IsFiniteSet(1..MaxMsgs)
    BY FS_Interval, SyncAssumption
  <2>2. Cardinality(1..MaxMsgs) = IF 1 > MaxMsgs THEN 0 ELSE MaxMsgs - 1 + 1
    BY FS_Interval, SyncAssumption
  <2>3. QED BY <2>1, <2>2, SyncAssumption DEF Uids
<1>2. Present \subseteq Uids
  BY DEF Present
<1>3. IsFiniteSet(Present) /\ Cardinality(Present) <= MaxMsgs
  BY <1>1, <1>2, FS_Subset
<1>4. ASSUME NEW S \in SUBSET Present PROVE Cardinality(S) \in 0..Cardinality(Present)
  <2>1. IsFiniteSet(S) /\ Cardinality(S) <= Cardinality(Present)
    BY <1>3, FS_Subset
  <2>2. QED BY <1>3, <2>1, FS_CardinalityType
<1>5. QED BY <1>3, <1>4, FS_CardinalityType, SyncAssumption

----------------------------------------------------------------------------
(* Types.                                                                  *)

LEMMA InitType == Init => TypeOK
BY ClosedTypes, SyncAssumption DEF Init, TypeOK, SyncState

\* Every step of a request keeps the types.
LEMMA StepType == ASSUME TypeOK, NEW t \in Tasks, Begin(t) \/ Step(t) PROVE TypeOK'
<1>1. jobs[t] \in Job /\ cursor \in SyncState
  BY DEF TypeOK
<1>2. ASSUME Return(t) PROVE jobs' \in [Tasks -> Job]
  BY <1>2, ClosedTypes DEF Return, TypeOK
<1>3. ASSUME NEW to \in {"open", "error"}, Go(t, to) PROVE jobs' \in [Tasks -> Job]
  <2>1. [jobs[t] EXCEPT !.at = to] \in Job
    BY <1>1 DEF Job
  <2>2. QED BY <1>3, <2>1 DEF Go, TypeOK
<1>4. ASSUME NEW at \in {"fetch", "finish"}, NEW uids \in SUBSET Uids, NEW last \in 0..MaxMsgs,
             Opened(t, at, uids, last)
      PROVE  jobs' \in [Tasks -> Job]
  <2>1. [jobs[t] EXCEPT !.at = at, !.todo = uids, !.val = validity, !.last = last] \in Job
    <3>1. validity \in 0..MaxValidity /\ at \in {"idle", "mark", "open", "fetch", "finish", "error"}
      BY SyncAssumption DEF TypeOK
    <3>2. QED BY <1>1, <3>1 DEF Job
  <2>2. QED BY <1>4, <2>1 DEF Opened, TypeOK
<1>5. Listed(jobs[t].since) \subseteq Uids
  BY DEF Listed, Largest, Present
<1>6. CASE Begin(t)
  <2>1. PICK dry \in BOOLEAN : jobs' = [jobs EXCEPT ![t] =
           [NoJob EXCEPT !.at = "mark", !.dryRun = dry, !.since = cursor.last, !.last = cursor.last]]
    BY <1>6 DEF Begin
  <2>2. [NoJob EXCEPT !.at = "mark", !.dryRun = dry, !.since = cursor.last, !.last = cursor.last] \in Job
    BY <1>1, ClosedTypes DEF Job, SyncState
  <2>3. jobs' \in [Tasks -> Job]
    BY <2>1, <2>2 DEF TypeOK
  <2>4. QED BY <1>6, <2>3 DEF Begin, TypeOK, server, db
<1>7. CASE Mark(t)
  <2>1. jobs' \in [Tasks -> Job]
    BY <1>7, <1>2, <1>3 DEF Mark
  <2>2. cursor' \in SyncState
    BY <1>7, <1>1 DEF Mark, SyncState
  <2>3. QED BY <1>7, <2>1, <2>2 DEF Mark, TypeOK, server
<1>8. CASE SyncOpen(t)
  <2>1. jobs[t].last \in 0..MaxMsgs
    BY <1>1 DEF Job
  <2>2. jobs' \in [Tasks -> Job]
    BY <1>8, <1>2, <1>4, <1>5, <2>1 DEF SyncOpen
  <2>3. QED BY <1>8, <2>2 DEF SyncOpen, TypeOK, server, db
<1>9. CASE IngestOpen(t)
  <2>1. CASE Present = {}
    <3>1. Opened(t, "finish", {}, 0)
      BY <1>9, <2>1 DEF IngestOpen
    <3>2. jobs' \in [Tasks -> Job]
      BY <1>4, <3>1, SyncAssumption
    <3>3. QED BY <1>9, <3>2 DEF IngestOpen, TypeOK, server, db
  <2>2. CASE Present # {}
    <3> DEFINE uids == Newest(Listed(jobs[t].since))
    <3>1. PICK last \in Largest(uids \cup {jobs[t].since}) : Opened(t, "fetch", uids, last)
      BY <1>9, <2>2 DEF IngestOpen
    <3>2. uids \subseteq Uids
      BY <1>5 DEF Newest
    <3>3. jobs[t].since \in 0..MaxMsgs
      BY <1>1 DEF Job
    <3>4. last \in 0..MaxMsgs
      BY <3>1, <3>2, <3>3, SyncAssumption DEF Largest, Uids
    <3>5. jobs' \in [Tasks -> Job]
      BY <1>4, <3>1, <3>2, <3>4
    <3>6. QED BY <1>9, <3>5 DEF IngestOpen, TypeOK, server, db
  <2>3. QED BY <2>1, <2>2
<1>10. CASE SyncFetch(t)
  <2>1. PICK u \in jobs[t].todo :
          LET done == [jobs[t] EXCEPT !.todo = @ \ {u}]
          IN \/ jobs' = [jobs EXCEPT ![t] = done] /\ UNCHANGED raws
             \/ /\ jobs' = [jobs EXCEPT ![t] = [done EXCEPT !.last = IF u > @ THEN u ELSE @]]
                /\ raws' = [raws EXCEPT ![u] = Stored(u, jobs[t].val)]
    BY <1>10 DEF SyncFetch
  <2>2. u \in Uids /\ u \in 0..MaxMsgs
    BY <1>1, SyncAssumption DEF Job, Uids
  <2>3. [jobs[t] EXCEPT !.todo = @ \ {u}] \in Job
    BY <1>1 DEF Job
  <2>4. [[jobs[t] EXCEPT !.todo = @ \ {u}] EXCEPT !.last = IF u > @ THEN u ELSE @] \in Job
    BY <1>1, <2>2, <2>3 DEF Job
  <2>5. jobs' \in [Tasks -> Job]
    BY <2>1, <2>3, <2>4 DEF TypeOK
  <2>6. Stored(u, jobs[t].val) \in Row
    BY <1>1, <2>2 DEF Stored, TypeOK, Row, Job
  <2>7. raws' \in [Uids -> Row]
    BY <2>1, <2>2, <2>6 DEF TypeOK
  <2>8. QED BY <1>10, <2>5, <2>7 DEF SyncFetch, TypeOK, server
<1>11. CASE IngestStore(t)
  <2>1. PICK u \in jobs[t].todo : jobs' = [jobs EXCEPT ![t].todo = @ \ {u}]
                                  /\ (mails' = mails \cup {u} \/ UNCHANGED mails)
    BY <1>11 DEF IngestStore
  <2>2. u \in Uids /\ [jobs[t] EXCEPT !.todo = @ \ {u}] \in Job
    BY <1>1 DEF Job
  <2>3. jobs' \in [Tasks -> Job]
    BY <2>1, <2>2 DEF TypeOK
  <2>4. QED BY <1>11, <2>1, <2>2, <2>3 DEF IngestStore, TypeOK, server
<1>12. CASE Finish(t)
  <2>1. cursor' \in SyncState
    BY <1>12, <1>1 DEF Finish, Advanced, SyncState, Job
  <2>2. QED BY <1>12, <1>2, <2>1 DEF Finish, TypeOK, server
<1>13. CASE Throw(t)
  BY <1>13, <1>3 DEF Throw, TypeOK, server, db
<1>14. CASE Catch(t)
  <2>1. cursor' \in SyncState
    BY <1>14, <1>1 DEF Catch, SyncState
  <2>2. QED BY <1>14, <1>2, <2>1 DEF Catch, TypeOK, server
<1>15. QED
  BY <1>6, <1>7, <1>8, <1>9, <1>10, <1>11, <1>12, <1>13, <1>14 DEF Step

\* A renumbering of INBOX keeps the UIDs within those there were.
LEMMA Renumbering ==
    ASSUME TypeOK, ResetValidity
    PROVE  /\ inbox' \in [Uids -> 0..MaxMsgs]
           /\ nextUid' \in 1..MaxMsgs + 1
           /\ \A u \in Uids : inbox'[u] # 0 => u < nextUid'
<1> DEFINE rank(m) == Cardinality({u \in Present : inbox[u] <= m})
           of(u) == CHOOSE v \in Present : rank(inbox[v]) = u
<1>1. inbox' = [u \in Uids |-> IF \E v \in Present : rank(inbox[v]) = u THEN inbox[of(u)] ELSE 0]
  BY DEF ResetValidity
<1>2. nextUid' = Cardinality(Present) + 1
  BY DEF ResetValidity
<1>3. ASSUME NEW u \in Uids, NEW v \in Present, rank(inbox[v]) = u
      PROVE  inbox[of(u)] \in 0..MaxMsgs /\ u <= Cardinality(Present)
  <2>1. of(u) \in Present
    BY <1>3
  <2>2. {w \in Present : inbox[w] <= inbox[v]} \in SUBSET Present
    OBVIOUS
  <2>3. u \in 0..Cardinality(Present)
    BY <1>3, <2>2, PresentSize
  <2>4. inbox[of(u)] \in 0..MaxMsgs
    BY <2>1 DEF TypeOK, Present
  <2>5. QED BY <2>3, <2>4, PresentSize, SyncAssumption
<1> HIDE DEF rank, of
<1>4. inbox' \in [Uids -> 0..MaxMsgs]
  BY <1>1, <1>3, SyncAssumption
<1>5. ASSUME NEW u \in Uids, inbox'[u] # 0 PROVE u < nextUid'
  <2>1. \E v \in Present : rank(inbox[v]) = u
    BY <1>1, <1>5
  <2>2. u <= Cardinality(Present)
    BY <1>3, <2>1
  <2>3. QED BY <1>2, <2>2, PresentSize, SyncAssumption DEF Uids
<1>6. QED BY <1>2, <1>4, <1>5, PresentSize, SyncAssumption

LEMMA NextType == TypeOK /\ [Next]_vars => TypeOK'
<1> SUFFICES ASSUME TypeOK, [Next]_vars PROVE TypeOK'
  OBVIOUS
<1>1. CASE \E t \in Tasks : Begin(t) \/ Step(t)
  BY <1>1, StepType
<1>2. CASE Deliver
  <2>1. delivered' \in 0..MaxMsgs /\ nextUid' \in 1..MaxMsgs + 1
    BY <1>2, SyncAssumption DEF Deliver, TypeOK
  <2>2. inbox' \in [Uids -> 0..MaxMsgs]
    BY <1>2, <2>1 DEF Deliver, TypeOK
  <2>3. QED BY <1>2, <2>1, <2>2 DEF Deliver, TypeOK, db
<1>3. CASE \E u \in Uids : Expunge(u)
  BY <1>3, SyncAssumption DEF Expunge, TypeOK, db
<1>4. CASE ResetValidity
  <2>1. validity' \in 1..MaxValidity /\ UNCHANGED <<delivered, raws, mails, cursor, jobs>>
    BY <1>4, SyncAssumption DEF ResetValidity, TypeOK, db
  <2>2. QED BY <1>4, <2>1, Renumbering DEF TypeOK
<1>5. CASE Crash
  BY <1>5, ClosedTypes DEF Crash, TypeOK, server, db
<1>6. CASE UNCHANGED vars
  BY <1>6 DEF TypeOK, vars
<1>7. QED BY <1>1, <1>2, <1>3, <1>4, <1>5, <1>6 DEF Next

\* The tables, the watermark and the requests keep their types.
THEOREM TypeCorrect == Spec => []TypeOK
<1>1. QED BY InitType, NextType, PTL DEF Spec
----------------------------------------------------------------------------
(* What a RawEmail's UIDVALIDITY tells.                                    *)

\* UIDs in INBOX, and UIDs stored under its UIDVALIDITY, lie below UIDNEXT.
BelowNext == \A u \in Uids :
    /\ inbox[u] # 0 => u < nextUid
    /\ raws[u].val <= validity
    /\ raws[u].val = validity => u < nextUid

RowInv == TypeOK /\ BelowNext /\ RowNamesMessage

LEMMA InitRowInv == Init => RowInv
<1> SUFFICES ASSUME Init PROVE RowInv
  OBVIOUS
<1>1. TypeOK
  BY InitType
<1>2. QED BY <1>1, SyncAssumption DEF Init, RowInv, BelowNext, RowNamesMessage, NoRow

\* Only SyncFetch writes RawEmail, and it adds at most one row.
LEMMA RawsStep ==
    ASSUME TypeOK, NEW t \in Tasks, Begin(t) \/ Step(t)
    PROVE  /\ UNCHANGED server
           /\ \/ UNCHANGED raws
              \/ \E u \in Uids : /\ raws[u] = NoRow /\ inbox[u] # 0
                                /\ raws' = [raws EXCEPT ![u] = [msg |-> inbox[u], val |-> validity]]
<1>1. CASE SyncFetch(t)
  <2>1. PICK u \in jobs[t].todo :
          \/ UNCHANGED raws
          \/ inbox[u] # 0 /\ raws' = [raws EXCEPT ![u] = Stored(u, jobs[t].val)]
    BY <1>1 DEF SyncFetch
  <2>2. u \in Uids
    BY DEF TypeOK, Job
  <2>3. jobs[t].val = validity
    BY <1>1 DEF SyncFetch
  <2>4. CASE raws[u] = NoRow
    BY <1>1, <2>1, <2>2, <2>3, <2>4 DEF SyncFetch, Stored
  <2>5. CASE raws[u] # NoRow
    <3>1. Stored(u, jobs[t].val) = raws[u]
      BY <2>5 DEF Stored
    <3>2. [raws EXCEPT ![u] = raws[u]] = raws
      BY <2>2 DEF TypeOK
    <3>3. QED BY <1>1, <2>1, <3>1, <3>2 DEF SyncFetch
  <2>6. QED BY <2>4, <2>5
<1>2. CASE ~SyncFetch(t)
  BY <1>2 DEF Begin, Step, Mark, SyncOpen, IngestOpen, IngestStore, Finish, Throw, Catch, server, db
<1>3. QED BY <1>1, <1>2

LEMMA NextRowInv == RowInv /\ [Next]_vars => RowInv'
<1> SUFFICES ASSUME RowInv, [Next]_vars PROVE RowInv'
  OBVIOUS
<1>1. TypeOK /\ TypeOK'
  BY NextType DEF RowInv
<1>2. ASSUME NEW t \in Tasks, Begin(t) \/ Step(t) PROVE BelowNext' /\ RowNamesMessage'
  <2>1. UNCHANGED <<inbox, nextUid, validity>>
    BY <1>1, <1>2, RawsStep DEF server
  <2>2. CASE UNCHANGED raws
    BY <2>1, <2>2 DEF RowInv, BelowNext, RowNamesMessage
  <2>3. CASE raws' # raws
    <3>1. PICK u \in Uids : /\ inbox[u] # 0
                            /\ raws' = [raws EXCEPT ![u] = [msg |-> inbox[u], val |-> validity]]
      BY <1>1, <1>2, <2>3, RawsStep
    <3>2. ASSUME NEW v \in Uids PROVE raws'[v] = IF v = u THEN [msg |-> inbox[u], val |-> validity] ELSE raws[v]
      BY <1>1, <3>1 DEF TypeOK
    <3>3. BelowNext'
      BY <1>1, <2>1, <3>1, <3>2 DEF RowInv, BelowNext, TypeOK
    <3>4. RowNamesMessage'
      BY <2>1, <3>1, <3>2 DEF RowInv, RowNamesMessage
    <3>5. QED BY <3>3, <3>4
  <2>4. QED BY <2>2, <2>3
<1>3. CASE Deliver
  <2>1. /\ nextUid \in Uids /\ nextUid' = nextUid + 1 /\ UNCHANGED <<validity, raws>>
        /\ inbox' = [inbox EXCEPT ![nextUid] = delivered']
    BY <1>1, <1>3, SyncAssumption DEF Deliver, TypeOK, Uids, db
  <2>2. ASSUME NEW u \in Uids PROVE inbox'[u] = IF u = nextUid THEN delivered' ELSE inbox[u]
    BY <1>1, <2>1 DEF TypeOK
  <2>3. BelowNext'
    BY <2>1, <2>2 DEF RowInv, BelowNext, Uids
  <2>4. RowNamesMessage'
    BY <2>1, <2>2 DEF RowInv, BelowNext, RowNamesMessage, Uids
  <2>5. QED BY <1>1, <2>3, <2>4 DEF RowInv
<1>4. ASSUME NEW u \in Uids, Expunge(u) PROVE RowInv'
  <2>1. ASSUME NEW v \in Uids PROVE inbox'[v] = IF v = u THEN 0 ELSE inbox[v]
    BY <1>1, <1>4 DEF Expunge, TypeOK
  <2>2. UNCHANGED <<nextUid, validity, raws>>
    BY <1>4 DEF Expunge, db
  <2>3. QED BY <1>1, <2>1, <2>2 DEF RowInv, BelowNext, RowNamesMessage
<1>5. CASE ResetValidity
  <2>1. validity' = validity + 1 /\ raws' = raws
    BY <1>5 DEF ResetValidity, db
  <2>2. ASSUME NEW u \in Uids PROVE raws'[u].val < validity' /\ (inbox'[u] # 0 => u < nextUid')
    <3>1. raws[u].val \in Int /\ validity \in Int /\ raws[u].val <= validity
      BY <1>1 DEF RowInv, BelowNext, TypeOK, Row
    <3>2. QED BY <1>1, <1>5, <2>1, <3>1, Renumbering
  <2>3. raws' \in [Uids -> Row] /\ validity' \in Int
    BY <1>1 DEF TypeOK
  <2>4. BelowNext'
    BY <2>2, <2>3 DEF BelowNext, Row
  <2>5. RowNamesMessage'
    BY <2>2, <2>3 DEF RowNamesMessage, Row
  <2>6. QED BY <1>1, <2>4, <2>5 DEF RowInv
<1>6. CASE Crash \/ UNCHANGED vars
  BY <1>1, <1>6 DEF Crash, vars, server, db, RowInv, BelowNext, RowNamesMessage
<1>7. QED BY <1>1, <1>2, <1>3, <1>4, <1>5, <1>6 DEF Next, RowInv

\* Whatever fails and however often UIDVALIDITY changes, a RawEmail stored
\* under the current one names the message that its UID names.
THEOREM RowNamesMessageHolds == Spec => []RowNamesMessage
<1>1. RowInv => RowNamesMessage
  BY DEF RowInv
<1>2. QED BY <1>1, InitRowInv, NextRowInv, PTL DEF Spec
----------------------------------------------------------------------------
(* The watermark of syncAccount alone.                                     *)

\* syncAccount is the only ingestion path, UIDs are never renumbered, and
\* the server never answers a FETCH without the source.
SyncOnly == IngestTasks = {} /\ {"validity", "nosource"} \cap Faults = {}

Missing(u) == inbox[u] # 0 /\ raws[u].msg # inbox[u]

\* What a live run will not fetch any more, and lies below what it has
\* stored or will fetch, is stored.
FetchCovers(t) ==
    jobs[t].at = "fetch" /\ ~jobs[t].dryRun =>
        \A u \in Uids, v \in jobs[t].todo \cup {jobs[t].last} :
            Missing(u) /\ u <= v => u \in jobs[t].todo
JobInv(t) ==
    /\ \A u \in Uids : u <= jobs[t].since => ~Missing(u)
    /\ jobs[t].at \in {"mark", "open"} => jobs[t].last = jobs[t].since
    /\ jobs[t].at # "finish"
    /\ FetchCovers(t)

\* Nothing at or above UIDNEXT is stored, fetched or below a watermark.
Bounded ==
    /\ \A u \in Uids : inbox[u] # 0 \/ raws[u] # NoRow => u < nextUid
    /\ cursor.last < nextUid
    /\ \A t \in Tasks : \A v \in jobs[t].todo \cup {jobs[t].since, jobs[t].last} : v < nextUid
RowsRight == \A u \in Uids : raws[u] # NoRow => ~Missing(u)

MarkInv == TypeOK /\ Bounded /\ RowsRight /\ NoneSkipped /\ \A t \in Tasks : JobInv(t)

LEMMA InitMarkInv == Init => MarkInv
<1> SUFFICES ASSUME Init PROVE MarkInv
  OBVIOUS
<1>1. TypeOK
  BY InitType
<1>2. \A u \in Uids : inbox[u] = 0 /\ raws[u] = NoRow
  BY DEF Init
<1>3. \A t \in Tasks : jobs[t] = NoJob
  BY DEF Init
<1>4. Bounded /\ RowsRight /\ NoneSkipped
  BY <1>2, <1>3 DEF Init, Bounded, RowsRight, NoneSkipped, NoJob, Missing
<1>5. \A t \in Tasks : JobInv(t)
  BY <1>2, <1>3 DEF JobInv, FetchCovers, NoJob, Missing
<1>6. QED BY <1>1, <1>4, <1>5 DEF MarkInv

\* A step of a request leaves the server alone, changes its own job only,
\* and whatever it does, nothing that was stored is missing afterwards.
LEMMA OneStep ==
    ASSUME MarkInv, NEW t \in Tasks, Begin(t) \/ Step(t)
    PROVE  /\ UNCHANGED <<inbox, nextUid>>
           /\ \A u \in Uids : Missing(u)' => Missing(u)
           /\ \A d \in Tasks \ {t} : jobs'[d] = jobs[d]
           /\ \A u \in Uids : raws'[u] # raws[u] => inbox[u] # 0 /\ ~Missing(u)'
<1>1. TypeOK
  BY DEF MarkInv
<1>2. UNCHANGED <<inbox, nextUid>>
  BY <1>1, RawsStep DEF server
<1>3. \A d \in Tasks \ {t} : jobs'[d] = jobs[d]
  <2>1. \E job : jobs' = [jobs EXCEPT ![t] = job]
    <3>1. CASE Begin(t)
      BY <3>1 DEF Begin
    <3>2. CASE Step(t)
      BY <3>2 DEF Step, Mark, SyncOpen, IngestOpen, SyncFetch, IngestStore, Finish, Throw, Catch,
           Go, Return, Opened
    <3>3. QED BY <3>1, <3>2
  <2>2. QED BY <1>1, <2>1 DEF TypeOK
<1>4. CASE UNCHANGED raws
  BY <1>2, <1>3, <1>4 DEF Missing
<1>5. CASE raws' # raws
  <2>1. PICK u \in Uids : /\ inbox[u] # 0
                          /\ raws' = [raws EXCEPT ![u] = [msg |-> inbox[u], val |-> validity]]
    BY <1>1, <1>5, RawsStep
  <2>2. \A v \in Uids : raws'[v] = IF v = u THEN [msg |-> inbox[u], val |-> validity] ELSE raws[v]
    BY <1>1, <2>1 DEF TypeOK
  <2>3. QED BY <1>2, <1>3, <2>1, <2>2 DEF Missing
<1>6. QED BY <1>4, <1>5

\* A step of a request keeps what the other requests rely on.
LEMMA OtherJobs ==
    ASSUME MarkInv, NEW t \in Tasks, Begin(t) \/ Step(t), NEW d \in Tasks \ {t}
    PROVE  JobInv(d)'
<1>1. jobs'[d] = jobs[d] /\ \A u \in Uids : Missing(u)' => Missing(u)
  BY OneStep
<1>2. JobInv(d)
  BY DEF MarkInv
<1>3. QED BY <1>1, <1>2 DEF JobInv, FetchCovers

LEMMA StepMarkInv ==
    ASSUME SyncOnly, MarkInv, NEW t \in Tasks, Begin(t) \/ Step(t)
    PROVE  MarkInv'
<1>1. TypeOK /\ TypeOK'
  BY StepType DEF MarkInv
<1>2. jobs[t] \in Job /\ jobs'[t] \in Job /\ cursor \in SyncState
  BY <1>1 DEF TypeOK
<1>3. JobInv(t) /\ NoneSkipped /\ Bounded
  BY DEF MarkInv
<1>4. ASSUME NEW u \in Uids, Missing(u)' PROVE Missing(u) /\ u <= MaxMsgs
  BY <1>4, OneStep DEF Uids
<1>5. RowsRight'
  <2>1. SUFFICES ASSUME NEW u \in Uids, raws'[u] # NoRow PROVE ~Missing(u)'
    BY DEF RowsRight
  <2>2. CASE raws'[u] = raws[u]
    BY <1>4, <2>1, <2>2 DEF MarkInv, RowsRight
  <2>3. QED BY <2>2, OneStep
<1>6. \A u \in Uids : inbox'[u] # 0 \/ raws'[u] # NoRow => u < nextUid'
  <2>1. UNCHANGED <<inbox, nextUid>> /\ \A u \in Uids : raws'[u] # raws[u] => inbox[u] # 0
    BY OneStep
  <2>2. QED BY <1>3, <2>1 DEF Bounded
\* It is enough to look at the task's own job and the watermark.
<1>7. ASSUME JobInv(t)',
             \A u \in Uids : u <= cursor'.last => ~Missing(u)',
             cursor'.last < nextUid,
             \A v \in jobs'[t].todo \cup {jobs'[t].since, jobs'[t].last} : v < nextUid
      PROVE  MarkInv'
  <2>1. NoneSkipped'
    BY <1>7 DEF NoneSkipped, Missing
  <2>2. Bounded'
    <3>1. nextUid' = nextUid /\ \A d \in Tasks \ {t} : jobs'[d] = jobs[d]
      BY OneStep
    <3>2. QED BY <1>3, <1>6, <1>7, <3>1 DEF Bounded
  <2>3. \A d \in Tasks : JobInv(d)'
    BY <1>7, OtherJobs
  <2>4. QED BY <1>1, <1>5, <2>1, <2>2, <2>3 DEF MarkInv
<1>8. \A u \in Uids : u <= cursor.last => ~Missing(u)'
  BY <1>3, <1>4 DEF NoneSkipped, Missing
<1>9. \A u \in Uids : u <= jobs[t].since => ~Missing(u)'
  BY <1>3, <1>4 DEF JobInv
<1>10. ASSUME jobs'[t] = NoJob PROVE /\ JobInv(t)'
                                    /\ \A v \in jobs'[t].todo \cup {jobs'[t].since, jobs'[t].last} : v < nextUid
  <2>1. \A u \in Uids : ~(u <= 0)
    BY DEF Uids
  <2>2. 0 < nextUid
    BY <1>1 DEF TypeOK
  <2>3. QED BY <1>10, <2>1, <2>2 DEF JobInv, FetchCovers, NoJob
<1>11. Return(t) => jobs'[t] = NoJob
  BY <1>1 DEF Return, TypeOK
<1>12. ASSUME NEW to, Go(t, to) PROVE jobs'[t] = [jobs[t] EXCEPT !.at = to]
  BY <1>1, <1>12 DEF Go, TypeOK
<1>13. CASE Begin(t)
  <2>1. PICK dry \in BOOLEAN : jobs'[t] =
           [NoJob EXCEPT !.at = "mark", !.dryRun = dry, !.since = cursor.last, !.last = cursor.last]
    BY <1>1, <1>13 DEF Begin, TypeOK
  <2>2. cursor' = cursor
    BY <1>13 DEF Begin, db
  <2>3. jobs'[t].at = "mark" /\ jobs'[t].since = cursor.last /\ jobs'[t].last = cursor.last
        /\ jobs'[t].todo = {}
    BY <2>1 DEF NoJob
  <2>4. JobInv(t)'
    BY <1>8, <2>3 DEF JobInv, FetchCovers
  <2>5. QED BY <1>3, <1>7, <1>8, <2>2, <2>3, <2>4 DEF Bounded
<1>14. CASE Mark(t)
  <2>1. cursor'.last = cursor.last
    BY <1>2, <1>14 DEF Mark, SyncState
  <2>2. CASE Return(t)
    BY <1>3, <1>7, <1>8, <1>10, <1>11, <2>1, <2>2 DEF Bounded
  <2>3. CASE Go(t, "open")
    <3>1. jobs'[t] = [jobs[t] EXCEPT !.at = "open"]
      BY <1>12, <2>3
    <3>2. jobs'[t].at = "open" /\ jobs'[t].since = jobs[t].since /\ jobs'[t].last = jobs[t].last
          /\ jobs'[t].todo = jobs[t].todo
      BY <1>2, <3>1 DEF Job
    <3>3. JobInv(t)'
      BY <1>3, <1>9, <1>14, <3>2 DEF JobInv, FetchCovers, Mark
    <3>4. QED BY <1>3, <1>7, <1>8, <2>1, <3>2, <3>3 DEF Bounded
  <2>4. QED BY <1>14, <2>2, <2>3 DEF Mark
<1>15. CASE SyncOpen(t)
  <2>1. cursor' = cursor
    BY <1>15 DEF SyncOpen, db
  <2>2. CASE Return(t)
    BY <1>3, <1>7, <1>8, <1>10, <1>11, <2>1, <2>2 DEF Bounded
  <2>3. CASE Opened(t, "fetch", Listed(jobs[t].since), jobs[t].last)
    <3>1. jobs'[t] = [jobs[t] EXCEPT !.at = "fetch", !.todo = Listed(jobs[t].since),
                                     !.val = validity, !.last = jobs[t].last]
      BY <1>1, <2>3 DEF Opened, TypeOK
    <3>2. jobs'[t].at = "fetch" /\ jobs'[t].since = jobs[t].since /\ jobs'[t].last = jobs[t].since
          /\ jobs'[t].todo = Listed(jobs[t].since)
      BY <1>2, <1>3, <1>15, <3>1 DEF Job, JobInv, SyncOpen
    <3>3. ASSUME NEW u \in Uids, Missing(u)' PROVE u \in Listed(jobs[t].since)
      BY <1>3, <1>4, <3>3, <1>2 DEF JobInv, Listed, Present, Missing, Uids, Job
    <3>4. JobInv(t)'
      BY <1>9, <3>2, <3>3 DEF JobInv, FetchCovers
    <3>5. \A v \in Listed(jobs[t].since) : v < nextUid
      BY <1>3 DEF Listed, Largest, Present, Bounded
    <3>6. QED BY <1>3, <1>7, <1>8, <2>1, <3>2, <3>4, <3>5 DEF Bounded
  <2>4. QED BY <1>15, <2>2, <2>3 DEF SyncOpen
<1>16. CASE SyncFetch(t)
  <2>1. cursor' = cursor /\ jobs[t].at = "fetch"
    BY <1>16 DEF SyncFetch
  <2> DEFINE last(u) == IF u > jobs[t].last THEN u ELSE jobs[t].last
  <2>2. PICK u \in jobs[t].todo :
          \/ /\ jobs[t].dryRun \/ inbox[u] = 0
             /\ jobs' = [jobs EXCEPT ![t] = [jobs[t] EXCEPT !.todo = @ \ {u}]]
          \/ /\ ~jobs[t].dryRun
             /\ jobs' = [jobs EXCEPT ![t] = [[jobs[t] EXCEPT !.todo = @ \ {u}] EXCEPT !.last = last(u)]]
             /\ raws' = [raws EXCEPT ![u] = Stored(u, jobs[t].val)]
    BY <1>2, <1>16 DEF SyncFetch, SyncOnly, Job
  <2>3. u \in Uids
    BY <1>2 DEF Job
  <2>4. /\ jobs'[t].at = "fetch" /\ jobs'[t].since = jobs[t].since
        /\ jobs'[t].dryRun = jobs[t].dryRun /\ jobs'[t].todo = jobs[t].todo \ {u}
        /\ jobs'[t].last \in {jobs[t].last, last(u)}
        /\ jobs'[t].dryRun \/ inbox[u] = 0 \/ raws' = [raws EXCEPT ![u] = Stored(u, jobs[t].val)]
    <3>1. \/ jobs'[t] = [jobs[t] EXCEPT !.todo = @ \ {u}] /\ (jobs[t].dryRun \/ inbox[u] = 0)
          \/ /\ jobs'[t] = [[jobs[t] EXCEPT !.todo = @ \ {u}] EXCEPT !.last = last(u)]
             /\ raws' = [raws EXCEPT ![u] = Stored(u, jobs[t].val)]
      BY <1>1, <2>2 DEF TypeOK
    <3> HIDE DEF last
    <3>2. QED BY <1>2, <2>1, <3>1 DEF Job
  <2>5. jobs'[t].last \in jobs[t].todo \cup {jobs[t].last}
    BY <2>2, <2>4
  <2>6. \A v \in jobs'[t].todo \cup {jobs'[t].since, jobs'[t].last} : v < nextUid
    BY <1>3, <2>4, <2>5 DEF Bounded
  <2>7. ASSUME ~jobs'[t].dryRun PROVE ~Missing(u)'
    <3>1. inbox' = inbox
      BY OneStep
    <3>2. CASE inbox[u] = 0
      BY <3>1, <3>2 DEF Missing
    <3>3. CASE raws' = [raws EXCEPT ![u] = Stored(u, jobs[t].val)]
      <4>1. raws'[u] = Stored(u, jobs[t].val)
        BY <1>1, <2>3, <3>3 DEF TypeOK
      <4>2. QED BY <2>3, <3>1, <4>1 DEF Stored, Missing, MarkInv, RowsRight
    <3>4. QED BY <2>4, <2>7, <3>2, <3>3
  <2>8. FetchCovers(t)'
    <3>1. SUFFICES ASSUME ~jobs'[t].dryRun, NEW w \in Uids, Missing(w)',
                          NEW v \in jobs'[t].todo \cup {jobs'[t].last}, w <= v
                   PROVE  w \in jobs'[t].todo
      BY DEF FetchCovers
    <3>2. v \in jobs[t].todo \cup {jobs[t].last}
      BY <2>4, <2>5
    <3>3. Missing(w) /\ w \in jobs[t].todo
      BY <1>3, <1>4, <2>1, <2>4, <3>1, <3>2 DEF JobInv, FetchCovers
    <3>4. w # u
      BY <2>7, <3>1
    <3>5. QED BY <2>4, <3>3, <3>4
  <2>9. JobInv(t)'
    BY <1>9, <2>4, <2>8 DEF JobInv
  <2>10. QED BY <1>3, <1>7, <1>8, <2>1, <2>6, <2>9 DEF Bounded
<1>17. CASE Finish(t)
  <2>1. jobs[t].at = "fetch" /\ jobs[t].todo = {} /\ cursor'.last = Advanced(t) /\ Return(t)
    BY <1>3, <1>17 DEF Finish, JobInv
  <2>2. cursor'.last < nextUid
    BY <1>3, <2>1 DEF Advanced, Bounded
  <2>3. \A u \in Uids : u <= cursor'.last => ~Missing(u)'
    BY <1>3, <1>4, <1>8, <2>1 DEF Advanced, JobInv, FetchCovers
  <2>4. QED BY <1>7, <1>10, <1>11, <2>1, <2>2, <2>3
<1>18. CASE Throw(t)
  <2>1. cursor' = cursor
    BY <1>18 DEF Throw, db
  <2>2. jobs'[t] = [jobs[t] EXCEPT !.at = "error"]
    BY <1>12, <1>18 DEF Throw
  <2>3. jobs'[t].at = "error" /\ jobs'[t].since = jobs[t].since /\ jobs'[t].last = jobs[t].last
        /\ jobs'[t].todo = jobs[t].todo
    BY <1>2, <2>2 DEF Job
  <2>4. JobInv(t)'
    BY <1>9, <2>3 DEF JobInv, FetchCovers
  <2>5. QED BY <1>3, <1>7, <1>8, <2>1, <2>3, <2>4 DEF Bounded
<1>19. CASE Catch(t)
  <2>1. cursor'.last = cursor.last
    BY <1>2, <1>19 DEF Catch, SyncState
  <2>2. Return(t)
    BY <1>19 DEF Catch
  <2>3. QED BY <1>3, <1>7, <1>8, <1>10, <1>11, <2>1, <2>2 DEF Bounded
<1>20. ~IngestOpen(t) /\ ~IngestStore(t)
  BY DEF SyncOnly, IngestOpen, IngestStore
<1>21. QED BY <1>13, <1>14, <1>15, <1>16, <1>17, <1>18, <1>19, <1>20 DEF Step

LEMMA NextMarkInv == ASSUME SyncOnly, MarkInv, [Next]_vars PROVE MarkInv'
<1>1. TypeOK /\ TypeOK' /\ Bounded /\ RowsRight /\ NoneSkipped /\ \A t \in Tasks : JobInv(t)
  BY NextType DEF MarkInv
<1>2. CASE \E t \in Tasks : Begin(t) \/ Step(t)
  BY <1>2, StepMarkInv
\* Nothing that was stored or out of sight becomes missing.
<1>3. ASSUME UNCHANGED <<raws, cursor, jobs>>, nextUid' >= nextUid,
             \A u \in Uids : Missing(u)' => Missing(u) \/ u = nextUid,
             \A u \in Uids : inbox'[u] # 0 => u < nextUid'
      PROVE  MarkInv'
  <2>1. Bounded'
    BY <1>1, <1>3 DEF Bounded, TypeOK, SyncState, Job, Uids
  <2>2. RowsRight'
    BY <1>1, <1>3 DEF RowsRight, Bounded, TypeOK, Uids
  <2>3. NoneSkipped'
    <3>1. SUFFICES ASSUME NEW u \in Uids, inbox'[u] # 0, u <= cursor.last, Missing(u)' PROVE FALSE
      BY <1>3 DEF NoneSkipped, Missing
    <3>2. u # nextUid
      BY <1>1, <3>1 DEF Bounded, TypeOK, SyncState, Uids
    <3>3. QED BY <1>1, <1>3, <3>1, <3>2 DEF NoneSkipped, Missing
  <2>4. ASSUME NEW t \in Tasks PROVE JobInv(t)'
    <3>1. JobInv(t) /\ jobs'[t] = jobs[t]
      BY <1>1, <1>3
    <3>2. \A v \in jobs[t].todo \cup {jobs[t].since, jobs[t].last} : v < nextUid
      BY <1>1 DEF Bounded
    <3>3. jobs[t].since \in Int /\ nextUid \in Int
          /\ \A v \in jobs[t].todo \cup {jobs[t].last} : v \in Int
      BY <1>1 DEF TypeOK, Job, Uids
    <3>4. QED BY <1>3, <3>1, <3>2, <3>3 DEF JobInv, FetchCovers
  <2>5. QED BY <1>1, <2>1, <2>2, <2>3, <2>4 DEF MarkInv
<1>4. CASE Deliver
  <2>1. \A u \in Uids : u # nextUid => inbox'[u] = inbox[u]
    BY <1>1, <1>4 DEF Deliver, TypeOK
  <2>2. nextUid' = nextUid + 1 /\ UNCHANGED <<raws, cursor, jobs>>
    BY <1>4 DEF Deliver, db
  <2>3. \A u \in Uids : inbox'[u] # 0 => u < nextUid'
    BY <1>1, <2>1, <2>2 DEF Bounded, TypeOK, Uids
  <2>4. \A u \in Uids : Missing(u)' => Missing(u) \/ u = nextUid
    BY <2>1, <2>2 DEF Missing
  <2>5. nextUid' >= nextUid
    BY <1>1, <2>2 DEF TypeOK
  <2>6. QED BY <1>3, <2>2, <2>3, <2>4, <2>5
<1>5. ASSUME NEW u \in Uids, Expunge(u) PROVE MarkInv'
  <2>1. \A v \in Uids : inbox'[v] = IF v = u THEN 0 ELSE inbox[v]
    BY <1>1, <1>5 DEF Expunge, TypeOK
  <2>2. nextUid' = nextUid /\ UNCHANGED <<raws, cursor, jobs>>
    BY <1>5 DEF Expunge, db
  <2>3. \A v \in Uids : inbox'[v] # 0 => v < nextUid'
    BY <1>1, <2>1, <2>2 DEF Bounded
  <2>4. \A v \in Uids : Missing(v)' => Missing(v)
    BY <2>1, <2>2 DEF Missing
  <2>5. nextUid' >= nextUid
    BY <1>1, <2>2 DEF TypeOK
  <2>6. QED BY <1>3, <2>2, <2>3, <2>4, <2>5
<1>6. ~ResetValidity
  BY DEF SyncOnly, ResetValidity
<1>7. CASE Crash
  <2>1. UNCHANGED <<inbox, nextUid, raws, cursor>> /\ \A t \in Tasks : jobs'[t] = NoJob
    BY <1>7 DEF Crash, server, db
  <2>2. \A t \in Tasks : JobInv(t)'
    BY <2>1 DEF JobInv, FetchCovers, NoJob, Uids
  <2>3. Bounded'
    <3>1. 0 < nextUid
      BY <1>1 DEF TypeOK
    <3>2. \A t \in Tasks : jobs'[t].todo = {} /\ jobs'[t].since = 0 /\ jobs'[t].last = 0
      BY <2>1 DEF NoJob
    <3>3. QED BY <1>1, <2>1, <3>1, <3>2 DEF Bounded
  <2>4. RowsRight' /\ NoneSkipped'
    BY <1>1, <2>1 DEF RowsRight, NoneSkipped, Missing
  <2>5. QED BY <1>1, <2>2, <2>3, <2>4 DEF MarkInv
<1>8. CASE UNCHANGED vars
  BY <1>1, <1>8 DEF vars, MarkInv, Bounded, RowsRight, NoneSkipped, Missing, JobInv, FetchCovers
<1>9. QED BY <1>2, <1>4, <1>5, <1>6, <1>7, <1>8 DEF Next

\* Of any number of concurrent syncs, dry or live, that fail or die at any
\* point, none moves the watermark past a message that is not stored.
THEOREM NoneSkippedHolds == SyncOnly => (Spec => []NoneSkipped)
<1> SUFFICES ASSUME SyncOnly PROVE Spec => []NoneSkipped
  OBVIOUS
<1>1. MarkInv /\ [Next]_vars => MarkInv'
  BY NextMarkInv
<1>2. MarkInv => NoneSkipped
  BY DEF MarkInv
<1>3. QED BY <1>1, <1>2, InitMarkInv, PTL DEF Spec

----------------------------------------------------------------------------
(* The scheduled runs.                                                     *)

USE RunsAssumption DEF RunsAssumption

----------------------------------------------------------------------------
(* The inductive invariant.                                                *)

\* What a run keeps; of its list of steps only the next one matters here.
Fields == {"on", "todo", "failed", "broken", "due", "refused", "met", "rows", "pending"}
Shape(r) == r = [x \in Fields |-> r[x]]
Shaped ==
    /\ runs = [j \in Jobs |-> runs[j]] /\ \A j \in Jobs : Shape(runs[j])
    /\ tasks \in [Mails -> 0..2]

\* A capture waits to be recorded only in the step that makes captures.
PendingInRows == \A j \in Jobs : runs[j].pending # NoMail =>
    At(j, "rows") /\ runs[j].pending \in Mails /\ tasks[runs[j].pending] > 0

\* One of the mails no doubt is cast on has one task at most, and then is in
\* the file, or a run is about to put it there.
TaskIsKnown == \A m \in Mails :
    /\ m \in captured => tasks[m] > 0
    /\ m \notin doubtful => tasks[m] <= 1
    /\ m \notin doubtful /\ tasks[m] > 0 => m \in captured \/ \E j \in Jobs : runs[j].pending = m

Captures == Shaped /\ PendingInRows /\ TaskIsKnown

----------------------------------------------------------------------------
\* The runs but j are left alone, and j, which has captured nothing it still
\* has to record, goes on, and has not either.
Onward(j) == \E r : /\ Shape(r) /\ r.pending = NoMail
                    /\ runs' = [runs EXCEPT ![j] = r]

LEMMA PassesOnward ==
  ASSUME NEW j \in Jobs, Shaped, NEW f, NEW more
  PROVE  Shape(Passes(j, f, more)) /\ Passes(j, f, more).pending = runs[j].pending
<1>1. Shape(runs[j])
  BY DEF Shaped
<1> DEFINE todo == more \o Rest(j, f)  failed == Failed(j, f)
           broken == IF f /\ runs[j].due # {} THEN runs[j].broken \cup {Head1(j)} ELSE runs[j].broken
<1>2. Passes(j, f, more) = [runs[j] EXCEPT !.todo = todo, !.failed = failed, !.broken = broken]
  BY DEF Passes
<1> HIDE DEF todo, failed, broken
<1> QED
  BY <1>1, <1>2 DEF Shape, Fields

\* A step that is not the capture of a row leaves captures and their records
\* alone.
LEMMA StepOnward ==
  ASSUME NEW j \in Jobs, Captures, UNCHANGED <<captured, tasks, doubtful>>,
         runs[j].pending = NoMail, Onward(j)
  PROVE  Captures'
<1>1. PICK r : Shape(r) /\ r.pending = NoMail /\ runs' = [runs EXCEPT ![j] = r]
  BY DEF Onward
<1>2. \A k \in Jobs : runs'[k] = IF k = j THEN r ELSE runs[k]
  BY <1>1 DEF Captures, Shaped
<1>3. Shaped'
  BY <1>1, <1>2 DEF Captures, Shaped
<1>4. PendingInRows'
  BY <1>1, <1>2 DEF Captures, PendingInRows, At, Head1
<1>5. TaskIsKnown'
  BY <1>1, <1>2 DEF Captures, TaskIsKnown
<1> QED
  BY <1>3, <1>4, <1>5 DEF Captures

\* A run whose next step is another than the capture has nothing to record.
LEMMA NothingPending ==
  ASSUME NEW j \in Jobs, Captures, NEW s, s # "rows", At(j, s)
  PROVE  runs[j].pending = NoMail
  BY DEF Captures, PendingInRows, At

\* The steps of the pipeline and the lists they make.
LEMMA MovesOnward ==
  ASSUME NEW j \in Jobs, Captures, runs[j].pending = NoMail, NEW from, NEW to, NEW which,
         Moves(j, from, to, which)
  PROVE  Captures'
<1>0. PICK failed \in BOOLEAN : \E refused :
        runs' = [runs EXCEPT ![j] = [Passes(j, failed, <<>>) EXCEPT !.refused = refused]]
  BY DEF Moves
<1>1. PICK refused :
        runs' = [runs EXCEPT ![j] = [Passes(j, failed, <<>>) EXCEPT !.refused = refused]]
  BY <1>0
<1>2. Shape(Passes(j, failed, <<>>)) /\ Passes(j, failed, <<>>).pending = NoMail
  BY PassesOnward DEF Captures
<1> DEFINE r == [Passes(j, failed, <<>>) EXCEPT !.refused = refused]
<1>3. Shape(r) /\ r.pending = NoMail
  BY <1>2 DEF Shape, Fields
<1>4. Onward(j)
  BY <1>1, <1>3 DEF Onward
<1> QED
  BY <1>4, StepOnward DEF Moves

----------------------------------------------------------------------------
LEMMA CapturesInit == DailyInit => Captures
<1>1. Shape(Idle) /\ Idle.pending = NoMail
  BY DEF Idle, Shape, Fields
<1> QED
  BY <1>1 DEF DailyInit, Captures, Shaped, PendingInRows, TaskIsKnown

\* Each capture, and what becomes of its record.
LEMMA CaptureRowKeeps ==
  ASSUME Captures, NEW j \in Jobs, NEW m \in Mails, CaptureRow(j, m)
  PROVE  Captures'
<1>1. At(j, "rows") /\ runs[j].pending = NoMail
  BY DEF CaptureRow
<1>2. PICK rows, pending :
        /\ runs' = [runs EXCEPT ![j] = [runs[j] EXCEPT !.rows = rows, !.pending = pending]]
        /\ pending \in {NoMail, m}
        /\ IF Seen(m) THEN pending = NoMail /\ UNCHANGED <<tasks, doubtful>>
           ELSE \E taken \in BOOLEAN :
             /\ pending = ToRecord(m, taken)
             /\ tasks' = IF taken /\ tasks[m] < 2 THEN [tasks EXCEPT ![m] = @ + 1] ELSE tasks
             /\ doubtful' = IF \E k \in Jobs : runs[k].pending = m THEN doubtful \cup {m} ELSE doubtful
  <2>1. CASE Seen(m)
    <3>1. runs' = [runs EXCEPT ![j] = [runs[j] EXCEPT !.rows = runs[j].rows \ {m}, !.pending = NoMail]]
      BY <1>1, <2>1 DEF CaptureRow, Captures, Shaped, Shape, Fields
    <3> QED
      BY <3>1, <2>1 DEF CaptureRow
  <2>2. CASE ~Seen(m)
    BY <1>1, <2>2 DEF CaptureRow, Captures, Shaped, Shape, Fields, ToRecord
  <2> QED
    BY <2>1, <2>2
<1>3. \A k \in Jobs : runs'[k] = IF k = j THEN [runs[j] EXCEPT !.rows = rows, !.pending = pending]
                                 ELSE runs[k]
  BY <1>2 DEF Captures, Shaped
<1>4. /\ Shape(runs'[j]) /\ runs'[j].pending = pending /\ runs'[j].on = runs[j].on
      /\ runs'[j].todo = runs[j].todo
  BY <1>3 DEF Captures, Shaped, Shape, Fields
<1>5. UNCHANGED captured
  BY DEF CaptureRow
<1>6. Shaped'
  BY <1>2, <1>3, <1>4 DEF Captures, Shaped
<1>7. PendingInRows'
  <2> SUFFICES ASSUME NEW k \in Jobs, runs'[k].pending # NoMail
               PROVE  At(k, "rows")' /\ runs'[k].pending \in Mails /\ tasks'[runs'[k].pending] > 0
    BY DEF PendingInRows
  <2>1. CASE k = j
    <3>1. At(k, "rows")'
      BY <1>1, <1>4, <2>1 DEF At, Head1
    <3>2. pending = m /\ tasks'[m] > 0
      BY <1>2, <1>4, <2>1 DEF Captures, Shaped, ToRecord
    <3> QED
      BY <3>1, <3>2, <1>4, <2>1
  <2>2. CASE k # j
    BY <1>2, <1>3, <2>2 DEF Captures, Shaped, PendingInRows, At, Head1
  <2> QED
    BY <2>1, <2>2
<1>8. TaskIsKnown'
  <2> SUFFICES ASSUME NEW n \in Mails
               PROVE  /\ n \in captured => tasks'[n] > 0
                      /\ n \notin doubtful' => tasks'[n] <= 1
                      /\ n \notin doubtful' /\ tasks'[n] > 0 =>
                           n \in captured \/ \E k \in Jobs : runs'[k].pending = n
    BY <1>5 DEF TaskIsKnown
  <2>1. \A k \in Jobs : runs[k].pending = n => runs'[k].pending = n
    BY <1>1, <1>3
  <2>2. CASE n # m \/ Seen(m)
    BY <1>2, <2>1, <2>2 DEF Captures, TaskIsKnown, Shaped
  <2>3. CASE n = m /\ ~Seen(m)
    <3>1. PICK taken \in BOOLEAN :
             /\ pending = ToRecord(m, taken)
             /\ tasks' = IF taken /\ tasks[m] < 2 THEN [tasks EXCEPT ![m] = @ + 1] ELSE tasks
             /\ doubtful' = IF \E k \in Jobs : runs[k].pending = m THEN doubtful \cup {m} ELSE doubtful
      BY <1>2, <2>3
    <3>2. n \notin captured
      BY <2>3 DEF Seen
    <3>3. n \notin doubtful' => tasks[n] = 0
      BY <2>3, <3>1, <3>2 DEF Captures, TaskIsKnown, Shaped
    <3>4. taken => runs'[j].pending = n
      BY <1>4, <2>3, <3>1 DEF ToRecord
    <3> QED
      BY <2>3, <3>1, <3>2, <3>3, <3>4 DEF Captures, Shaped
  <2> QED
    BY <2>2, <2>3
<1> QED
  BY <1>6, <1>7, <1>8 DEF Captures

\* A record, or a run that ends without having made it.
LEMMA PendingSettled ==
  ASSUME Captures, NEW j \in Jobs, Onward(j), UNCHANGED tasks,
         NEW m, m = runs[j].pending,
         \/ captured' = captured \cup {m} /\ UNCHANGED doubtful /\ m # NoMail
         \/ captured' = captured /\ doubtful' = doubtful \cup ({m} \ {NoMail})
  PROVE  Captures'
<1>1. PICK r : Shape(r) /\ r.pending = NoMail /\ runs' = [runs EXCEPT ![j] = r]
  BY DEF Onward
<1>2. \A k \in Jobs : runs'[k] = IF k = j THEN r ELSE runs[k]
  BY <1>1 DEF Captures, Shaped
<1>3. Shaped'
  BY <1>1, <1>2 DEF Captures, Shaped
<1>4. PendingInRows'
  BY <1>1, <1>2 DEF Captures, PendingInRows, At, Head1
<1>5. TaskIsKnown'
  BY <1>1, <1>2 DEF Captures, TaskIsKnown, PendingInRows
<1> QED
  BY <1>3, <1>4, <1>5 DEF Captures

LEMMA RecordRowKeeps ==
  ASSUME Captures, NEW j \in Jobs, RecordRow(j)
  PROVE  Captures'
<1> DEFINE m == runs[j].pending
<1>1. CASE captured' = captured \cup {m} /\ runs' = [runs EXCEPT ![j].pending = NoMail]
           /\ UNCHANGED doubtful
  <2> DEFINE r == [runs[j] EXCEPT !.pending = NoMail]
  <2>1. Shape(r) /\ r.pending = NoMail /\ runs' = [runs EXCEPT ![j] = r]
    BY <1>1 DEF Captures, Shaped, Shape, Fields
  <2>2. Onward(j)
    BY <2>1 DEF Onward
  <2> QED
    BY <1>1, <2>2, PendingSettled DEF RecordRow
<1>2. CASE /\ runs' = [runs EXCEPT ![j] = [Passes(j, TRUE, <<>>) EXCEPT !.pending = NoMail, !.rows = {}]]
           /\ doubtful' = doubtful \cup {m} /\ UNCHANGED captured
  <2> DEFINE r == [Passes(j, TRUE, <<>>) EXCEPT !.pending = NoMail, !.rows = {}]
  <2>1. Shape(Passes(j, TRUE, <<>>))
    BY PassesOnward DEF Captures
  <2>2. Shape(r) /\ r.pending = NoMail
    BY <2>1 DEF Shape, Fields
  <2>3. Onward(j)
    BY <1>2, <2>2 DEF Onward
  <2> QED
    BY <1>2, <2>3, PendingSettled DEF RecordRow
<1> QED
  BY <1>1, <1>2 DEF RecordRow

\* The other steps of a run.
LEMMA RunStepKeeps ==
  ASSUME Captures, NEW j \in Jobs, RunStep(j)
  PROVE  Captures'
<1>1. ASSUME NEW f \in BOOLEAN, NEW more, runs[j].pending = NoMail,
             runs' = [runs EXCEPT ![j] = Passes(j, f, more)], UNCHANGED <<captured, tasks, doubtful>>
      PROVE  Captures'
  <2>1. Onward(j)
    BY <1>1, PassesOnward DEF Onward, Captures
  <2> QED
    BY <1>1, <2>1, StepOnward
<1>2. CASE ListAccounts(j)
  <2>1. runs[j].pending = NoMail
    BY <1>2, NothingPending DEF ListAccounts
  <2> QED
    BY <1>1, <1>2, <2>1 DEF ListAccounts
<1>3. CASE SyncAccount(j)
  <2>1. runs[j].pending = NoMail
    BY <1>3, NothingPending DEF SyncAccount
  <2> QED
    BY <1>3, <2>1, MovesOnward DEF SyncAccount
<1>4. CASE ParseStored(j)
  <2>1. runs[j].pending = NoMail
    BY <1>4, NothingPending DEF ParseStored
  <2> QED
    BY <1>4, <2>1, MovesOnward DEF ParseStored
<1>5. CASE NormalizeParsed(j)
  <2>1. runs[j].pending = NoMail
    BY <1>5, NothingPending DEF NormalizeParsed
  <2> QED
    BY <1>5, <2>1, MovesOnward DEF NormalizeParsed
<1>6. CASE ApplyRules(j)
  <2>1. runs[j].pending = NoMail
    BY <1>6, NothingPending DEF ApplyRules
  <2> QED
    BY <1>6, <2>1, MovesOnward DEF ApplyRules
<1>7. CASE WriteDigest(j)
  <2>1. runs[j].pending = NoMail
    BY <1>7, NothingPending DEF WriteDigest
  <2> QED
    BY <1>7, <2>1, MovesOnward DEF WriteDigest
<1>8. CASE ChooseDays(j)
  <2>1. runs[j].pending = NoMail
    BY <1>8, NothingPending DEF ChooseDays
  <2> QED
    BY <1>1, <1>8, <2>1 DEF ChooseDays
<1>9. CASE PassGate(j)
  <2>1. runs[j].pending = NoMail
    BY <1>9, NothingPending DEF PassGate
  <2>a. PICK f \in BOOLEAN : \E more : runs' = [runs EXCEPT ![j] =
          [Passes(j, f, more) EXCEPT !.due = {}, !.broken = {}, !.refused = {}]]
    BY <1>9 DEF PassGate
  <2>2. PICK more : runs' = [runs EXCEPT ![j] =
          [Passes(j, f, more) EXCEPT !.due = {}, !.broken = {}, !.refused = {}]]
    BY <2>a
  <2> DEFINE r == [Passes(j, f, more) EXCEPT !.due = {}, !.broken = {}, !.refused = {}]
  <2>3. Shape(Passes(j, f, more)) /\ Passes(j, f, more).pending = NoMail
    BY <2>1, PassesOnward DEF Captures
  <2>4. Shape(r) /\ r.pending = NoMail
    BY <2>3 DEF Shape, Fields
  <2>5. Onward(j)
    BY <2>2, <2>4 DEF Onward
  <2> QED
    BY <1>9, <2>1, <2>5, StepOnward DEF PassGate
<1>10. CASE ClassifyNew(j)
  <2>1. runs[j].pending = NoMail
    BY <1>10, NothingPending DEF ClassifyNew
  <2>a. PICK f \in BOOLEAN : \E met : runs' = [runs EXCEPT ![j] = [Passes(j, f, <<>>) EXCEPT !.met = met]]
    BY <1>10 DEF ClassifyNew
  <2>2. PICK met : runs' = [runs EXCEPT ![j] = [Passes(j, f, <<>>) EXCEPT !.met = met]]
    BY <2>a
  <2> DEFINE r == [Passes(j, f, <<>>) EXCEPT !.met = met]
  <2>3. Shape(Passes(j, f, <<>>)) /\ Passes(j, f, <<>>).pending = NoMail
    BY <2>1, PassesOnward DEF Captures
  <2>4. Shape(r) /\ r.pending = NoMail
    BY <2>3 DEF Shape, Fields
  <2>5. Onward(j)
    BY <2>2, <2>4 DEF Onward
  <2> QED
    BY <1>10, <2>1, <2>5, StepOnward DEF ClassifyNew
<1>11. CASE ListActionable(j)
  <2>1. runs[j].pending = NoMail
    BY <1>11, NothingPending DEF ListActionable
  <2>2. CASE runs' = [runs EXCEPT ![j] = Passes(j, TRUE, <<>>)]
    BY <1>1, <1>11, <2>1, <2>2 DEF ListActionable
  <2>3. ASSUME NEW rows,
               runs' = [runs EXCEPT ![j] = [Passes(j, FALSE, <<Simple("rows")>>) EXCEPT !.rows = rows]]
        PROVE  Captures'
    <3> DEFINE p == Passes(j, FALSE, <<Simple("rows")>>)
    <3>1. Shape(p) /\ p.pending = NoMail
      BY <2>1, PassesOnward DEF Captures
    <3> HIDE DEF p
    <3>2. Shape([p EXCEPT !.rows = rows]) /\ [p EXCEPT !.rows = rows].pending = NoMail
      BY <3>1 DEF Shape, Fields
    <3>3. Onward(j)
      BY <2>3, <3>2 DEF Onward, p
    <3> QED
      BY <1>11, <2>1, <3>3, StepOnward DEF ListActionable
  <2> QED
    BY <1>11, <2>2, <2>3 DEF ListActionable
<1>12. CASE CapturedRows(j)
  BY <1>1, <1>12 DEF CapturedRows
<1>13. CASE EndRun(j)
  <2>1. runs[j].pending = NoMail
    BY <1>13 DEF EndRun, Captures, PendingInRows, At
  <2>2. Onward(j)
    BY <1>13 DEF EndRun, Onward, Idle, Shape, Fields
  <2> QED
    BY <1>13, <2>1, <2>2, StepOnward DEF EndRun
<1> QED
  BY <1>2, <1>3, <1>4, <1>5, <1>6, <1>7, <1>8, <1>9, <1>10, <1>11, <1>12, <1>13,
     CaptureRowKeeps, RecordRowKeeps DEF RunStep

LEMMA CapturesNext == Captures /\ [DailyNext]_dailyVars => Captures'
<1> SUFFICES ASSUME Captures, [DailyNext]_dailyVars PROVE Captures'
  OBVIOUS
<1>1. ASSUME NEW j \in Jobs, NEW s \in StagesOf[j], StartRun(j, s) PROVE Captures'
  <2>1. runs[j].pending = NoMail
    BY <1>1 DEF StartRun, Captures, PendingInRows, At
  <2>2. PICK todo, due : runs' = [runs EXCEPT ![j] = [Idle EXCEPT !.on = TRUE, !.todo = todo, !.due = due]]
    BY <1>1 DEF StartRun
  <2> DEFINE r == [Idle EXCEPT !.on = TRUE, !.todo = todo, !.due = due]
  <2>3. Shape(r) /\ r.pending = NoMail
    BY DEF Shape, Fields, Idle
  <2>4. Onward(j)
    BY <2>2, <2>3 DEF Onward
  <2> QED
    BY <1>1, <2>1, <2>4, StepOnward DEF StartRun
<1>2. ASSUME NEW j \in Jobs, RunDies(j) PROVE Captures'
  <2>1. Onward(j)
    BY <1>2 DEF RunDies, Onward, Idle, Shape, Fields
  <2> QED
    BY <1>2, <2>1, PendingSettled DEF RunDies
<1>3. ASSUME UNCHANGED <<runs, captured, tasks, doubtful>> PROVE Captures'
  BY <1>3 DEF Captures, Shaped, PendingInRows, TaskIsKnown, At, Head1
<1>4. ASSUME NEW m \in Mails, Arrives(m) \/ ByHand(m) PROVE Captures'
  BY <1>3, <1>4 DEF Arrives, ByHand
<1>5. CASE Midnight
  BY <1>3, <1>5 DEF Midnight
<1>6. ASSUME NEW m \in Mails, RowReplaced(m) PROVE Captures'
  BY <1>6 DEF RowReplaced, Captures, Shaped, PendingInRows, TaskIsKnown, At, Head1
<1>7. CASE UNCHANGED dailyVars
  BY <1>3, <1>7 DEF dailyVars
<1> QED
  BY <1>1, <1>2, <1>4, <1>5, <1>6, <1>7, RunStepKeeps DEF DailyNext

LEMMA CapturesGive == Captures => CapturedOnce
  BY DEF Captures, Shaped, TaskIsKnown, CapturedOnce

\* However many runs cover the day of a mail, and whichever of their steps
\* fail, qi is given it once; but for a run that died between the capture and
\* its record, two runs at the same mail, and a classification made anew.
THEOREM MailCapturedOnce == DailySpec => []CapturedOnce
<1>1. Captures /\ [DailyNext]_dailyVars => Captures'
  BY CapturesNext
<1> QED
  BY <1>1, CapturesInit, CapturesGive, PTL DEF DailySpec

----------------------------------------------------------------------------
(* Mail a run leaves behind is told.                                       *)

Places == {"away", "server", "stored", "parsed", "normalized", "classified"}
Placed == mailbox = [m \in Mails |-> [at |-> mailbox[m].at, received |-> mailbox[m].received]]
          /\ \A m \in Mails : mailbox[m].at \in Places

\* Of the list of steps s, the first k still ingest.
PlanStep == [step : {"accounts", "sync", "parse", "normalize", "gate", "apply", "days"}, of : Accounts \cup {0}]
IngestLeft(s, k) ==
    /\ s \in Seq(PlanStep) /\ k \in 0..Len(s)
    /\ k < Len(s) => s[k + 1].step = "gate"
    /\ k >= 1 => s[k] = Simple("normalize")
    /\ k >= 2 => s[k - 1] = Simple("parse")
    /\ k >= 3 => (k = 3 /\ s[1] = Simple("accounts")) \/ \A i \in 1..(k - 2) : s[i].step = "sync"

\* A mail at that place is usable, or they have yet to carry it on.
Carries(s, k, m, at) ==
    \/ at \in {"normalized", "classified"}
    \/ at = "parsed" /\ k >= 1
    \/ at = "stored" /\ k >= 2
    \/ at = "server" /\ k >= 3 /\ (s[1] = Simple("accounts") \/ \E i \in 1..(k - 2) : s[i] = Do("sync", AccountOf[m]))

Told(j, m) == runs[j].failed /\ StepsFor(m) \cap runs[j].broken # {}
Carried(j) == \E k \in Nat :
    /\ IngestLeft(runs[j].todo, k)
    /\ \A m \in runs[j].due :
         m \in runs[j].refused \/ Told(j, m) \/ Carries(runs[j].todo, k, m, mailbox[m].at)
LeftInv ==
    /\ Placed
    /\ \A j \in Jobs : runs[j].due # {} =>
         runs[j].due \subseteq Mails /\ runs[j].failed \in BOOLEAN /\ Carried(j)

\* Mail only ever goes on to the next place, and the steps carry it from there.
Advances(a, b) ==
    \/ b = a
    \/ a = "away"
    \/ <<a, b>> \in {<<"server", "stored">>, <<"stored", "parsed">>, <<"parsed", "normalized">>,
                     <<"normalized", "classified">>}
LEMMA AdvanceCarries ==
  ASSUME NEW s, NEW k \in Nat, NEW m, NEW a, NEW b, Advances(a, b), Carries(s, k, m, a)
  PROVE  Carries(s, k, m, b)
BY DEF Advances, Carries

LEMMA MovesAdvance ==
  ASSUME Placed, NEW j, NEW from, NEW to, NEW which, Moves(j, from, to, which),
         <<from, to>> \in {<<"server", "stored">>, <<"stored", "parsed">>, <<"parsed", "normalized">>}
  PROVE  Placed' /\ \A m \in Mails : Advances(mailbox[m].at, mailbox'[m].at)
<1>1. PICK done \in SUBSET {m \in which : MailAt(m, from)} : mailbox' = MovedOn(done, to)
  BY DEF Moves
<1>2. ASSUME NEW m \in Mails
      PROVE  /\ mailbox'[m] = IF m \in done THEN [mailbox[m] EXCEPT !.at = to] ELSE mailbox[m]
             /\ mailbox[m] = [at |-> mailbox[m].at, received |-> mailbox[m].received] /\ mailbox[m].at \in Places
  BY <1>1, <1>2 DEF MovedOn, Placed
<1>3. ASSUME NEW m \in Mails
      PROVE  /\ mailbox'[m] = [at |-> mailbox'[m].at, received |-> mailbox'[m].received]
             /\ mailbox'[m].at \in Places /\ Advances(mailbox[m].at, mailbox'[m].at)
  <2>1. CASE m \in done
    <3>1. mailbox[m].at = from /\ mailbox'[m].at = to /\ mailbox'[m].received = mailbox[m].received
      BY <1>1, <1>2, <2>1 DEF MailAt
    <3> QED BY <1>2, <2>1, <3>1 DEF Advances, Places
  <2>2. CASE m \notin done
    BY <1>2, <2>2 DEF Advances
  <2> QED BY <2>1, <2>2
<1>4. mailbox' = [m \in Mails |-> mailbox'[m]]
  BY <1>1 DEF MovedOn
<1> QED BY <1>3, <1>4 DEF Placed

LEMMA NoneMoved ==
  ASSUME Placed, NEW j, NEW from, NEW to, Moves(j, from, to, {})
  PROVE  mailbox' = mailbox
BY DEF Moves, MovedOn, Placed

\* The next step says how far the run has come.
LEMMA NextIngests ==
  ASSUME NEW s, NEW k \in Nat, IngestLeft(s, k), s # <<>>
  PROVE  /\ Head(s) = s[1] /\ Tail(s) \in Seq(PlanStep) /\ Len(Tail(s)) = Len(s) - 1
         /\ \A i \in 1..(Len(s) - 1) : Tail(s)[i] = s[i + 1]
         /\ k = 0 => s[1].step = "gate"
         /\ k = 1 => s[1] = Simple("normalize")
         /\ k = 2 => s[1] = Simple("parse")
         /\ k >= 3 => (k = 3 /\ s[1] = Simple("accounts")) \/ s[1].step = "sync"
<1>1. s \in Seq(PlanStep) /\ Len(s) \in Nat /\ Len(s) >= 1
  BY DEF IngestLeft
<1>2. /\ Head(s) = s[1] /\ Tail(s) \in Seq(PlanStep) /\ Len(Tail(s)) = Len(s) - 1
      /\ \A i \in 1..(Len(s) - 1) : Tail(s)[i] = s[i + 1]
  BY <1>1
<1>3. 1 \in 1..(k - 2) \/ k < 3
  OBVIOUS
<1> QED BY <1>1, <1>2, <1>3 DEF IngestLeft

\* Once it is done, the rest is left.
LEMMA TailIngests ==
  ASSUME NEW s, NEW k \in Nat, IngestLeft(s, k), k >= 1
  PROVE  /\ s # <<>> /\ IngestLeft(Tail(s), k - 1)
         /\ \A m, at : Carries(s, k, m, at) =>
              \/ Carries(Tail(s), k - 1, m, at)
              \/ at = "server" /\ (s[1] = Simple("accounts") \/ s[1] = Do("sync", AccountOf[m]))
              \/ at = "stored" /\ s[1] = Simple("parse")
              \/ at = "parsed" /\ s[1] = Simple("normalize")
<1>1. s \in Seq(PlanStep) /\ Len(s) \in Nat /\ k <= Len(s) /\ s # <<>>
  BY DEF IngestLeft
<1>2. /\ Tail(s) \in Seq(PlanStep) /\ Len(Tail(s)) = Len(s) - 1
      /\ \A i \in 1..(Len(s) - 1) : Tail(s)[i] = s[i + 1]
  BY <1>1, NextIngests
<1>3. PICK u : u = Tail(s)
  OBVIOUS
<1>4. IngestLeft(u, k - 1)
  <2>1. k - 1 < Len(u) => u[k - 1 + 1].step = "gate"
    BY <1>1, <1>2, <1>3 DEF IngestLeft
  <2>2. k - 1 >= 1 => u[k - 1] = Simple("normalize")
    BY <1>1, <1>2, <1>3 DEF IngestLeft
  <2>3. k - 1 >= 2 => u[k - 1 - 1] = Simple("parse")
    BY <1>1, <1>2, <1>3 DEF IngestLeft
  <2>4. k - 1 >= 3 => \A i \in 1..(k - 1 - 2) : u[i].step = "sync"
    BY <1>1, <1>2, <1>3 DEF IngestLeft
  <2> QED BY <1>1, <1>2, <1>3, <2>1, <2>2, <2>3, <2>4 DEF IngestLeft
<1>5. ASSUME NEW m, NEW at, Carries(s, k, m, at), ~Carries(u, k - 1, m, at)
      PROVE  \/ at = "server" /\ (s[1] = Simple("accounts") \/ s[1] = Do("sync", AccountOf[m]))
             \/ at = "stored" /\ s[1] = Simple("parse")
             \/ at = "parsed" /\ s[1] = Simple("normalize")
  <2>1. CASE at = "server"
    <3> SUFFICES ASSUME s[1] # Simple("accounts"), NEW i \in 1..(k - 2), s[i] = Do("sync", AccountOf[m]), i # 1
                 PROVE  FALSE
      BY <1>5, <2>1 DEF Carries
    <3>1. i - 1 \in 1..(k - 1 - 2) /\ u[i - 1] = s[i] /\ k - 1 >= 3
      BY <1>1, <1>2, <1>3
    <3> QED BY <1>5, <2>1, <3>1 DEF Carries
  <2>2. CASE at = "stored"
    <3>1. k = 2
      BY <1>5, <2>2 DEF Carries
    <3> QED BY <1>1, <2>2, <3>1, NextIngests
  <2>3. CASE at = "parsed"
    <3>1. k = 1
      BY <1>5, <2>3 DEF Carries
    <3> QED BY <1>1, <2>3, <3>1, NextIngests
  <2> QED BY <1>5, <2>1, <2>2, <2>3 DEF Carries
<1> QED BY <1>1, <1>3, <1>4, <1>5

\* The list of accounts gives a step for each.
LEMMA EachAccountListed ==
  ASSUME NEW q, q = SetToSeq({Do("sync", a) : a \in Accounts})
  PROVE  /\ q \in Seq(PlanStep) /\ \A i \in 1..Len(q) : q[i].step = "sync"
         /\ \A a \in Accounts : \E i \in 1..Len(q) : q[i] = Do("sync", a)
<1> DEFINE S == {Do("sync", a) : a \in Accounts}
<1>1. IsFiniteSet(S)
  <2>1. [m \in Mails |-> Do("sync", AccountOf[m])] \in Surjection(Mails, S)
    BY DEF Surjection, Accounts
  <2> QED BY <2>1, FS_Surjection
<1>2. \A x \in S : x \in PlanStep /\ x.step = "sync"
  <2>1. ASSUME NEW a \in Accounts PROVE Do("sync", a) \in PlanStep /\ Do("sync", a).step = "sync"
    BY DEF Do, PlanStep
  <2> QED BY <2>1
<1> HIDE DEF S
<1>3. PICK n \in Nat : n = Cardinality(S)
  BY <1>1, FS_CardinalityType
<1>4. \E f \in [1..n -> S] : IsInjective(f)
  <2>1. ExistsBijection(1..Cardinality(S), S)
    BY <1>1, FS_CardinalityType
  <2>2. PICK f \in Bijection(1..n, S) : TRUE
    BY <1>3, <2>1 DEF ExistsBijection
  <2>3. f \in [1..n -> S] /\ IsInjective(f)
    BY <2>2 DEF Bijection, Injection, IsInjective
  <2> QED BY <2>3
<1>5. q \in [1..n -> S] /\ IsInjective(q)
  BY <1>3, <1>4 DEF SetToSeq, S
<1>6. q \in Surjection(1..n, S)
  <2>1. q \in Injection(1..n, S)
    BY <1>5 DEF Injection, IsInjective
  <2>2. Cardinality(1..n) = n
    BY FS_Interval
  <2> QED BY <1>1, <1>3, <2>1, <2>2, FS_Injection
<1>7. q \in Seq(S) /\ Len(q) = n
  <2>1. q \in Seq(S) /\ DOMAIN q = 1..n
    BY <1>5, SeqDef
  <2> QED BY <2>1, LenProperties
<1>8. q \in Seq(PlanStep) /\ \A i \in 1..n : q[i].step = "sync"
  <2>1. S \subseteq PlanStep
    BY <1>2
  <2> QED BY <1>2, <1>5, <1>7, <2>1, SeqMonotonic
<1>9. \A x \in S : \E i \in 1..n : q[i] = x
  BY <1>6 DEF Surjection
<1> QED BY <1>7, <1>8, <1>9 DEF S

LEMMA AccountsIngest ==
  ASSUME NEW s, IngestLeft(s, 3), s[1] = Simple("accounts"),
         NEW q, q = SetToSeq({Do("sync", a) : a \in Accounts})
  PROVE  /\ IngestLeft(q \o Tail(s), Len(q) + 2) /\ Len(q) \in Nat
         /\ \A m \in Mails : \A at : Carries(s, 3, m, at) => Carries(q \o Tail(s), Len(q) + 2, m, at)
<1>1. IngestLeft(Tail(s), 2)
  BY TailIngests
<1>2. PICK u : u = Tail(s) /\ u \in Seq(PlanStep)
  BY <1>1 DEF IngestLeft
<1>3. PICK n \in Nat : n = Len(q)
  BY EachAccountListed, LenProperties
<1>4. /\ q \in Seq(PlanStep) /\ \A i \in 1..n : q[i].step = "sync"
      /\ \A a \in Accounts : \E i \in 1..n : q[i] = Do("sync", a)
  BY <1>3, EachAccountListed
<1>5. PICK w : w = q \o u
  OBVIOUS
<1>6. /\ w \in Seq(PlanStep) /\ Len(w) = n + Len(u) /\ Len(u) \in Nat
      /\ \A i \in 1..n : w[i] = q[i]
      /\ \A i \in 1..Len(u) : w[n + i] = u[i]
  BY <1>4, <1>2, <1>3, <1>5
<1>7. 2 <= Len(u) /\ (2 < Len(u) => u[3].step = "gate") /\ u[2] = Simple("normalize") /\ u[1] = Simple("parse")
  BY <1>1, <1>2 DEF IngestLeft
<1>8. IngestLeft(w, n + 2)
  <2>1. n + 2 < Len(w) => w[n + 2 + 1].step = "gate"
    <3>1. n + 2 + 1 = n + 3
      OBVIOUS
    <3> QED BY <1>6, <1>7, <3>1
  <2>2. w[n + 2] = Simple("normalize") /\ w[n + 2 - 1] = Simple("parse")
    <3>1. n + 2 - 1 = n + 1
      OBVIOUS
    <3> QED BY <1>6, <1>7, <3>1
  <2>3. \A i \in 1..(n + 2 - 2) : w[i].step = "sync"
    BY <1>4, <1>6
  <2> QED BY <1>6, <1>7, <2>1, <2>2, <2>3 DEF IngestLeft
<1>9. ASSUME NEW m \in Mails, NEW at, Carries(s, 3, m, at) PROVE Carries(w, n + 2, m, at)
  <2>1. CASE at = "server"
    <3>1. AccountOf[m] \in Accounts
      BY DEF Accounts
    <3>2. PICK i \in 1..n : q[i] = Do("sync", AccountOf[m])
      BY <1>4, <3>1
    <3>3. w[i] = Do("sync", AccountOf[m]) /\ i \in 1..(n + 2 - 2) /\ n + 2 >= 3
      BY <1>6, <3>2
    <3> QED BY <2>1, <3>3 DEF Carries
  <2>2. CASE at # "server"
    BY <1>9, <2>2 DEF Carries
  <2> QED BY <2>1, <2>2
<1> QED BY <1>2, <1>3, <1>5, <1>8, <1>9

\* What goes on to the rest of the list leaves in a run.
Noted(j, f, more, r) ==
    /\ r = [x \in Fields |-> r[x]] /\ r.on = runs[j].on
    /\ r.todo = more \o Tail(runs[j].todo) /\ r.failed = (runs[j].failed \/ f)
    /\ r.due = runs[j].due /\ r.refused = runs[j].refused
    /\ r.broken = IF f /\ runs[j].due # {} THEN runs[j].broken \cup {Head(runs[j].todo)} ELSE runs[j].broken
LEMMA PassesNotes ==
  ASSUME NEW j \in Jobs, Shaped, NEW f \in BOOLEAN, NEW more, NEW r, r = Passes(j, f, more)
  PROVE  Noted(j, f, more, r)
<1>1. Shape(runs[j])
  BY DEF Shaped
<1> DEFINE todo == more \o Rest(j, f)  failed == Failed(j, f)
           broken == IF f /\ runs[j].due # {} THEN runs[j].broken \cup {Head1(j)} ELSE runs[j].broken
<1>2. r = [runs[j] EXCEPT !.todo = todo, !.failed = failed, !.broken = broken]
  BY DEF Passes
<1>3. /\ todo = more \o Tail(runs[j].todo) /\ failed = (runs[j].failed \/ f)
      /\ broken = IF f /\ runs[j].due # {} THEN runs[j].broken \cup {Head(runs[j].todo)} ELSE runs[j].broken
  BY DEF Rest, Failed, Head1
<1> HIDE DEF todo, failed, broken
<1>4. /\ r = [x \in Fields |-> r[x]] /\ r.on = runs[j].on /\ r.todo = todo /\ r.failed = failed /\ r.broken = broken
      /\ r.due = runs[j].due /\ r.refused = runs[j].refused
  BY <1>1, <1>2 DEF Shape, Fields
<1> QED BY <1>3, <1>4 DEF Noted

\* The state of a run that has gone on from s, of which k steps ingest, to the
\* rest: what it had not carried on by that step it tells of, or had refused.
LEMMA GoesOn ==
  ASSUME Shaped, LeftInv, NEW j \in Jobs, runs[j].due # {},
         NEW f \in BOOLEAN, NEW s, s = runs[j].todo,
         NEW k \in Nat, IngestLeft(s, k), NEW u, NEW n \in Nat, IngestLeft(u, n),
         s # <<>>, runs'[j].todo = u, runs'[j].failed = (runs[j].failed \/ f), runs'[j].due = runs[j].due,
         f => Head(s) \in runs'[j].broken,
         runs[j].broken \subseteq runs'[j].broken, runs[j].refused \subseteq runs'[j].refused,
         \A m \in runs[j].due : m \in runs[j].refused \/ Told(j, m) \/ Carries(s, k, m, mailbox[m].at),
         \A m \in runs[j].due : Carries(s, k, m, mailbox[m].at) =>
            \/ Carries(u, n, m, mailbox'[m].at)
            \/ Head(s) \in StepsFor(m) /\ (f \/ m \in runs'[j].refused)
  PROVE  runs'[j].failed \in BOOLEAN /\ runs'[j].due \subseteq Mails /\ Carried(j)'
<1>1. runs[j].failed \in BOOLEAN /\ runs[j].due \subseteq Mails
  BY DEF LeftInv
<1>2. ASSUME NEW m \in runs[j].due
      PROVE  m \in runs'[j].refused \/ Told(j, m)' \/ Carries(u, n, m, mailbox'[m].at)
  <2>1. CASE Told(j, m)
    BY <1>1, <2>1 DEF Told
  <2>2. CASE Carries(s, k, m, mailbox[m].at) /\ Head(s) \in StepsFor(m) /\ f
    BY <2>2 DEF Told
  <2> QED BY <1>2, <2>1, <2>2
<1> QED BY <1>1, <1>2 DEF Carried

\* What a step of run j must leave.
StillCarried(j) == runs'[j].due # {} =>
    runs'[j].due \subseteq Mails /\ runs'[j].failed \in BOOLEAN /\ Carried(j)'

\* The other runs lose nothing by it, as mail goes on.
LEMMA RunKeepsLeft ==
  ASSUME LeftInv, Placed', \A m \in Mails : Advances(mailbox[m].at, mailbox'[m].at),
         \A j \in Jobs : runs'[j] = runs[j] \/ StillCarried(j)
  PROVE  LeftInv'
<1> SUFFICES ASSUME NEW j \in Jobs, runs'[j] = runs[j], runs[j].due # {}
             PROVE  StillCarried(j)
  BY DEF LeftInv, StillCarried
<1>1. runs[j].due \subseteq Mails /\ runs[j].failed \in BOOLEAN /\ Carried(j)
  BY DEF LeftInv
<1>2. PICK k \in Nat : /\ IngestLeft(runs[j].todo, k)
        /\ \A m \in runs[j].due :
             m \in runs[j].refused \/ Told(j, m) \/ Carries(runs[j].todo, k, m, mailbox[m].at)
  BY <1>1 DEF Carried
<1>3. \A m \in runs[j].due :
        m \in runs'[j].refused \/ Told(j, m)' \/ Carries(runs'[j].todo, k, m, mailbox'[m].at)
  <2> SUFFICES ASSUME NEW m \in runs[j].due, Carries(runs[j].todo, k, m, mailbox[m].at)
               PROVE  Carries(runs[j].todo, k, m, mailbox'[m].at)
    BY <1>2 DEF Told
  <2>1. Advances(mailbox[m].at, mailbox'[m].at)
    BY <1>1
  <2> QED BY <2>1, AdvanceCarries
<1> QED BY <1>1, <1>2, <1>3 DEF Carried, StillCarried

\* Only the steps of run_ingest, and the gate, are taken with mail due.
LEMMA IngestsByItsSteps ==
  ASSUME LeftInv, NEW j \in Jobs, runs[j].due # {}, NEW step, At(j, step)
  PROVE  step \in {"accounts", "sync", "parse", "normalize", "gate"}
<1>1. PICK k \in Nat : IngestLeft(runs[j].todo, k)
  BY DEF LeftInv, Carried
<1>2. Head(runs[j].todo).step = step /\ runs[j].todo # <<>>
  BY DEF At, Head1
<1> QED BY <1>1, <1>2, NextIngests DEF Simple, Do

LEMMA MovesLeft ==
  ASSUME Shaped, LeftInv, NEW j \in Jobs, NEW step, At(j, step),
         NEW from, NEW to, NEW which, Moves(j, from, to, which),
         \/ /\ step = "sync" /\ from = "server" /\ to = "stored"
            /\ which = {m \in Mails : AccountOf[m] = Head1(j).of}
         \/ step = "parse" /\ from = "stored" /\ to = "parsed" /\ which = Mails
         \/ step = "normalize" /\ from = "parsed" /\ to = "normalized" /\ which = Mails
  PROVE  StillCarried(j)
<1> DEFINE doable == {m \in which : MailAt(m, from)}
<1>1. PICK f \in BOOLEAN, done \in SUBSET doable :
        /\ mailbox' = MovedOn(done, to)
        /\ runs' = [runs EXCEPT ![j] =
             [Passes(j, f, <<>>) EXCEPT !.refused = IF f THEN @ ELSE @ \cup (doable \ done)]]
  BY DEF Moves
<1>2. PICK p : p = Passes(j, f, <<>>)
  OBVIOUS
<1>3. PICK s : s = runs[j].todo
  OBVIOUS
<1>4. Head(s).step = step /\ s # <<>>
  BY <1>3 DEF At, Head1
<1>5. /\ p = [x \in Fields |-> p[x]] /\ p.todo = <<>> \o Tail(s) /\ p.failed = (runs[j].failed \/ f)
      /\ p.due = runs[j].due /\ p.refused = runs[j].refused
      /\ p.broken = IF f /\ runs[j].due # {} THEN runs[j].broken \cup {Head(s)} ELSE runs[j].broken
  <2>1. Noted(j, f, <<>>, p)
    BY <1>2, PassesNotes
  <2> QED BY <1>3, <2>1 DEF Noted
<1>6. runs'[j] = [p EXCEPT !.refused = IF f THEN @ ELSE @ \cup (doable \ done)]
  BY <1>1, <1>2 DEF Shaped
<1>7. /\ runs'[j].todo = p.todo /\ runs'[j].failed = p.failed /\ runs'[j].due = p.due
      /\ runs'[j].broken = p.broken
      /\ runs'[j].refused = IF f THEN p.refused ELSE p.refused \cup (doable \ done)
  <2> HIDE DEF doable
  <2> QED BY <1>5, <1>6 DEF Fields
<1> SUFFICES ASSUME runs[j].due # {} PROVE StillCarried(j)
  BY <1>5, <1>7 DEF StillCarried
<1>8. PICK k \in Nat : /\ IngestLeft(s, k)
        /\ \A m \in runs[j].due :
             m \in runs[j].refused \/ Told(j, m) \/ Carries(s, k, m, mailbox[m].at)
  BY <1>3 DEF LeftInv, Carried
<1>9. k >= 1 /\ (step = "sync" => k >= 3) /\ (step = "parse" => k = 2) /\ (step = "normalize" => k = 1)
  <2>1. Head(s) = s[1] /\ s[1].step = step
    BY <1>4, <1>8, NextIngests
  <2> QED BY <1>4, <1>8, <2>1, NextIngests DEF Simple, Do
<1>10. Head(s) = s[1] /\ Tail(s) \in Seq(PlanStep) /\ IngestLeft(Tail(s), k - 1) /\ k - 1 \in Nat
  BY <1>4, <1>8, <1>9, NextIngests, TailIngests
<1>11. runs'[j].todo = Tail(s)
  BY <1>5, <1>7, <1>10
<1>12. ASSUME NEW m \in runs[j].due, Carries(s, k, m, mailbox[m].at)
       PROVE  \/ Carries(Tail(s), k - 1, m, mailbox'[m].at)
              \/ Head(s) \in StepsFor(m) /\ (f \/ m \in runs'[j].refused)
  <2>1. m \in Mails
    BY <1>12 DEF LeftInv
  <2>2. Advances(mailbox[m].at, mailbox'[m].at)
    BY <2>1, MovesAdvance DEF LeftInv
  <2>3. CASE Carries(Tail(s), k - 1, m, mailbox[m].at)
    BY <1>10, <2>2, <2>3, AdvanceCarries
  <2>4. CASE m \in doable /\ Head(s) \in StepsFor(m)
    <3>1. CASE m \in done
      <4>1. mailbox'[m].at = to
        BY <1>1, <2>1, <3>1 DEF MovedOn, LeftInv, Placed
      <4> QED BY <1>9, <4>1 DEF Carries
    <3>2. CASE m \notin done
      BY <1>7, <2>4, <3>2
    <3> QED BY <3>1, <3>2
  <2>5. mailbox[m].at = from => m \in doable \/ step = "sync"
    BY <2>1 DEF MailAt
  <2>6. CASE mailbox[m].at = "server" /\ (s[1] = Simple("accounts") \/ s[1] = Do("sync", AccountOf[m]))
    <3>1. step = "sync" /\ Head1(j) = Do("sync", AccountOf[m])
      BY <1>3, <1>4, <1>10, <2>6 DEF Simple, Do, Head1
    <3>2. m \in doable
      BY <2>1, <2>6, <3>1 DEF Do, MailAt
    <3> QED BY <1>3, <2>4, <3>1, <3>2 DEF StepsFor, Head1
  <2>7. CASE mailbox[m].at = "stored" /\ s[1] = Simple("parse")
    <3>1. step = "parse"
      BY <1>4, <1>10, <2>7 DEF Simple, Do
    <3> QED BY <1>10, <2>4, <2>5, <2>7, <3>1 DEF StepsFor
  <2>8. CASE mailbox[m].at = "parsed" /\ s[1] = Simple("normalize")
    <3>1. step = "normalize"
      BY <1>4, <1>10, <2>8 DEF Simple, Do
    <3> QED BY <1>10, <2>4, <2>5, <2>8, <3>1 DEF StepsFor
  <2> QED BY <1>8, <1>9, <1>12, <2>3, <2>6, <2>7, <2>8, TailIngests
<1>13. /\ f => Head(s) \in runs'[j].broken
       /\ runs[j].broken \subseteq runs'[j].broken /\ runs[j].refused \subseteq runs'[j].refused
  BY <1>5, <1>7
<1>14. runs'[j].failed = (runs[j].failed \/ f) /\ runs'[j].due = runs[j].due
  BY <1>5, <1>7
<1> QED BY <1>3, <1>4, <1>8, <1>10, <1>11, <1>12, <1>13, <1>14, GoesOn DEF StillCarried

LEMMA ListAccountsLeft ==
  ASSUME Shaped, LeftInv, NEW j \in Jobs, ListAccounts(j)
  PROVE  StillCarried(j)
<1>1. PICK q : q = SetToSeq({Do("sync", a) : a \in Accounts})
  OBVIOUS
<1>2. PICK f \in BOOLEAN : runs' = [runs EXCEPT ![j] = Passes(j, f, IF f THEN <<>> ELSE q)]
  BY <1>1 DEF ListAccounts
<1>3. PICK s : s = runs[j].todo
  OBVIOUS
<1>4. Head(s).step = "accounts" /\ s # <<>> /\ At(j, "accounts")
  BY <1>3 DEF ListAccounts, At, Head1
<1>5. /\ runs'[j].todo = (IF f THEN <<>> ELSE q) \o Tail(s) /\ runs'[j].failed = (runs[j].failed \/ f)
      /\ runs'[j].due = runs[j].due /\ runs'[j].refused = runs[j].refused
      /\ runs'[j].broken = IF f /\ runs[j].due # {} THEN runs[j].broken \cup {Head(s)} ELSE runs[j].broken
  <2>1. PICK p : p = Passes(j, f, IF f THEN <<>> ELSE q)
    OBVIOUS
  <2>2. runs'[j] = p
    BY <1>2, <2>1 DEF Shaped
  <2>3. Noted(j, f, IF f THEN <<>> ELSE q, p)
    BY <2>1, PassesNotes
  <2> QED BY <1>3, <2>2, <2>3 DEF Noted
<1> SUFFICES ASSUME runs[j].due # {} PROVE StillCarried(j)
  BY <1>5 DEF StillCarried
<1>6. PICK k \in Nat : /\ IngestLeft(s, k)
        /\ \A m \in runs[j].due :
             m \in runs[j].refused \/ Told(j, m) \/ Carries(s, k, m, mailbox[m].at)
  BY <1>3 DEF LeftInv, Carried
<1>7. k = 3 /\ s[1] = Simple("accounts") /\ Head(s) = s[1] /\ Tail(s) \in Seq(PlanStep)
  BY <1>4, <1>6, NextIngests DEF Simple, Do
<1>8. IngestLeft(Tail(s), 2)
  BY <1>6, <1>7, TailIngests
<1>9. UNCHANGED mailbox
  BY DEF ListAccounts
<1>10. \A m \in runs[j].due : m \in Mails /\ Head(s) \in StepsFor(m)
  BY <1>7 DEF StepsFor, LeftInv
<1>11. /\ f => Head(s) \in runs'[j].broken
       /\ runs[j].broken \subseteq runs'[j].broken /\ runs[j].refused \subseteq runs'[j].refused
  BY <1>5
<1>12. CASE f
  <2>1. runs'[j].todo = Tail(s)
    BY <1>5, <1>7, <1>12
  <2> QED BY <1>3, <1>4, <1>5, <1>6, <1>8, <1>10, <1>11, <1>12, <2>1, GoesOn DEF StillCarried
<1>13. CASE ~f
  <2>1. runs'[j].todo = q \o Tail(s) /\ f = FALSE
    BY <1>5, <1>13
  <2>2. PICK n \in Nat : n = Len(q) + 2
    <3>1. IngestLeft(s, 3)
      BY <1>6, <1>7
    <3>2. Len(q) \in Nat
      BY <1>1, <1>7, <3>1, AccountsIngest
    <3> QED BY <3>2
  <2>3. /\ IngestLeft(q \o Tail(s), n)
        /\ \A m \in Mails : \A at : Carries(s, k, m, at) => Carries(q \o Tail(s), n, m, at)
    BY <1>1, <1>6, <1>7, <2>2, AccountsIngest
  <2>4. \A m \in runs[j].due : Carries(s, k, m, mailbox[m].at) => Carries(q \o Tail(s), n, m, mailbox'[m].at)
    BY <1>9, <1>10, <2>3
  <2>5. PICK u : u = q \o Tail(s)
    OBVIOUS
  <2> QED BY <1>3, <1>4, <1>5, <1>6, <1>11, <1>13, <2>1, <2>3, <2>4, <2>5, GoesOn DEF StillCarried
<1> QED BY <1>12, <1>13

\* A run begins with all that is needed to carry what is on the server.
LEMMA StartRunLeft ==
  ASSUME Shaped, LeftInv, NEW j \in Jobs, NEW stage \in StagesOf[j], StartRun(j, stage)
  PROVE  StillCarried(j)
<1>1. stage \in {"ingest", "classify", "sync", "digest", "all"}
  OBVIOUS
<1>2. PICK s : s = Plan[stage]
  OBVIOUS
<1>3. PICK due : due = IF Head(s) = Simple("accounts") THEN {m \in Mails : ~MailAt(m, "away")} ELSE {}
  OBVIOUS
<1>4. runs'[j] = [Idle EXCEPT !.on = TRUE, !.todo = s, !.due = due]
  BY <1>2, <1>3 DEF StartRun, Shaped
<1>5. runs'[j].todo = s /\ runs'[j].due = due /\ runs'[j].failed = FALSE
  BY <1>4 DEF Idle
<1> SUFFICES ASSUME due # {} PROVE Carried(j)'
  BY <1>3, <1>5 DEF StillCarried
<1>6. stage \in {"ingest", "sync", "all"}
  <2>1. Head(s) = Simple("accounts")
    BY <1>3
  <2> QED BY <1>1, <1>2, <2>1 DEF Plan, Gate, Digest, Simple, Do
<1>7. /\ s \in Seq(PlanStep) /\ Len(s) >= 3 /\ (3 < Len(s) => s[4].step = "gate")
      /\ s[1] = Simple("accounts") /\ s[2] = Simple("parse") /\ s[3] = Simple("normalize")
  <2>1. \A x \in {"accounts", "parse", "normalize", "gate", "apply", "days"} :
          Simple(x) \in PlanStep /\ Simple(x).step = x
    BY DEF PlanStep, Simple, Do
  <2>2. PICK a, p, n, g, l, d : /\ a = Simple("accounts") /\ p = Simple("parse") /\ n = Simple("normalize")
                                /\ g = Simple("gate") /\ l = Simple("apply") /\ d = Simple("days")
    OBVIOUS
  <2>3. s \in {<<a, p, n>>, <<a, p, n, g, l>>, <<a, p, n, g, l, d>>}
    BY <1>2, <1>6, <2>2 DEF Plan, Ingest, Gate, Digest
  <2>4. {a, p, n, g, l, d} \subseteq PlanStep /\ g.step = "gate"
    BY <2>1, <2>2
  <2>5. ASSUME s = <<a, p, n>>
        PROVE  s \in Seq(PlanStep) /\ Len(s) = 3 /\ s[1] = a /\ s[2] = p /\ s[3] = n
    BY <2>4, <2>5
  <2>6. ASSUME s = <<a, p, n, g, l>>
        PROVE  s \in Seq(PlanStep) /\ Len(s) = 5 /\ s[1] = a /\ s[2] = p /\ s[3] = n /\ s[4] = g
    BY <2>4, <2>6
  <2>7. ASSUME s = <<a, p, n, g, l, d>>
        PROVE  s \in Seq(PlanStep) /\ Len(s) = 6 /\ s[1] = a /\ s[2] = p /\ s[3] = n /\ s[4] = g
    BY <2>4, <2>7
  <2> QED BY <2>2, <2>3, <2>4, <2>5, <2>6, <2>7
<1>8. IngestLeft(s, 3)
  BY <1>7 DEF IngestLeft
<1>9. \A m \in due : Carries(s, 3, m, mailbox'[m].at)
  <2> SUFFICES ASSUME NEW m \in Mails, ~MailAt(m, "away") PROVE Carries(s, 3, m, mailbox[m].at)
    BY <1>3 DEF StartRun
  <2>1. mailbox[m].at \in {"server", "stored", "parsed", "normalized", "classified"}
    BY DEF LeftInv, Placed, Places, MailAt
  <2> QED BY <1>7, <2>1 DEF Carries
<1> QED BY <1>5, <1>8, <1>9 DEF Carried

\* The steps that are not of run_ingest are taken with nothing due.
LEMMA LaterStepLeft ==
  ASSUME Shaped, LeftInv, NEW j \in Jobs, NEW step, At(j, step),
         step \notin {"accounts", "sync", "parse", "normalize", "gate"},
         NEW r, runs' = [runs EXCEPT ![j] = r], r.due = runs[j].due
  PROVE  StillCarried(j)
<1>1. runs[j].due = {}
  BY IngestsByItsSteps
<1>2. runs'[j] = r
  BY DEF Shaped
<1> QED BY <1>1, <1>2 DEF StillCarried

LEMMA NothingDue ==
  ASSUME Shaped, NEW j \in Jobs, NEW r, runs' = [runs EXCEPT ![j] = r], r.due = {}
  PROVE  StillCarried(j)
BY DEF Shaped, StillCarried

\* What Passes leaves of the mail due, whatever else a step notes.
LEMMA PassesDue ==
  ASSUME NEW j \in Jobs, Shaped, NEW f \in BOOLEAN, NEW more,
         NEW x \in {"refused", "met", "rows"}, NEW v
  PROVE  /\ Passes(j, f, more).due = runs[j].due
         /\ [Passes(j, f, more) EXCEPT ![x] = v].due = runs[j].due
<1>1. PICK p : p = Passes(j, f, more)
  OBVIOUS
<1>2. p = [y \in Fields |-> p[y]] /\ p.due = runs[j].due
  <2>1. Noted(j, f, more, p)
    BY <1>1, PassesNotes
  <2> QED BY <2>1 DEF Noted
<1> QED BY <1>1, <1>2 DEF Fields

LEMMA RunStepLeft ==
  ASSUME Captures, LeftInv, NEW j \in Jobs, RunStep(j)
  PROVE  StillCarried(j)
<1>0. Shaped
  BY DEF Captures
<1>1. CASE ListAccounts(j)
  BY <1>0, <1>1, ListAccountsLeft
<1>2. CASE SyncAccount(j)
  BY <1>0, <1>2, MovesLeft DEF SyncAccount
<1>3. CASE ParseStored(j)
  BY <1>0, <1>3, MovesLeft DEF ParseStored
<1>4. CASE NormalizeParsed(j)
  BY <1>0, <1>4, MovesLeft DEF NormalizeParsed
<1>5. CASE PassGate(j)
  <2>1. PICK f \in BOOLEAN : \E more : runs' = [runs EXCEPT ![j] =
          [Passes(j, f, more) EXCEPT !.due = {}, !.broken = {}, !.refused = {}]]
    BY <1>5 DEF PassGate
  <2>2. PICK more : runs' = [runs EXCEPT ![j] =
          [Passes(j, f, more) EXCEPT !.due = {}, !.broken = {}, !.refused = {}]]
    BY <2>1
  <2>3. PICK p : p = Passes(j, f, more)
    OBVIOUS
  <2>4. p = [x \in Fields |-> p[x]]
    <3>1. Noted(j, f, more, p)
      BY <1>0, <2>3, PassesNotes
    <3> QED BY <3>1 DEF Noted
  <2>5. [p EXCEPT !.due = {}, !.broken = {}, !.refused = {}].due = {}
    BY <2>4 DEF Fields
  <2> QED BY <1>0, <2>2, <2>3, <2>5, NothingDue
<1>6. CASE ClassifyNew(j)
  <2>1. At(j, "classify")
    BY <1>6 DEF ClassifyNew
  <2>2. PICK f \in BOOLEAN : \E met : runs' = [runs EXCEPT ![j] = [Passes(j, f, <<>>) EXCEPT !.met = met]]
    BY <1>6 DEF ClassifyNew
  <2>3. PICK met : runs' = [runs EXCEPT ![j] = [Passes(j, f, <<>>) EXCEPT !.met = met]]
    BY <2>2
  <2>4. [Passes(j, f, <<>>) EXCEPT !.met = met].due = runs[j].due
    BY <1>0, PassesDue
  <2> QED BY <1>0, <2>1, <2>3, <2>4, LaterStepLeft
<1>7. ASSUME NEW step \in {"apply", "write"}, At(j, step), Moves(j, "none", "none", {})
      PROVE  StillCarried(j)
  <2>1. PICK f \in BOOLEAN : \E refused :
          runs' = [runs EXCEPT ![j] = [Passes(j, f, <<>>) EXCEPT !.refused = refused]]
    BY <1>7 DEF Moves
  <2>2. PICK refused : runs' = [runs EXCEPT ![j] = [Passes(j, f, <<>>) EXCEPT !.refused = refused]]
    BY <2>1
  <2>3. [Passes(j, f, <<>>) EXCEPT !.refused = refused].due = runs[j].due
    BY <1>0, PassesDue
  <2> QED BY <1>0, <1>7, <2>2, <2>3, LaterStepLeft
<1>8. CASE ApplyRules(j)
  BY <1>7, <1>8 DEF ApplyRules
<1>9. CASE WriteDigest(j)
  BY <1>7, <1>9 DEF WriteDigest
<1>10. CASE ChooseDays(j)
  <2>1. At(j, "days") /\ \E more : runs' = [runs EXCEPT ![j] = Passes(j, FALSE, more)]
    BY <1>10 DEF ChooseDays
  <2> QED BY <1>0, <2>1, PassesDue, LaterStepLeft
<1>11. CASE ListActionable(j)
  <2>1. At(j, "capture")
    BY <1>11 DEF ListActionable
  <2>2. ASSUME runs' = [runs EXCEPT ![j] = Passes(j, TRUE, <<>>)] PROVE StillCarried(j)
    BY <1>0, <2>1, <2>2, PassesDue, LaterStepLeft
  <2>3. ASSUME NEW rows,
               runs' = [runs EXCEPT ![j] = [Passes(j, FALSE, <<Simple("rows")>>) EXCEPT !.rows = rows]]
        PROVE  StillCarried(j)
    <3>1. [Passes(j, FALSE, <<Simple("rows")>>) EXCEPT !.rows = rows].due = runs[j].due
      <4>1. PICK p : p = Passes(j, FALSE, <<Simple("rows")>>)
        OBVIOUS
      <4>2. Noted(j, FALSE, <<Simple("rows")>>, p)
        BY <1>0, <4>1, PassesNotes
      <4>3. p = [x \in Fields |-> p[x]] /\ p.due = runs[j].due
        BY <4>2 DEF Noted
      <4> QED BY <4>1, <4>3 DEF Fields
    <3> QED BY <1>0, <2>1, <2>3, <3>1, LaterStepLeft
  <2> QED BY <1>11, <2>2, <2>3 DEF ListActionable
<1>12. ASSUME NEW m \in Mails, CaptureRow(j, m) PROVE StillCarried(j)
  <2>1. PICK rows, pending :
          runs' = [runs EXCEPT ![j] = [runs[j] EXCEPT !.rows = rows, !.pending = pending]]
    <3>1. CASE Seen(m)
      <4>1. runs' = [runs EXCEPT ![j] = [runs[j] EXCEPT !.rows = runs[j].rows \ {m}, !.pending = NoMail]]
        BY <1>0, <1>12, <3>1 DEF CaptureRow, Shaped, Shape, Fields
      <4> QED BY <4>1
    <3>2. CASE ~Seen(m)
      BY <1>0, <1>12, <3>2 DEF CaptureRow, Shaped, Shape, Fields
    <3> QED BY <3>1, <3>2
  <2>2. [runs[j] EXCEPT !.rows = rows, !.pending = pending].due = runs[j].due
    BY <1>0 DEF Shaped, Shape, Fields
  <2>3. At(j, "rows")
    BY <1>12 DEF CaptureRow
  <2> QED BY <1>0, <2>1, <2>2, <2>3, LaterStepLeft
<1>13. CASE RecordRow(j)
  <2>1. At(j, "rows")
    BY <1>13 DEF RecordRow, Captures, PendingInRows
  <2>2. ASSUME runs' = [runs EXCEPT ![j].pending = NoMail] PROVE StillCarried(j)
    <3>1. runs' = [runs EXCEPT ![j] = [runs[j] EXCEPT !.pending = NoMail]]
      BY <1>0, <2>2 DEF Shaped
    <3>2. [runs[j] EXCEPT !.pending = NoMail].due = runs[j].due
      BY <1>0 DEF Shaped, Shape, Fields
    <3> QED BY <1>0, <2>1, <3>1, <3>2, LaterStepLeft
  <2>3. ASSUME runs' = [runs EXCEPT ![j] = [Passes(j, TRUE, <<>>) EXCEPT !.pending = NoMail, !.rows = {}]]
        PROVE  StillCarried(j)
    <3>1. PICK p : p = Passes(j, TRUE, <<>>)
      OBVIOUS
    <3>2. p = [x \in Fields |-> p[x]] /\ p.due = runs[j].due
      <4>1. Noted(j, TRUE, <<>>, p)
        BY <1>0, <3>1, PassesNotes
      <4> QED BY <4>1 DEF Noted
    <3>3. [p EXCEPT !.pending = NoMail, !.rows = {}].due = runs[j].due
      BY <3>2 DEF Fields
    <3> QED BY <1>0, <2>1, <2>3, <3>1, <3>3, LaterStepLeft
  <2> QED BY <1>13, <2>2, <2>3 DEF RecordRow
<1>14. CASE CapturedRows(j)
  <2>1. At(j, "rows") /\ runs' = [runs EXCEPT ![j] = Passes(j, FALSE, <<>>)]
    BY <1>14 DEF CapturedRows
  <2> QED BY <1>0, <2>1, PassesDue, LaterStepLeft
<1>15. CASE EndRun(j)
  <2>1. runs' = [runs EXCEPT ![j] = Idle] /\ Idle.due = {}
    BY <1>15 DEF EndRun, Idle
  <2> QED BY <1>0, <2>1, NothingDue
<1> QED BY <1>1, <1>2, <1>3, <1>4, <1>5, <1>6, <1>8, <1>9, <1>10, <1>11, <1>12, <1>13, <1>14, <1>15 DEF RunStep

\* Of one run at a time, and mail goes on.
LEMMA RunStepAdvances ==
  ASSUME LeftInv, Shaped, NEW j \in Jobs, RunStep(j)
  PROVE  /\ Placed' /\ \A m \in Mails : Advances(mailbox[m].at, mailbox'[m].at)
         /\ \A k \in Jobs : k # j => runs'[k] = runs[k]
<1>1. \A k \in Jobs : k # j => runs'[k] = runs[k]
  <2>1. \E r : runs' = [runs EXCEPT ![j] = r]
    <3>1. ASSUME NEW r, runs' = [runs EXCEPT ![j] = r] PROVE \E x : runs' = [runs EXCEPT ![j] = x]
      BY <3>1
    <3>2. ASSUME NEW m \in Mails, CaptureRow(j, m) PROVE \E x : runs' = [runs EXCEPT ![j] = x]
      BY <3>2 DEF CaptureRow
    <3>3. ASSUME RecordRow(j) PROVE \E x : runs' = [runs EXCEPT ![j] = x]
      BY <3>3 DEF RecordRow
    <3> QED BY <3>2, <3>3 DEF RunStep, ListAccounts, SyncAccount, ParseStored, NormalizeParsed, PassGate,
         ClassifyNew, ApplyRules, ChooseDays, WriteDigest, ListActionable, CapturedRows, EndRun, Moves
  <2> QED BY <2>1 DEF Shaped
<1>2. Placed
  BY DEF LeftInv
<1>3. CASE SyncAccount(j)
  BY <1>1, <1>2, <1>3, MovesAdvance DEF SyncAccount
<1>4. CASE ParseStored(j)
  BY <1>1, <1>2, <1>4, MovesAdvance DEF ParseStored
<1>5. CASE NormalizeParsed(j)
  BY <1>1, <1>2, <1>5, MovesAdvance DEF NormalizeParsed
<1>6. CASE ClassifyNew(j)
  <2> DEFINE new == {m \in Mails : MailAt(m, "normalized") /\ mailbox[m].received >= Head1(j).of}
  <2>1. PICK done \in SUBSET new : mailbox' = MovedOn(done, "classified")
    BY <1>6 DEF ClassifyNew
  <2>2. ASSUME NEW m \in Mails
        PROVE  /\ mailbox'[m] = [at |-> mailbox'[m].at, received |-> mailbox'[m].received]
               /\ mailbox'[m].at \in Places /\ Advances(mailbox[m].at, mailbox'[m].at)
    <3>1. /\ mailbox'[m] = IF m \in done THEN [mailbox[m] EXCEPT !.at = "classified"] ELSE mailbox[m]
          /\ mailbox[m] = [at |-> mailbox[m].at, received |-> mailbox[m].received] /\ mailbox[m].at \in Places
      BY <1>2, <2>1, <2>2 DEF MovedOn, Placed
    <3>2. CASE m \in done
      <4>1. mailbox[m].at = "normalized" /\ mailbox'[m].at = "classified"
            /\ mailbox'[m].received = mailbox[m].received
        BY <2>1, <3>1, <3>2 DEF MailAt
      <4> QED BY <3>1, <3>2, <4>1 DEF Advances, Places
    <3>3. CASE m \notin done
      BY <3>1, <3>3 DEF Advances
    <3> QED BY <3>2, <3>3
  <2>3. mailbox' = [m \in Mails |-> mailbox'[m]]
    BY <2>1 DEF MovedOn
  <2> QED BY <1>1, <2>2, <2>3 DEF Placed
<1>7. CASE mailbox' = mailbox
  BY <1>1, <1>2, <1>7 DEF Placed, Advances
<1>8. CASE ApplyRules(j) \/ WriteDigest(j)
  BY <1>2, <1>7, <1>8, NoneMoved DEF ApplyRules, WriteDigest
<1> QED BY <1>3, <1>4, <1>5, <1>6, <1>7, <1>8 DEF RunStep, ListAccounts, PassGate, ChooseDays,
      ListActionable, CaptureRow, RecordRow, CapturedRows, EndRun

LEMMA LeftNext == Captures /\ LeftInv /\ [DailyNext]_dailyVars => LeftInv'
<1> SUFFICES ASSUME Captures, LeftInv, [DailyNext]_dailyVars PROVE LeftInv'
  OBVIOUS
<1>0. Shaped /\ Placed
  BY DEF Captures, LeftInv
<1>1. ASSUME NEW j \in Jobs, NEW s \in StagesOf[j], StartRun(j, s) PROVE LeftInv'
  <2>1. StillCarried(j)
    BY <1>0, <1>1, StartRunLeft
  <2>2. mailbox' = mailbox /\ \A k \in Jobs : k # j => runs'[k] = runs[k]
    BY <1>0, <1>1 DEF StartRun, Shaped
  <2>3. Placed' /\ \A m \in Mails : Advances(mailbox[m].at, mailbox'[m].at)
    BY <1>0, <2>2 DEF Placed, Advances
  <2> QED BY <2>1, <2>2, <2>3, RunKeepsLeft
<1>2. ASSUME NEW j \in Jobs, RunStep(j) PROVE LeftInv'
  BY <1>0, <1>2, RunStepLeft, RunStepAdvances, RunKeepsLeft
<1>3. ASSUME NEW j \in Jobs, RunDies(j) PROVE LeftInv'
  <2>1. StillCarried(j)
    <3>1. runs' = [runs EXCEPT ![j] = Idle] /\ Idle.due = {}
      BY <1>3 DEF RunDies, Idle
    <3> QED BY <1>0, <3>1, NothingDue
  <2>2. mailbox' = mailbox /\ \A k \in Jobs : k # j => runs'[k] = runs[k]
    BY <1>0, <1>3 DEF RunDies, Shaped
  <2>3. Placed' /\ \A m \in Mails : Advances(mailbox[m].at, mailbox'[m].at)
    BY <1>0, <2>2 DEF Placed, Advances
  <2> QED BY <2>1, <2>2, <2>3, RunKeepsLeft
<1>4. ASSUME UNCHANGED runs, NEW m \in Mails, NEW to \in Places, NEW received,
             Advances(mailbox[m].at, to),
             mailbox' = [mailbox EXCEPT ![m] = [at |-> to, received |-> received]]
      PROVE  LeftInv'
  <2>1. \A n \in Mails : mailbox'[n] = IF n = m THEN [at |-> to, received |-> received] ELSE mailbox[n]
    BY <1>0, <1>4 DEF Placed
  <2>2. mailbox' = [n \in Mails |-> mailbox'[n]]
    BY <1>0, <1>4 DEF Placed
  <2>3. Placed'
    BY <1>0, <2>1, <2>2 DEF Placed
  <2>4. \A n \in Mails : Advances(mailbox[n].at, mailbox'[n].at)
    BY <1>4, <2>1 DEF Advances
  <2> QED BY <1>4, <2>3, <2>4, RunKeepsLeft
<1>5. ASSUME NEW m \in Mails, Arrives(m) PROVE LeftInv'
  <2>1. mailbox' = [mailbox EXCEPT ![m] = [at |-> "server", received |-> day]]
    <3>1. PICK x : x = mailbox[m]
      OBVIOUS
    <3>2. [x EXCEPT !.at = "server", !.received = day] = [at |-> "server", received |-> day]
      <4>1. PICK a, r : x = [at |-> a, received |-> r]
        BY <1>0, <3>1 DEF Placed
      <4>2. PICK z : z = [x EXCEPT !.at = "server", !.received = day]
        OBVIOUS
      <4>3. z = [f \in {"at", "received"} |-> z[f]] /\ z.at = "server" /\ z.received = day
        BY <4>1, <4>2
      <4>4. z = [at |-> "server", received |-> day]
        BY <4>3
      <4> QED BY <4>2, <4>4
    <3>3. mailbox' = [mailbox EXCEPT ![m] = [x EXCEPT !.at = "server", !.received = day]]
      BY <1>0, <1>5, <3>1 DEF Arrives, Placed
    <3> QED BY <3>2, <3>3
  <2>2. Advances(mailbox[m].at, "server") /\ "server" \in Places /\ UNCHANGED runs
    BY <1>5 DEF Arrives, MailAt, Advances, Places
  <2> QED BY <1>4, <2>1, <2>2
<1>6. ASSUME NEW m \in Mails, ByHand(m) PROVE LeftInv'
  <2>1. mailbox' = [mailbox EXCEPT ![m] = [at |-> AfterIt(mailbox[m].at), received |-> mailbox[m].received]]
    <3>1. PICK x : x = mailbox[m]
      OBVIOUS
    <3>2. PICK y : y = AfterIt(x.at)
      OBVIOUS
    <3>3. [x EXCEPT !.at = y] = [at |-> y, received |-> x.received]
      <4>1. PICK a, r : x = [at |-> a, received |-> r]
        BY <1>0, <3>1 DEF Placed
      <4> QED BY <4>1
    <3>4. mailbox' = [mailbox EXCEPT ![m] = [x EXCEPT !.at = y]]
      BY <1>0, <1>6, <3>1, <3>2 DEF ByHand, Placed
    <3> QED BY <3>1, <3>2, <3>3, <3>4
  <2>2. mailbox[m].at \in {"server", "stored", "parsed", "normalized"}
    BY <1>0, <1>6 DEF ByHand, Placed, Places, MailAt
  <2>3. Advances(mailbox[m].at, AfterIt(mailbox[m].at)) /\ AfterIt(mailbox[m].at) \in Places
    BY <2>2 DEF AfterIt, Advances, Places
  <2> QED BY <1>4, <1>6, <2>1, <2>3 DEF ByHand
<1>7. ASSUME UNCHANGED <<mailbox, runs>> PROVE LeftInv'
  BY <1>7 DEF LeftInv, Placed, Carried, Told
<1> QED BY <1>1, <1>2, <1>3, <1>5, <1>6, <1>7 DEF DailyNext, RowReplaced, Midnight, dailyVars

LEMMA LeftInit == DailyInit => LeftInv
<1> SUFFICES ASSUME DailyInit PROVE LeftInv
  OBVIOUS
<1>1. \A j \in Jobs : runs[j].due = {}
  BY DEF DailyInit, Idle
<1> QED BY <1>1 DEF DailyInit, LeftInv, Placed, Places

LEMMA LeftGives == LeftInv => LeftBehindIsTold
<1> SUFFICES ASSUME LeftInv, NEW j \in Jobs, Ingested(j), NEW m \in runs[j].due
             PROVE  \/ Usable(m) \/ m \in runs[j].refused
                    \/ runs[j].failed /\ StepsFor(m) \cap runs[j].broken # {}
  BY DEF LeftBehindIsTold
<1>1. PICK s : s = runs[j].todo
  OBVIOUS
<1>2. PICK k \in Nat : /\ IngestLeft(s, k)
        /\ (m \in runs[j].refused \/ Told(j, m) \/ Carries(s, k, m, mailbox[m].at))
  BY <1>1 DEF LeftInv, Carried
<1>3. k = 0
  <2>1. CASE s = <<>>
    BY <1>2, <2>1 DEF IngestLeft
  <2>2. CASE s # <<>> /\ Head(s).step = "gate"
    BY <1>2, <2>2, NextIngests DEF Simple, Do
  <2> QED BY <1>1, <2>1, <2>2 DEF Ingested, At, Head1
<1> QED BY <1>2, <1>3 DEF Carries, Told, Usable

\* Whatever step of a run fails, and whatever other runs do meanwhile, mail
\* that was on the server when it began is usable when it has ingested, was
\* counted as an error, or one of the steps it depends on failed, and the exit
\* status of the run tells.
THEOREM LeftBehindHolds == DailySpec => []LeftBehindIsTold
<1>1. Captures /\ LeftInv /\ [DailyNext]_dailyVars => (Captures /\ LeftInv)'
  BY CapturesNext, LeftNext
<1> QED
  BY <1>1, CapturesInit, LeftInit, LeftGives, PTL DEF DailySpec
=============================================================================
