------------------------------ MODULE TuiProofs ------------------------------
(***************************************************************************)
(* The screens of the terminal keep what they promise, for any rules,      *)
(* senders, filters and families, and any number of requests in flight.    *)
(***************************************************************************)
EXTENDS MCTui, TLAPS, SequenceTheorems

\* A record with these fields.
Has(r, fields) == r = [x \in fields |-> r[x]]

----------------------------------------------------------------------------
(* TuiSuggestions.                                                         *)

PanelFields == {"family", "previewed", "busy"}
CreatingFields == {"family", "left"}

\* A family asked about is one whose panel has not been answered.
RoundsCounted ==
    /\ panels \in Nat /\ started \in Nat
    /\ started <= panels
    /\ panel.family # NoFamily \/ (drawnPanel.family # NoFamily /\ ~Creating) => started < panels

SuggestionsInv ==
    /\ Has(panel, PanelFields) /\ Has(drawnPanel, PanelFields) /\ Has(creating, CreatingFields)
    /\ Creating => panel.family = NoFamily
    /\ Creating => Proposed[creating.family] \subseteq rules \cup refused \cup creating.left
    /\ TickedIsStored
    /\ RoundsCounted

LEMMA SuggestionsInitInv == SuggestionsInit => SuggestionsInv
<1> SUFFICES ASSUME SuggestionsInit PROVE SuggestionsInv
  OBVIOUS
<1>1. /\ panel.family = NoFamily /\ drawnPanel.family = NoFamily /\ creating.family = NoFamily
      /\ Has(panel, PanelFields) /\ Has(drawnPanel, PanelFields) /\ Has(creating, CreatingFields)
  BY DEF SuggestionsInit, NoPanel, Nothing, Has, PanelFields, CreatingFields
<1> QED BY <1>1 DEF SuggestionsInit, SuggestionsInv, Creating, TickedIsStored, RoundsCounted

LEMMA SuggestionsNextInv ==
  ASSUME SuggestionsInv, [SuggestionsNext]_suggestionsVars
  PROVE  SuggestionsInv'
<1> USE DEF SuggestionsInv
<1>0. Has(panel, PanelFields) /\ Has(drawnPanel, PanelFields) /\ Has(creating, CreatingFields)
  OBVIOUS
<1>1. CASE SuggestionsRender
  BY <1>1 DEF SuggestionsRender, Creating, TickedIsStored, RoundsCounted
<1>2. ASSUME NEW f \in Families, KeyConsider(f) PROVE SuggestionsInv'
  <2>1. Has(panel', PanelFields) /\ panel'.family = f
    BY <1>0, <1>2 DEF KeyConsider, Has, PanelFields
  <2> QED BY <1>2, <2>1 DEF KeyConsider, PanelKeeps, Creating, TickedIsStored, RoundsCounted
<1>3. CASE KeyAccept
  <2>1. Has(panel', PanelFields) /\ panel'.family = NoFamily
    BY <1>3 DEF KeyAccept, NoPanel, Has, PanelFields
  <2>2. /\ Has(creating', CreatingFields) /\ creating'.family = drawnPanel.family
        /\ creating'.left = Proposed[drawnPanel.family]
    BY <1>3 DEF KeyAccept, Has, CreatingFields
  <2> QED BY <1>3, <2>1, <2>2 DEF KeyAccept, PanelKeeps, Creating, TickedIsStored, RoundsCounted
<1>4. CASE KeyRefuse
  <2>1. Has(panel', PanelFields) /\ panel'.family = NoFamily
    BY <1>0, <1>4 DEF KeyRefuse, Has, PanelFields
  <2> QED BY <1>4, <2>1 DEF KeyRefuse, PanelKeeps, Creating, TickedIsStored, RoundsCounted
<1>5. ASSUME NEW p \in previews, PreviewArrives(p) PROVE SuggestionsInv'
  <2>1. Has(panel', PanelFields) /\ panel'.family = panel.family
    BY <1>0, <1>5 DEF PreviewArrives, Has, PanelFields
  <2> QED BY <1>5, <2>1 DEF PreviewArrives, Creating, TickedIsStored, RoundsCounted
<1>6. ASSUME NEW g \in creating.left, CreateNext(g) PROVE SuggestionsInv'
  <2>1. PICK failed \in BOOLEAN :
          /\ creating' = [creating EXCEPT !.left = creating.left \ {g}]
          /\ rules' = IF failed THEN rules ELSE rules \cup {g}
          /\ refused' = IF failed THEN refused \cup {g} ELSE refused
    BY <1>6 DEF CreateNext, Left
  <2>2. Has(creating', CreatingFields) /\ creating'.family = creating.family /\ creating'.left = creating.left \ {g}
    BY <1>0, <2>1 DEF Has, CreatingFields
  <2>3. rules \cup refused \cup {g} = rules' \cup refused'
    BY <2>1
  <2> QED BY <1>6, <2>2, <2>3 DEF CreateNext, Creating, TickedIsStored, RoundsCounted
<1>7. CASE CreateEnds
  <2>1. Has(panel', PanelFields) /\ panel'.family = panel.family
    BY <1>0, <1>7 DEF CreateEnds, Has, PanelFields
  <2>2. Has(creating', CreatingFields) /\ creating'.family = NoFamily
    BY <1>7 DEF CreateEnds, Nothing, Has, CreatingFields
  <2> QED BY <1>7, <2>1, <2>2 DEF CreateEnds, Creating, TickedIsStored, RoundsCounted
<1>8. CASE OthersDelete
  <2>1. rules' \cup refused' = rules \cup refused
    BY <1>8 DEF OthersDelete
  <2> QED BY <1>8, <2>1 DEF OthersDelete, Creating, TickedIsStored, RoundsCounted
<1>9. CASE UNCHANGED suggestionsVars
  BY <1>9 DEF suggestionsVars, Creating, TickedIsStored, RoundsCounted
<1> QED BY <1>1, <1>2, <1>3, <1>4, <1>5, <1>6, <1>7, <1>8, <1>9 DEF SuggestionsNext

LEMMA SuggestionsHold ==
  ASSUME SuggestionsInv
  PROVE  TickedIsStored /\ OneRoundPerPanel
BY DEF SuggestionsInv, RoundsCounted, OneRoundPerPanel

----------------------------------------------------------------------------
(* TuiReclassify.                                                          *)

PreviewFields == {"state", "options", "changes", "costs", "at"}
ConfirmFields == {"kind", "options", "batch"}

Changing == call # None /\ call.kind \in {"apply", "undo"} /\ call.done /\ call.changed

\* The dry run on the screen is one to apply for these options, if asked for.
Loaded1(opts) == preview.state = "done" /\ preview.options = opts /\ preview.changes

ReclassifyInv ==
    /\ presses \in Nat /\ writes \in Nat /\ options \in Options
    /\ batch \in Nat \cup {None} /\ drawnBatch \in Nat \cup {None}
    /\ Has(preview, PreviewFields)
    /\ call \in Calls \cup {None}
    /\ confirm # None => /\ Has(confirm, ConfirmFields) /\ call = None
                         /\ confirm.options \in Options /\ confirm.batch \in Nat \cup {None}
    /\ preview.state = "done" => preview.at = writes \/ unanswered \/ Changing
    /\ confirm # None /\ confirm.kind = "cost" => Loaded1(confirm.options) /\ presses >= 1
    /\ Applying => Loaded1(call.options) /\ (preview.costs => presses >= 2)

LEMMA ReclassifyInitInv == ReclassifyInit => ReclassifyInv
BY DefaultAssumption DEF ReclassifyInit, ReclassifyInv, Preview, Call, Calls, Has, PreviewFields, Applying

LEMMA ReclassifyNextInv ==
  ASSUME ReclassifyInv, [ReclassifyNext]_reclassifyVars
  PROVE  ReclassifyInv'
<1> USE DefaultAssumption DEF ReclassifyInv, Changing, Applying, Loaded1
<1>0. /\ Has(preview, PreviewFields) /\ call \in Calls \cup {None}
      /\ (confirm # None => Has(confirm, ConfirmFields))
  OBVIOUS
<1>1. CASE ReclassifyRender
  BY <1>1 DEF ReclassifyRender
<1>2. ASSUME NEW opts \in Options, KeyOptions(opts) PROVE ReclassifyInv'
  <2>1. Has(preview', PreviewFields) /\ preview'.state = "loading"
    BY <1>2 DEF KeyOptions, DryRun, Preview, Has, PreviewFields
  <2>2. call' \in Calls /\ call'.kind = "dryRun" /\ call'.done = FALSE
    BY <1>2 DEF KeyOptions, DryRun, Call, Calls
  <2> QED BY <1>2, <2>1, <2>2 DEF KeyOptions, DryRun, AtRest
<1>3. CASE KeyApply
  <2>1. presses' \in Nat /\ presses' >= 1 /\ AtRest
    BY <1>3 DEF KeyApply, Pressed
  <2>2. CASE Gate = "confirmCost" /\ confirm' = [kind |-> "cost", options |-> options, batch |-> None] /\ UNCHANGED call
    <3>1. preview.state = "done" /\ preview.options = options /\ preview.changes
      BY <2>2 DEF Gate
    <3>2. Has(confirm', ConfirmFields) /\ confirm'.kind = "cost" /\ confirm'.options = options
          /\ confirm'.batch = None
      BY <2>2 DEF Has, ConfirmFields
    <3> QED BY <1>3, <2>1, <2>2, <3>1, <3>2 DEF KeyApply, AtRest
  <2>3. CASE Gate = "apply" /\ call' = Call("apply", options, None) /\ UNCHANGED confirm
    <3>1. preview.state = "done" /\ preview.options = options /\ preview.changes /\ ~preview.costs
      BY <2>3 DEF Gate
    <3>2. call' \in Calls /\ call'.kind = "apply" /\ call'.options = options /\ call'.done = FALSE
      BY <2>3 DEF Call, Calls
    <3> QED BY <1>3, <2>1, <2>3, <3>1, <3>2 DEF KeyApply, AtRest
  <2> QED BY <1>3, <2>2, <2>3 DEF KeyApply
<1>4. CASE KeyUndo
  <2>1. Has(confirm', ConfirmFields) /\ confirm'.kind = "undo"
        /\ confirm'.options = options /\ confirm'.batch = drawnBatch
    BY <1>4 DEF KeyUndo, Has, ConfirmFields
  <2> QED BY <1>4, <2>1 DEF KeyUndo, AtRest
<1>5. CASE KeyConfirm
  <2>1. CASE confirm.kind = "cost"
    <3>1. /\ call' \in Calls /\ call'.kind = "apply" /\ call'.options = confirm.options
          /\ call'.done = FALSE
      BY <1>5, <2>1 DEF KeyConfirm, Call, Calls
    <3>2. presses' \in Nat /\ presses' >= 2
      BY <1>5, <2>1 DEF KeyConfirm, Pressed
    <3> QED BY <1>5, <2>1, <3>1, <3>2 DEF KeyConfirm
  <2>2. CASE confirm.kind # "cost"
    <3>1. call' \in Calls /\ call'.kind = "undo" /\ call'.done = FALSE
      BY <1>5, <2>2 DEF KeyConfirm, Call, Calls
    <3> QED BY <1>5, <2>2, <3>1 DEF KeyConfirm
  <2> QED BY <2>1, <2>2
<1>6. CASE KeyCancel
  BY <1>6 DEF KeyCancel
<1>7. CASE Runs
  <2>1. PICK changed \in BOOLEAN :
          /\ call' = [call EXCEPT !.done = TRUE, !.changed = changed]
          /\ writes' = IF changed /\ call.kind # "dryRun" THEN writes + 1 ELSE writes
    BY <1>7 DEF Runs
  <2>2. call' \in Calls /\ call'.kind = call.kind /\ call'.done = TRUE /\ call'.changed = changed
    BY <1>0, <1>7, <2>1 DEF Runs, Calls
  <2>3. call # None /\ ~call.done /\ confirm' = None /\ preview' = preview /\ unanswered' = unanswered
    BY <1>7 DEF Runs
  <2>4. call.kind \in {"dryRun", "apply", "undo"} /\ call' # None
    BY <1>0, <2>2, <2>3 DEF Calls
  <2>5. preview'.state = "done" => preview'.at = writes' \/ unanswered' \/ Changing'
    BY <2>1, <2>2, <2>3, <2>4
  <2> QED BY <1>7, <2>1, <2>2, <2>3, <2>5 DEF Runs
<1>8. CASE DryRunLoads
  <2>1. Has(preview', PreviewFields) /\ preview'.at = writes
    BY <1>8 DEF DryRunLoads, Has, PreviewFields
  <2> QED BY <1>8, <2>1 DEF DryRunLoads, ReclassifyAnswered
<1>9. Has(Stale, PreviewFields) /\ Stale.state = "stale"
  BY DEF Stale, Preview, Has, PreviewFields
<1>10. CASE ApplyAnswered \/ UndoAnswered
  BY <1>9, <1>10 DEF ApplyAnswered, UndoAnswered, AfterApply, ReclassifyAnswered
<1>11. CASE CallFails
  <2>1. CASE call.kind = "undo"
    BY <1>11, <2>1 DEF CallFails
  <2>2. CASE call.kind = "apply"
    BY <1>9, <1>11, <2>2 DEF CallFails
  <2>3. CASE call.kind = "dryRun"
    <3>1. Has(preview', PreviewFields) /\ preview'.state = "error"
      BY <1>11, <2>3 DEF CallFails, Preview, Has, PreviewFields
    <3> QED BY <1>11, <3>1 DEF CallFails
  <2>4. call.kind \in {"dryRun", "apply", "undo"}
    BY <1>0, <1>11 DEF CallFails, Calls
  <2> QED BY <2>1, <2>2, <2>3, <2>4
<1>12. CASE UNCHANGED reclassifyVars
  BY <1>12 DEF reclassifyVars
<1> QED BY <1>1, <1>2, <1>3, <1>4, <1>5, <1>6, <1>7, <1>8, <1>10, <1>11, <1>12 DEF ReclassifyNext

LEMMA ReclassifyHolds ==
  ASSUME ReclassifyInv
  PROVE  AppliesWhatWasShown /\ CostAskedTwice
BY DEF ReclassifyInv, AppliesWhatWasShown, CostAskedTwice, Applying, Changing, Loaded1

----------------------------------------------------------------------------
(* TuiMailbox.                                                             *)

LogFields == {"filter", "rows", "late", "error", "confirm", "panel", "busy"}
JobFields == {"kind", "at", "rows", "passed"}

\* A confirm that was opened and has not been answered by y.
AskedFor == log.confirm # "none" \/ (drawnLog.confirm # "none" /\ ~Busy)
Current(rows) == rows.filter = log.filter /\ rows.at >= own

\* The load of the start, before any other call.
FirstLoad == opening.kind = "load" /\ opening.passed = FALSE

MailboxShape ==
    /\ revision \in Nat /\ own \in Nat /\ own <= revision
    /\ asked \in Nat /\ written \in Nat
    /\ Has(log, LogFields) /\ Has(drawnLog, LogFields)
    /\ Has(job, JobFields) /\ Has(opening, JobFields)
    /\ log.confirm \in {"none", "undo", "reconcile"} /\ drawnLog.confirm \in {"none", "undo", "reconcile"}
    /\ opening.kind \in {"none", "load"} /\ opening.passed \in BOOLEAN
MailboxInv ==
    /\ MailboxShape
    /\ written <= asked /\ (AskedFor => written < asked)
    /\ job.kind \in {"none", "preview"} /\ ~log.error /\ ~log.late /\ log.rows.filter # NoLog
         => Current(log.rows)
    /\ job.kind = "load" => job.rows.filter = log.filter /\ (job.at = "read" => job.rows.at >= own)
    /\ FirstLoad => /\ log.filter = AllFilter /\ own = 0 /\ job.kind = "none"
                    /\ opening.rows.filter = AllFilter
                    /\ opening.at = "read" => opening.rows.at \in Nat

LEMMA NoJobIs == Has(NoJob, JobFields) /\ NoJob.kind = "none" /\ NoJob.passed = FALSE
BY DEF NoJob, Has, JobFields

JustSent(j, kind, filter) ==
    /\ Has(j, JobFields) /\ j.kind = kind /\ j.at = "sent" /\ j.passed = FALSE /\ j.rows.filter = filter
LEMMA FetchingIs ==
  ASSUME NEW kind, NEW filter, NEW j, j = Fetching(kind, filter)
  PROVE  JustSent(j, kind, filter)
BY DEF JustSent, Fetching, Fetched, Has, JobFields

LEMMA ReadIs ==
  ASSUME NEW j, Has(j, JobFields)
  PROVE  /\ Has(LogRead(j), JobFields) /\ LogRead(j).kind = j.kind /\ LogRead(j).passed = j.passed
         /\ LogRead(j).rows.filter = j.rows.filter /\ LogRead(j).rows.at = revision
<1>1. PICK rows : rows = Fetched(j.rows.filter, revision)
  OBVIOUS
<1>2. rows.filter = j.rows.filter /\ rows.at = revision
  BY <1>1 DEF Fetched
<1>3. LogRead(j) = [j EXCEPT !.at = "read", !.rows = rows]
  BY <1>1 DEF LogRead
<1>4. /\ Has(LogRead(j), JobFields) /\ LogRead(j).kind = j.kind /\ LogRead(j).passed = j.passed
      /\ LogRead(j).rows = rows
  BY <1>3 DEF Has, JobFields
<1> QED BY <1>2, <1>4

\* A call is made: the load of the start, if it is not over, is passed.
LEMMA RunIs ==
  ASSUME MailboxShape, NEW kind, NEW filter, Run(kind, filter)
  PROVE  /\ Has(job', JobFields) /\ job'.kind = kind /\ job'.at = "sent" /\ job'.rows.filter = filter
         /\ Has(opening', JobFields)
         /\ opening'.kind = opening.kind /\ opening'.passed \in BOOLEAN
         /\ opening.kind = "load" => opening'.passed = TRUE
<1>1. Has(opening, JobFields)
  BY DEF MailboxShape
<1>2. opening.kind = "load" => opening # NoJob
  BY NoJobIs
<1>3. PICK passed \in BOOLEAN : passed = (opening # NoJob) /\ opening' = [opening EXCEPT !.passed = passed]
  BY DEF Run
<1>4. Has(opening', JobFields) /\ opening'.kind = opening.kind /\ opening'.passed = passed
  BY <1>1, <1>3 DEF Has, JobFields
<1>5. Has(job', JobFields) /\ job'.kind = kind /\ job'.at = "sent" /\ job'.rows.filter = filter
  <2>1. JustSent(job', kind, filter)
    BY FetchingIs DEF Run
  <2> QED BY <2>1 DEF JustSent
<1> QED BY <1>2, <1>3, <1>4, <1>5

LEMMA MailboxInitInv == MailboxInit => MailboxInv
<1> SUFFICES ASSUME MailboxInit PROVE MailboxInv
  OBVIOUS
<1>1. /\ log.filter = AllFilter /\ log.rows.filter = NoLog /\ log.confirm = "none"
      /\ Has(log, LogFields) /\ drawnLog = log
  BY DEF MailboxInit, Fetched, Has, LogFields
<1>2. /\ Has(opening, JobFields) /\ opening.kind = "load" /\ opening.at = "sent" /\ opening.passed = FALSE
      /\ opening.rows.filter = AllFilter
  <2>1. JustSent(opening, "load", AllFilter)
    BY FetchingIs DEF MailboxInit
  <2> QED BY <2>1 DEF JustSent
<1>3. opening.passed \in BOOLEAN
  BY DEF MailboxInit, Fetching
<1>4. Has(job, JobFields) /\ job.kind = "none"
  BY NoJobIs DEF MailboxInit
<1>5. revision = 0 /\ own = 0 /\ asked = 0 /\ written = 0
  BY DEF MailboxInit
<1>6. MailboxShape
  BY <1>1, <1>2, <1>3, <1>4, <1>5 DEF MailboxShape
<1>7. ~AskedFor
  BY <1>1 DEF AskedFor
<1> QED BY <1>1, <1>2, <1>4, <1>5, <1>6, <1>7 DEF MailboxInv

LEMMA MailboxNextInv ==
  ASSUME MailboxInv, [MailboxNext]_mailboxVars
  PROVE  MailboxInv'
<1> USE DEF MailboxInv
<1>0. /\ MailboxShape /\ Has(log, LogFields) /\ Has(drawnLog, LogFields)
      /\ Has(job, JobFields) /\ Has(opening, JobFields)
  BY DEF MailboxShape
<1>1. CASE MailboxRender
  BY <1>1 DEF MailboxRender, MailboxShape, AskedFor, Busy, Current, FirstLoad
<1>2. ASSUME NEW filter \in Filters, KeyRefresh(filter) PROVE MailboxInv'
  <2>1. Has(log', LogFields) /\ log'.filter = filter /\ log'.confirm = log.confirm
    BY <1>0, <1>2 DEF KeyRefresh, Has, LogFields
  <2>2. Run("load", filter)
    BY <1>2 DEF KeyRefresh
  <2>3. /\ Has(job', JobFields) /\ job'.kind = "load" /\ job'.at = "sent" /\ job'.rows.filter = filter
        /\ Has(opening', JobFields) /\ opening'.kind = opening.kind /\ opening'.passed \in BOOLEAN
        /\ opening.kind = "load" => opening'.passed = TRUE
    BY <1>0, <2>2, RunIs
  <2> QED BY <1>0, <1>2, <2>1, <2>2, <2>3
          DEF KeyRefresh, LogKeeps, OnLog, Idle, MailboxShape, AskedFor, Busy, FirstLoad
<1>3. CASE KeyPreview
  <2>1. /\ Has(log', LogFields) /\ log'.filter = log.filter /\ log'.confirm = log.confirm
        /\ log'.rows = log.rows /\ log'.error = log.error /\ log'.late = log.late
    BY <1>0, <1>3 DEF KeyPreview, Has, LogFields
  <2>2. Run("preview", drawnLog.filter)
    BY <1>3 DEF KeyPreview
  <2>3. /\ Has(job', JobFields) /\ job'.kind = "preview" /\ job'.at = "sent" /\ job'.rows.filter = drawnLog.filter
        /\ Has(opening', JobFields) /\ opening'.kind = opening.kind /\ opening'.passed \in BOOLEAN
        /\ opening.kind = "load" => opening'.passed = TRUE
    BY <1>0, <2>2, RunIs
  <2> QED BY <1>0, <1>3, <2>1, <2>2, <2>3
          DEF KeyPreview, LogKeeps, OnLog, Idle, MailboxShape, AskedFor, Busy, Current, FirstLoad
<1>4. CASE KeyClosePanel
  <2>1. /\ Has(log', LogFields) /\ log'.filter = log.filter /\ log'.confirm = log.confirm
        /\ log'.rows = log.rows /\ log'.error = log.error /\ log'.late = log.late
    BY <1>0, <1>4 DEF KeyClosePanel, Has, LogFields
  <2> QED BY <1>4, <2>1
          DEF KeyClosePanel, LogKeeps, MailboxShape, AskedFor, Busy, Current, FirstLoad
<1>5. ASSUME NEW kind \in {"undo", "reconcile"}, KeyAsk(kind) PROVE MailboxInv'
  <2>1. /\ Has(log', LogFields) /\ log'.filter = log.filter /\ log'.confirm = kind
        /\ log'.rows = log.rows /\ log'.error = log.error /\ log'.late = log.late
    BY <1>0, <1>5 DEF KeyAsk, Has, LogFields
  <2> QED BY <1>5, <2>1
          DEF KeyAsk, LogKeeps, MailboxShape, AskedFor, Busy, Current, FirstLoad
<1>6. CASE KeyRun
  <2>1. Has(log', LogFields) /\ log'.filter = log.filter /\ log'.confirm = "none"
    BY <1>0, <1>6 DEF KeyRun, Has, LogFields
  <2>2. Run(drawnLog.confirm, drawnLog.filter) /\ drawnLog.confirm # "none"
    BY <1>6 DEF KeyRun
  <2>3. /\ Has(job', JobFields) /\ job'.kind = drawnLog.confirm /\ job'.at = "sent" /\ job'.rows.filter = drawnLog.filter
        /\ Has(opening', JobFields) /\ opening'.kind = opening.kind /\ opening'.passed \in BOOLEAN
        /\ opening.kind = "load" => opening'.passed = TRUE
    BY <1>0, <2>2, RunIs
  <2> QED BY <1>0, <1>6, <2>1, <2>2, <2>3
          DEF KeyRun, LogKeeps, MailboxShape, AskedFor, Busy, FirstLoad
<1>7. CASE KeyDecline
  <2>1. /\ Has(log', LogFields) /\ log'.filter = log.filter /\ log'.confirm = "none"
        /\ log'.rows = log.rows /\ log'.error = log.error /\ log'.late = log.late
    BY <1>0, <1>7 DEF KeyDecline, Has, LogFields
  <2> QED BY <1>7, <2>1
          DEF KeyDecline, LogKeeps, MailboxShape, AskedFor, Busy, Current, FirstLoad
<1>8. CASE WriteRuns
  <2>1. Has(job', JobFields) /\ job'.kind = job.kind /\ job.kind \in {"undo", "reconcile"}
    BY <1>0, <1>8 DEF WriteRuns, Has, JobFields
  <2> QED BY <1>8, <2>1
          DEF WriteRuns, ServerSide, MailboxShape, AskedFor, Busy, FirstLoad
<1>9. CASE OtherWrite
  BY <1>9 DEF OtherWrite, ServerSide, MailboxShape, AskedFor, Busy, Current, FirstLoad
<1>10. CASE JobReads
  <2>1. /\ Has(job', JobFields) /\ job'.kind = "load" /\ job'.rows.filter = job.rows.filter
        /\ job'.rows.at = revision
    BY <1>0, <1>10, ReadIs DEF JobReads
  <2> QED BY <1>10, <2>1
          DEF JobReads, ServerSide, MailboxShape, AskedFor, Busy, FirstLoad
<1>11. CASE OpeningReads
  <2>1. /\ Has(opening', JobFields) /\ opening'.kind = "load" /\ opening'.passed = opening.passed
        /\ opening'.rows.filter = opening.rows.filter /\ opening'.rows.at = revision
    BY <1>0, <1>11, ReadIs DEF OpeningReads
  <2> QED BY <1>11, <2>1
          DEF OpeningReads, ServerSide, MailboxShape, AskedFor, Busy, Current, FirstLoad
<1>12. CASE WriteAnswered
  <2>1. PICK answered \in BOOLEAN : log' = [log EXCEPT !.panel = answered /\ job.kind = "reconcile",
                                                       !.busy = job'.kind # "none"]
    BY <1>12 DEF WriteAnswered
  <2>2. Has(log', LogFields) /\ log'.filter = log.filter /\ log'.confirm = log.confirm
    BY <1>0, <2>1 DEF Has, LogFields
  <2>3. job' = Fetching("load", log.filter) /\ job.kind # "none"
    BY <1>12 DEF WriteAnswered, Loaded
  <2>4. Has(job', JobFields) /\ job'.kind = "load" /\ job'.at = "sent" /\ job'.rows.filter = log.filter
    <3>1. JustSent(job', "load", log.filter)
      BY <2>3, FetchingIs
    <3> QED BY <3>1 DEF JustSent
  <2> QED BY <1>12, <2>2, <2>3, <2>4
          DEF WriteAnswered, Answers, MailboxShape, AskedFor, Busy, FirstLoad
<1>13. CASE PreviewAnswered
  <2>1. PICK answered \in BOOLEAN : log' = [log EXCEPT !.panel = answered, !.busy = FALSE]
    BY <1>13 DEF PreviewAnswered
  <2>2. /\ Has(log', LogFields) /\ log'.filter = log.filter /\ log'.confirm = log.confirm
        /\ log'.rows = log.rows /\ log'.error = log.error /\ log'.late = log.late
    BY <1>0, <2>1 DEF Has, LogFields
  <2> QED BY <1>13, <2>2, NoJobIs
          DEF PreviewAnswered, Answers, MailboxShape, AskedFor, Busy, Current, FirstLoad
<1>14. CASE RefreshAnswered
  <2>1. CASE job.at = "read"
    <3>1. log' = [log EXCEPT !.rows = job.rows, !.late = FALSE, !.error = FALSE, !.busy = FALSE]
      BY <1>14, <2>1 DEF RefreshAnswered
    <3>2. /\ Has(log', LogFields) /\ log'.filter = log.filter /\ log'.confirm = log.confirm
          /\ log'.rows = job.rows
      BY <1>0, <3>1 DEF Has, LogFields
    <3> QED BY <1>14, <2>1, <3>2, NoJobIs
            DEF RefreshAnswered, Answers, MailboxShape, AskedFor, Busy, Current, FirstLoad
  <2>2. CASE job.at # "read"
    <3>1. log' = [log EXCEPT !.error = TRUE, !.busy = FALSE]
      BY <1>14, <2>2 DEF RefreshAnswered
    <3>2. /\ Has(log', LogFields) /\ log'.filter = log.filter /\ log'.confirm = log.confirm
          /\ log'.error = TRUE
      BY <1>0, <3>1 DEF Has, LogFields
    <3> QED BY <1>14, <3>2, NoJobIs
            DEF RefreshAnswered, Answers, MailboxShape, AskedFor, Busy, FirstLoad
  <2> QED BY <2>1, <2>2
<1>15. CASE OpeningAnswered
  <2>1. CASE opening.at = "read"
    <3>1. log' = [log EXCEPT !.rows = opening.rows, !.late = opening.passed, !.error = FALSE]
      BY <1>15, <2>1 DEF OpeningAnswered
    <3>2. /\ Has(log', LogFields) /\ log'.filter = log.filter /\ log'.confirm = log.confirm
          /\ log'.rows = opening.rows /\ log'.late = opening.passed
      BY <1>0, <3>1 DEF Has, LogFields
    <3>3. log'.late \/ (FirstLoad /\ log'.rows = opening.rows)
      BY <1>0, <1>15, <3>2 DEF MailboxShape, FirstLoad, OpeningAnswered
    <3>4. ~FirstLoad' /\ job' = job /\ opening' = NoJob
      BY <1>15, NoJobIs DEF OpeningAnswered, FirstLoad
    <3>5. ~log'.late => Current(log.rows)' \/ log'.rows.filter = NoLog
      BY <1>15, <2>1, <3>2, <3>3 DEF OpeningAnswered, Answers, MailboxShape, Current, FirstLoad
    <3> QED BY <1>15, <3>2, <3>4, <3>5, NoJobIs
            DEF OpeningAnswered, Answers, MailboxShape, AskedFor, Busy, Current
  <2>2. CASE opening.at # "read"
    <3>1. log' = [log EXCEPT !.error = TRUE]
      BY <1>15, <2>2 DEF OpeningAnswered
    <3>2. /\ Has(log', LogFields) /\ log'.filter = log.filter /\ log'.confirm = log.confirm
          /\ log'.error = TRUE
      BY <1>0, <3>1 DEF Has, LogFields
    <3> QED BY <1>15, <3>2, NoJobIs
            DEF OpeningAnswered, Answers, MailboxShape, AskedFor, Busy, FirstLoad
  <2> QED BY <2>1, <2>2
<1>16. CASE UNCHANGED mailboxVars
  BY <1>16 DEF mailboxVars, MailboxShape, AskedFor, Busy, Current, FirstLoad
<1> QED BY <1>1, <1>2, <1>3, <1>4, <1>5, <1>6, <1>7, <1>8, <1>9, <1>10, <1>11, <1>12, <1>13, <1>14,
           <1>15, <1>16 DEF MailboxNext

LEMMA MailboxHolds ==
  ASSUME MailboxInv
  PROVE  RowsAreCurrent /\ OneWritePerConfirm
BY NoJobIs DEF MailboxInv, RowsAreCurrent, OneWritePerConfirm, Resting, Current

----------------------------------------------------------------------------
(* TuiQueue.                                                               *)

LEMMA RemoveAtIs ==
  ASSUME NEW S, NEW s \in Seq(S), NEW i \in 1..Len(s)
  PROVE  /\ RemoveAt(s, i) \in Seq(S) /\ Len(RemoveAt(s, i)) = Len(s) - 1
         /\ \A j \in 1..(Len(s) - 1) : RemoveAt(s, i)[j] = IF j < i THEN s[j] ELSE s[j + 1]
<1>1. PICK n \in Nat : n = Len(s) /\ i \in 1..n
  OBVIOUS
<1>2. PICK a, b : a = SubSeq(s, 1, i - 1) /\ b = SubSeq(s, i + 1, Len(s))
  OBVIOUS
<1>3. a \in Seq(S) /\ Len(a) = i - 1 /\ \A j \in 1..(i - 1) : a[j] = s[j]
  BY <1>1, <1>2, SubSeqProperties
<1>4. b \in Seq(S) /\ Len(b) = n - i /\ \A j \in 1..(n - i) : b[j] = s[i + j]
  BY <1>1, <1>2, SubSeqProperties
<1>5. a \o b \in Seq(S) /\ Len(a \o b) = n - 1
  <2>1. a \o b \in Seq(S) /\ Len(a \o b) = Len(a) + Len(b)
    BY <1>3, <1>4, ConcatProperties
  <2> QED BY <1>1, <1>3, <1>4, <2>1
<1>6. ASSUME NEW j \in 1..(n - 1) PROVE (a \o b)[j] = IF j < i THEN s[j] ELSE s[j + 1]
  <2>1. CASE j < i
    BY <1>1, <1>3, <1>4, <2>1
  <2>2. CASE ~(j < i)
    <3>1. (a \o b)[j] = b[j - (i - 1)] /\ j - (i - 1) \in 1..(n - i)
      BY <1>1, <1>3, <1>4, <2>2
    <3>2. b[j - (i - 1)] = s[i + (j - (i - 1))] /\ i + (j - (i - 1)) = j + 1
      BY <1>1, <1>4, <3>1
    <3> QED BY <1>1, <2>2, <3>1, <3>2
  <2> QED BY <2>1, <2>2
<1> QED BY <1>1, <1>2, <1>5, <1>6 DEF RemoveAt

QueueFields == {"mode", "tab", "loading", "busy", "items", "empty", "launched"}
Tabs == [view : {"review", "actionable"}, all : BOOLEAN]
LoadRecs == [tab : Tabs, by : {"effect", "reload", "next", "refresh", "acted"}, live : BOOLEAN]
ActRecs == [tab : Tabs, detail : BOOLEAN, gone : BOOLEAN]

QueueShape ==
    /\ Has(queue, QueueFields) /\ queue.tab \in Tabs /\ queue.loading \in BOOLEAN
    /\ drawnQueue.tab \in Tabs
    /\ loads \in Seq(LoadRecs) /\ acts \in Seq(ActRecs)
    /\ tangled \in BOOLEAN

\* A load that replaces the items, or else ends in the error screen.
Durable(load) == load.by # "next" /\ (load.by = "effect" => load.live)

\* From one such load on, all in flight are for the tab in the title; or all
\* are, and so are the items.
OfTab(j) == \A i \in 1..Len(loads) : i >= j => loads[i].tab = queue.tab
ItemsComing ==
    ~tangled /\ queue.mode # "error" =>
        \/ \E j \in 1..Len(loads) : Durable(loads[j]) /\ OfTab(j)
        \/ queue.items \in {Unloaded, queue.tab} /\ OfTab(1)
LoadingComes == queue.loading => \E i \in 1..Len(loads) : Clears(loads[i])

QueueInv == QueueShape /\ ItemsComing /\ LoadingComes

\* The loads in flight, some cancelled, but none that matters for the list.
AsGood(flying) ==
    /\ flying \in Seq(LoadRecs) /\ Len(flying) = Len(loads)
    /\ \A i \in 1..Len(loads) : /\ flying[i].tab = loads[i].tab
                                /\ Clears(loads[i]) => Clears(flying[i])
                                /\ Durable(loads[i]) => Durable(flying[i])

LEMMA CancelledIs ==
  ASSUME QueueShape, NEW by
  PROVE  /\ Cancelled(by) \in Seq(LoadRecs) /\ Len(Cancelled(by)) = Len(loads)
         /\ \A i \in 1..Len(loads) :
              /\ Cancelled(by)[i].tab = loads[i].tab /\ Cancelled(by)[i].by = loads[i].by
              /\ loads[i].by # by => Cancelled(by)[i] = loads[i]
<1>1. PICK n \in Nat : n = Len(loads) /\ DOMAIN loads = 1..n
  BY DEF QueueShape
<1>2. PICK c : c = Cancelled(by)
  OBVIOUS
<1>3. c = [i \in 1..n |-> [loads[i] EXCEPT !.live = loads[i].live /\ loads[i].by # by]]
  BY <1>1, <1>2 DEF Cancelled
<1>4. ASSUME NEW i \in 1..n
      PROVE  /\ c[i] \in LoadRecs /\ c[i].tab = loads[i].tab /\ c[i].by = loads[i].by
             /\ loads[i].by # by => c[i] = loads[i]
  <2>1. loads[i] \in LoadRecs
    BY <1>1 DEF QueueShape
  <2>2. PICK live \in BOOLEAN : live = (loads[i].live /\ loads[i].by # by)
    OBVIOUS
  <2>3. c[i] = [loads[i] EXCEPT !.live = live]
    BY <1>3, <2>2
  <2>4. c[i] \in LoadRecs /\ c[i].tab = loads[i].tab /\ c[i].by = loads[i].by /\ c[i].live = live
    BY <2>1, <2>3 DEF LoadRecs
  <2>5. ASSUME loads[i].by # by PROVE c[i] = loads[i]
    <3>1. live = loads[i].live
      BY <2>1, <2>2, <2>5 DEF LoadRecs
    <3> QED BY <2>1, <2>3, <3>1 DEF LoadRecs
  <2> QED BY <2>4, <2>5
<1>5. c \in Seq(LoadRecs) /\ Len(c) = n
  <2>1. c \in [1..n -> LoadRecs]
    BY <1>3, <1>4
  <2> QED BY <2>1
<1> QED BY <1>1, <1>2, <1>4, <1>5

LEMMA CancelledAsGood ==
  ASSUME QueueShape
  PROVE  AsGood(loads) /\ AsGood(Cancelled("next"))
<1>1. AsGood(loads)
  BY DEF QueueShape, AsGood
<1>2. PICK c : c = Cancelled("next")
  OBVIOUS
<1>3. /\ c \in Seq(LoadRecs) /\ Len(c) = Len(loads)
      /\ \A i \in 1..Len(loads) : c[i].tab = loads[i].tab /\ (loads[i].by # "next" => c[i] = loads[i])
  BY <1>2, CancelledIs
<1>4. \A i \in 1..Len(loads) : Clears(loads[i]) \/ Durable(loads[i]) => loads[i].by # "next"
  BY DEF Clears, Durable
<1>5. AsGood(c)
  BY <1>3, <1>4 DEF AsGood
<1> QED BY <1>1, <1>2, <1>5

\* Where the tab stays, a load more does no harm.
LEMMA SentKeeps ==
  ASSUME QueueInv, NEW flying, AsGood(flying),
         SendsNone(flying) \/ \E load \in LoadRecs :
            Sends(flying, load) /\ (queue'.loading => queue.loading \/ load.by = "reload"),
         SendsNone(flying) => (queue'.loading => queue.loading),
         queue'.tab = queue.tab, queue'.items = queue.items,
         queue.mode = "error" => queue'.mode = "error"
  PROVE  ItemsComing' /\ LoadingComes' /\ loads' \in Seq(LoadRecs) /\ tangled' \in BOOLEAN
<1>1. PICK n \in Nat : n = Len(loads)
  BY DEF QueueInv, QueueShape
<1>2. /\ flying \in Seq(LoadRecs) /\ Len(flying) = n
      /\ \A i \in 1..n : /\ flying[i].tab = loads[i].tab
                         /\ Clears(loads[i]) => Clears(flying[i])
                         /\ Durable(loads[i]) => Durable(flying[i])
  BY <1>1 DEF AsGood
<1>3. CASE SendsNone(flying)
  BY <1>1, <1>2, <1>3 DEF SendsNone, QueueInv, QueueShape, ItemsComing, LoadingComes, OfTab
<1>4. ASSUME NEW load \in LoadRecs, Sends(flying, load), queue'.loading => queue.loading \/ load.by = "reload"
      PROVE  ItemsComing' /\ LoadingComes' /\ loads' \in Seq(LoadRecs) /\ tangled' \in BOOLEAN
  <2>1. loads' = Append(flying, load) /\ tangled' = (tangled \/ load.tab # queue'.tab)
    BY <1>4 DEF Sends
  <2>2. /\ loads' \in Seq(LoadRecs) /\ Len(loads') = n + 1 /\ loads'[n + 1] = load
        /\ \A i \in 1..n : loads'[i] = flying[i]
    BY <1>2, <2>1, AppendProperties
  <2>3. LoadingComes'
    <3>1. CASE load.by = "reload"
      <4>1. Clears(loads'[n + 1]) /\ n + 1 \in 1..Len(loads')
        BY <2>2, <3>1 DEF Clears
      <4> QED BY <4>1 DEF LoadingComes, Clears
    <3>2. CASE queue'.loading => queue.loading
      BY <1>1, <1>2, <2>2, <3>2 DEF QueueInv, LoadingComes, Clears
    <3> QED BY <1>4, <3>1, <3>2
  <2>4. ItemsComing'
    <3> SUFFICES ASSUME ~tangled, queue.mode # "error", load.tab = queue.tab PROVE ItemsComing'
      BY <2>1 DEF ItemsComing
    <3>1. ASSUME NEW j \in 1..(n + 1), OfTab(j) PROVE OfTab(j)'
      <4>1. ASSUME NEW i \in 1..(n + 1), i >= j PROVE loads'[i].tab = queue.tab
        <5>1. CASE i = n + 1
          BY <2>2, <5>1
        <5>2. CASE i \in 1..n
          BY <1>1, <1>2, <2>2, <3>1, <4>1, <5>2 DEF OfTab
        <5> QED BY <5>1, <5>2
      <4> QED BY <2>2, <4>1 DEF OfTab
    <3>2. OfTab(1) => OfTab(1)'
      BY <3>1
    <3>3. CASE \E j \in 1..n : Durable(loads[j]) /\ OfTab(j)
      BY <1>1, <1>2, <2>2, <3>1, <3>3 DEF ItemsComing, Durable
    <3>4. CASE queue.items \in {Unloaded, queue.tab} /\ OfTab(1)
      BY <3>2, <3>4 DEF ItemsComing
    <3> QED BY <1>1, <3>3, <3>4 DEF QueueInv, ItemsComing
  <2> QED BY <2>1, <2>2, <2>3, <2>4
<1> QED BY <1>3, <1>4

\* A load for the new tab, at the end, brings its items.
LEMMA LastBrings ==
  ASSUME NEW flying, flying \in Seq(LoadRecs), NEW load \in LoadRecs, Sends(flying, load),
         QueueShape, Durable(load), Clears(load)
  PROVE  ItemsComing' /\ LoadingComes' /\ loads' \in Seq(LoadRecs) /\ tangled' \in BOOLEAN
<1>1. PICK n \in Nat : n = Len(flying)
  OBVIOUS
<1>2. loads' = Append(flying, load) /\ tangled' = (tangled \/ load.tab # queue'.tab)
  BY DEF Sends
<1>3. loads' \in Seq(LoadRecs) /\ Len(loads') = n + 1 /\ loads'[n + 1] = load
  BY <1>1, <1>2, AppendProperties
<1>4. n + 1 \in 1..Len(loads') /\ Clears(loads'[n + 1]) /\ Durable(loads'[n + 1])
  BY <1>3
<1>5. ASSUME ~tangled' PROVE OfTab(n + 1)'
  <2>1. loads'[n + 1].tab = queue'.tab
    BY <1>2, <1>3, <1>5
  <2>2. \A i \in 1..(n + 1) : i >= n + 1 => i = n + 1
    OBVIOUS
  <2>3. \A i \in 1..(n + 1) : i >= n + 1 => loads'[i].tab = queue'.tab
    BY <2>1, <2>2
  <2> QED BY <1>3, <2>3 DEF OfTab
<1>6. LoadingComes'
  BY <1>4 DEF LoadingComes, Clears
<1>7. ItemsComing'
  BY <1>4, <1>5 DEF ItemsComing, Durable
<1> QED BY <1>2, <1>3, <1>6, <1>7

LEMMA ShowingIs ==
  ASSUME NEW q, Has(q, QueueFields), NEW mode
  PROVE  /\ Has(Showing(q, mode), QueueFields) /\ Showing(q, mode).tab = q.tab
         /\ Showing(q, mode).items = q.items /\ Showing(q, mode).loading = q.loading
         /\ q.mode = "error" => Showing(q, mode).mode = "error"
BY DEF Showing, Has, QueueFields

\* Every other load is in flight still, and those that come after it.
OthersStay(i) ==
    \A j \in 1..Len(loads) : j # i =>
        \E k \in 1..Len(loads') : loads'[k] = loads[j] /\ (OfTab(j) => OfTab(k)')

\* Of the loads in flight one is over.
LEMMA LandedIs ==
  ASSUME QueueShape, NEW i \in 1..Len(loads), loads' = RemoveAt(loads, i), queue'.tab = queue.tab
  PROVE  /\ loads' \in Seq(LoadRecs) /\ Len(loads') = Len(loads) - 1
         /\ OthersStay(i) /\ (OfTab(1) => OfTab(1)')
<1>1. PICK n \in Nat : n = Len(loads) /\ i \in 1..n /\ loads \in Seq(LoadRecs)
  BY DEF QueueShape
<1>2. /\ loads' \in Seq(LoadRecs) /\ Len(loads') = n - 1
      /\ \A j \in 1..(n - 1) : loads'[j] = IF j < i THEN loads[j] ELSE loads[j + 1]
  BY <1>1, RemoveAtIs
<1>3. ASSUME NEW j \in 1..n, NEW k \in 1..n, k = j \/ k = j - 1, k = j - 1 => j > i, OfTab(j)
      PROVE  OfTab(k)'
  <2>1. ASSUME NEW x \in 1..(n - 1), x >= k PROVE loads'[x].tab = queue.tab
    <3>1. CASE x < i
      <4>1. x \in 1..n /\ x >= j
        BY <1>1, <1>3, <2>1, <3>1
      <4> QED BY <1>1, <1>2, <1>3, <3>1, <4>1 DEF OfTab
    <3>2. CASE ~(x < i)
      <4>1. x + 1 \in 1..n /\ x + 1 >= j
        BY <1>1, <1>3, <2>1, <3>2
      <4> QED BY <1>1, <1>2, <1>3, <3>2, <4>1 DEF OfTab
    <3> QED BY <3>1, <3>2
  <2> QED BY <1>2, <2>1 DEF OfTab
<1>4. ASSUME NEW j \in 1..n, j # i
      PROVE  \E k \in 1..Len(loads') : loads'[k] = loads[j] /\ (OfTab(j) => OfTab(k)')
  <2>1. CASE j < i
    <3>1. j \in 1..(n - 1) /\ loads'[j] = loads[j]
      BY <1>1, <1>2, <2>1
    <3> QED BY <1>2, <1>3, <3>1
  <2>2. CASE j > i
    <3>1. j - 1 \in 1..(n - 1) /\ ~(j - 1 < i) /\ j - 1 + 1 = j
      BY <1>1, <2>2
    <3>2. loads'[j - 1] = loads[j]
      BY <1>2, <3>1
    <3>3. OfTab(j) => OfTab(j - 1)'
      <4>1. j - 1 \in 1..n
        BY <3>1
      <4> QED BY <1>3, <2>2, <4>1
    <3> QED BY <1>2, <3>1, <3>2, <3>3
  <2> QED BY <1>1, <1>4, <2>1, <2>2
<1>5. OfTab(1) => OfTab(1)'
  <2>1. 1 \in 1..n
    BY <1>1
  <2> QED BY <1>3, <2>1
<1>6. OthersStay(i)
  BY <1>1, <1>4 DEF OthersStay
<1> QED BY <1>1, <1>2, <1>5, <1>6

LEMMA LandedLoading ==
  ASSUME QueueInv, NEW i \in 1..Len(loads), loads' = RemoveAt(loads, i), queue'.tab = queue.tab,
         queue'.loading => queue.loading /\ ~Clears(loads[i])
  PROVE  LoadingComes'
<1> SUFFICES ASSUME queue'.loading PROVE \E k \in 1..Len(loads') : Clears(loads'[k])
  BY DEF LoadingComes, Clears
<1>1. PICK j \in 1..Len(loads) : Clears(loads[j])
  BY DEF QueueInv, LoadingComes
<1>2. j # i
  BY <1>1
<1>3. OthersStay(i)
  BY LandedIs DEF QueueInv
<1>4. PICK k \in 1..Len(loads') : loads'[k] = loads[j]
  BY <1>2, <1>3 DEF OthersStay
<1> QED BY <1>1, <1>4

LEMMA AfterLoadIs ==
  ASSUME QueueShape, NEW load
  PROVE  /\ Has(AfterLoad(load), QueueFields) /\ AfterLoad(load).tab = queue.tab
         /\ AfterLoad(load).items = queue.items /\ AfterLoad(load).mode = queue.mode
         /\ AfterLoad(load).loading \in BOOLEAN
         /\ AfterLoad(load).loading => queue.loading /\ ~Clears(load)
<1>1. Has(queue, QueueFields)
  BY DEF QueueShape
<1>2. PICK loading \in BOOLEAN : loading = (queue.loading /\ ~Clears(load))
  OBVIOUS
<1>3. PICK b : b = (queue.busy /\ ~(load.by = "next" /\ load.live))
  OBVIOUS
<1>4. AfterLoad(load) = [queue EXCEPT !.loading = loading, !.busy = b]
  BY <1>2, <1>3 DEF AfterLoad
<1>5. /\ Has(AfterLoad(load), QueueFields) /\ AfterLoad(load).tab = queue.tab
      /\ AfterLoad(load).items = queue.items /\ AfterLoad(load).mode = queue.mode
      /\ AfterLoad(load).loading = loading
  BY <1>1, <1>4 DEF Has, QueueFields
<1> QED BY <1>2, <1>5

LEMMA LoadAnsweredKeeps ==
  ASSUME QueueInv, NEW i \in 1..Len(loads), LoadAnswered(i)
  PROVE  QueueInv'
<1>0. QueueShape /\ loads \in Seq(LoadRecs) /\ loads[i] \in LoadRecs
  BY DEF QueueInv, QueueShape
<1>1. PICK empty \in BOOLEAN, next \in {"detail", "done", "stay"} :
        LET q == [AfterLoad(loads[i]) EXCEPT !.items = loads[i].tab, !.empty = empty] IN
        /\ queue' = IF next = "stay" THEN q ELSE Showing(q, next)
        /\ acts' = IF queue'.mode = queue.mode THEN acts ELSE [j \in DOMAIN acts |-> [acts[j] EXCEPT !.gone = TRUE]]
  BY DEF LoadAnswered
<1>2. PICK p : p = AfterLoad(loads[i])
  OBVIOUS
<1>3. /\ Has(p, QueueFields) /\ p.tab = queue.tab /\ p.mode = queue.mode
      /\ p.loading \in BOOLEAN /\ (p.loading => queue.loading /\ ~Clears(loads[i]))
  BY <1>0, <1>2, AfterLoadIs
<1>4. PICK q : q = [p EXCEPT !.items = loads[i].tab, !.empty = empty]
  OBVIOUS
<1>5. /\ Has(q, QueueFields) /\ q.tab = queue.tab /\ q.mode = queue.mode /\ q.items = loads[i].tab
      /\ q.loading = p.loading
  BY <1>3, <1>4 DEF Has, QueueFields
<1>6. /\ Has(queue', QueueFields) /\ queue'.tab = queue.tab /\ queue'.items = loads[i].tab
      /\ queue'.loading = p.loading /\ (queue.mode = "error" => queue'.mode = "error")
  <2>1. CASE next = "stay"
    BY <1>1, <1>2, <1>4, <1>5, <2>1
  <2>2. CASE next # "stay"
    <3>1. queue' = Showing(q, next)
      BY <1>1, <1>2, <1>4, <2>2
    <3> QED BY <1>5, <3>1, ShowingIs
  <2> QED BY <2>1, <2>2
<1>7. acts' \in Seq(ActRecs)
  <2>1. PICK n \in Nat : n = Len(acts) /\ DOMAIN acts = 1..n /\ acts \in Seq(ActRecs)
    BY <1>0 DEF QueueShape
  <2>2. ASSUME NEW j \in 1..n PROVE [acts[j] EXCEPT !.gone = TRUE] \in ActRecs
    <3>1. acts[j] \in ActRecs
      BY <2>1
    <3> QED BY <3>1 DEF ActRecs
  <2>3. [j \in 1..n |-> [acts[j] EXCEPT !.gone = TRUE]] \in Seq(ActRecs)
    BY <2>2
  <2> QED BY <1>1, <2>1, <2>3
<1>8. /\ loads' = RemoveAt(loads, i) /\ drawnQueue' = drawnQueue
      /\ tangled' = (i # 1 \/ (tangled /\ (loads' # <<>> \/ loads[i].tab # queue.tab)))
  BY DEF LoadAnswered, Lands
<1>9. LoadingComes'
  BY <1>3, <1>6, <1>8, LandedLoading
<1>10. /\ loads' \in Seq(LoadRecs) /\ Len(loads') = Len(loads) - 1
       /\ OthersStay(i) /\ (OfTab(1) => OfTab(1)')
  BY <1>0, <1>6, <1>8, LandedIs
<1>11. ItemsComing'
  <2> SUFFICES ASSUME ~tangled', queue'.mode # "error" PROVE ItemsComing'
    BY DEF ItemsComing
  <2>1. i = 1 /\ queue.mode # "error"
    BY <1>6, <1>8
  <2>2. OfTab(1) => ItemsComing'
    <3>1. OfTab(1) => loads[i].tab = queue.tab
      BY <2>1 DEF OfTab
    <3> QED BY <1>6, <1>10, <3>1 DEF ItemsComing
  <2>3. CASE tangled
    <3>1. loads' = <<>> /\ loads[i].tab = queue.tab
      BY <1>8, <2>3
    <3>2. OfTab(1)'
      <4>1. Len(loads') = 0
        BY <3>1
      <4> QED BY <4>1 DEF OfTab
    <3> QED BY <1>6, <3>1, <3>2 DEF ItemsComing
  <2>4. ASSUME NEW j \in 1..Len(loads), Durable(loads[j]), OfTab(j), j # 1 PROVE ItemsComing'
    <3>1. PICK k \in 1..Len(loads') : loads'[k] = loads[j] /\ OfTab(k)'
      BY <1>10, <2>1, <2>4 DEF OthersStay
    <3> QED BY <2>4, <3>1 DEF ItemsComing, Durable
  <2> QED BY <2>1, <2>2, <2>3, <2>4 DEF QueueInv, ItemsComing
<1> QED BY <1>0, <1>3, <1>6, <1>7, <1>8, <1>9, <1>10, <1>11 DEF QueueInv, QueueShape

LEMMA LoadFailsKeeps ==
  ASSUME QueueInv, NEW i \in 1..Len(loads), LoadFails(i)
  PROVE  QueueInv'
<1>0. QueueShape
  BY DEF QueueInv
<1>1. PICK p : p = AfterLoad(loads[i])
  OBVIOUS
<1>2. /\ Has(p, QueueFields) /\ p.tab = queue.tab /\ p.mode = queue.mode /\ p.items = queue.items
      /\ p.loading \in BOOLEAN /\ (p.loading => queue.loading /\ ~Clears(loads[i]))
  BY <1>0, <1>1, AfterLoadIs
<1>3. /\ queue' = p \/ queue' = [p EXCEPT !.mode = "error"]
      /\ Durable(loads[i]) => queue' = [p EXCEPT !.mode = "error"]
  BY <1>1 DEF LoadFails, Durable
<1>4. /\ Has(queue', QueueFields) /\ queue'.tab = queue.tab /\ queue'.items = queue.items
      /\ queue'.loading = p.loading /\ (queue.mode = "error" => queue'.mode = "error")
      /\ Durable(loads[i]) => queue'.mode = "error"
  BY <1>2, <1>3 DEF Has, QueueFields
<1>5. loads' = RemoveAt(loads, i) /\ UNCHANGED <<drawnQueue, tangled, acts>>
  BY DEF LoadFails, Lands
<1>6. LoadingComes'
  BY <1>2, <1>4, <1>5, LandedLoading
<1>7. loads' \in Seq(LoadRecs) /\ OthersStay(i) /\ (OfTab(1) => OfTab(1)')
  BY <1>0, <1>4, <1>5, LandedIs
<1>8. ItemsComing'
  <2> SUFFICES ASSUME ~tangled, queue'.mode # "error" PROVE ItemsComing'
    BY <1>5 DEF ItemsComing
  <2>1. queue.mode # "error" /\ ~Durable(loads[i])
    BY <1>4
  <2>2. CASE queue.items \in {Unloaded, queue.tab} /\ OfTab(1)
    BY <1>4, <1>7, <2>2 DEF ItemsComing
  <2>3. ASSUME NEW j \in 1..Len(loads), Durable(loads[j]), OfTab(j) PROVE ItemsComing'
    <3>1. PICK k \in 1..Len(loads') : loads'[k] = loads[j] /\ OfTab(k)'
      BY <1>7, <2>1, <2>3 DEF OthersStay
    <3> QED BY <2>3, <3>1 DEF ItemsComing, Durable
  <2> QED BY <2>1, <2>2, <2>3 DEF QueueInv, ItemsComing
<1> QED BY <1>0, <1>2, <1>4, <1>5, <1>6, <1>7, <1>8 DEF QueueInv, QueueShape

LEMMA LoadIn ==
  ASSUME NEW tab \in Tabs, NEW by \in {"effect", "reload", "next", "refresh", "acted"}
  PROVE  /\ Load(tab, by) \in LoadRecs /\ Load(tab, by).by = by /\ Load(tab, by).tab = tab
         /\ (by # "next" => Durable(Load(tab, by)))
         /\ (by \in {"effect", "reload"} => Clears(Load(tab, by)))
BY DEF Load, LoadRecs, Durable, Clears

LEMMA QueueStarts ==
  ASSUME QueueInit
  PROVE  QueueInv
<1>1. PICK launched \in BOOLEAN :
        /\ queue = [mode |-> IF launched THEN "detail" ELSE "list", tab |-> FirstTab,
                    loading |-> ~launched, busy |-> FALSE,
                    items |-> Unloaded, empty |-> TRUE, launched |-> launched]
        /\ drawnQueue = Drawn(queue)
        /\ loads = IF launched THEN <<>> ELSE <<Load(FirstTab, "effect")>>
        /\ acts = <<>> /\ tangled = FALSE
  BY DEF QueueInit
<1>2. FirstTab \in Tabs
  BY DEF FirstTab, Tabs
<1>3. PICK load \in LoadRecs : load = Load(FirstTab, "effect") /\ load.tab = FirstTab /\ Clears(load)
  BY <1>2, LoadIn
<1>4. /\ Has(queue, QueueFields) /\ queue.tab = FirstTab /\ queue.loading \in BOOLEAN
      /\ queue.loading = ~launched /\ queue.items = Unloaded
  BY <1>1 DEF Has, QueueFields
<1>5. drawnQueue.tab = FirstTab
  BY <1>1, <1>4 DEF Drawn
<1>6. loads \in Seq(LoadRecs) /\ (launched => Len(loads) = 0)
      /\ (~launched => Len(loads) = 1 /\ loads[1] = load)
  BY <1>1, <1>3
<1>7. QueueShape
  <2>1. acts = <<>> /\ tangled = FALSE
    BY <1>1
  <2>2. acts \in Seq(ActRecs) /\ tangled \in BOOLEAN
    <3>1. acts \in Seq(ActRecs)
      BY <2>1
    <3>2. tangled \in BOOLEAN
      BY <2>1
    <3> QED BY <3>1, <3>2
  <2>3. Has(queue, QueueFields) /\ queue.loading \in BOOLEAN
    BY <1>4
  <2> QED BY <1>2, <1>4, <1>5, <1>6, <2>2, <2>3 DEF QueueShape
<1>8. OfTab(1)
  BY <1>3, <1>4, <1>6 DEF OfTab
<1>9. ItemsComing
  BY <1>4, <1>8 DEF ItemsComing
<1>10. LoadingComes
  <2>1. launched => ~queue.loading
    BY <1>4
  <2>2. ~launched => 1 \in 1..Len(loads) /\ Clears(loads[1])
    BY <1>3, <1>6
  <2> QED BY <2>1, <2>2 DEF LoadingComes
<1> QED BY <1>7, <1>9, <1>10 DEF QueueInv

LEMMA QueueRenderKeeps ==
  ASSUME QueueInv, QueueRender
  PROVE  QueueInv'
<1>0. QueueShape
  BY DEF QueueInv
<1>1. queue' = queue /\ acts' = acts /\ drawnQueue' = Drawn(queue)
  BY DEF QueueRender
<1>2. drawnQueue'.tab = queue.tab
  BY <1>1 DEF Drawn
<1>3. ItemsComing' /\ LoadingComes' /\ loads' \in Seq(LoadRecs) /\ tangled' \in BOOLEAN
  <2>1. CASE EffectRuns
    <3>1. Sends(Cancelled("effect"), Load(queue.tab, "effect"))
      BY <2>1 DEF QueueRender
    <3>2. Load(queue.tab, "effect") \in LoadRecs /\ Durable(Load(queue.tab, "effect")) /\ Clears(Load(queue.tab, "effect"))
      BY <1>0, LoadIn DEF QueueShape
    <3>3. Cancelled("effect") \in Seq(LoadRecs)
      BY <1>0, CancelledIs
    <3> QED BY <1>0, <3>1, <3>2, <3>3, LastBrings
  <2>2. CASE ~EffectRuns
    <3>1. SendsNone(loads)
      BY <2>2 DEF QueueRender
    <3> QED BY <1>0, <1>1, <3>1, CancelledAsGood, SentKeeps
  <2> QED BY <2>1, <2>2
<1> QED BY <1>0, <1>1, <1>2, <1>3 DEF QueueInv, QueueShape

LEMMA KeySwitchKeeps ==
  ASSUME QueueInv, NEW key \in {"t", "w"}, KeySwitch(key)
  PROVE  QueueInv'
<1>0. QueueShape
  BY DEF QueueInv
<1>1. ASSUME NEW tab \in Tabs PROVE Switched(tab, key) \in Tabs
  <2>1. drawnQueue.tab \in Tabs
    BY <1>0 DEF QueueShape
  <2>2. PICK view \in {"review", "actionable"}, all \in BOOLEAN :
          /\ view = IF drawnQueue.tab.view = "review" THEN "actionable" ELSE "review"
          /\ all = ~drawnQueue.tab.all
    OBVIOUS
  <2>3. Switched(tab, key) = IF key = "t" THEN [tab EXCEPT !.view = view] ELSE [tab EXCEPT !.all = all]
    BY <2>2 DEF Switched
  <2> QED BY <2>3 DEF Tabs
<1>2. PICK tab \in Tabs : tab = Switched(queue.tab, key)
  BY <1>0, <1>1 DEF QueueShape
<1>3. queue' = [queue EXCEPT !.tab = tab, !.loading = TRUE] /\ UNCHANGED <<drawnQueue, acts>>
  BY <1>2 DEF KeySwitch
<1>4. Has(queue', QueueFields) /\ queue'.tab = tab /\ queue'.loading = TRUE
  BY <1>0, <1>3 DEF QueueShape, Has, QueueFields
<1>5. PICK load \in LoadRecs : Durable(load) /\ Clears(load) /\ load = Load(Switched(drawnQueue.tab, key), "reload")
  BY <1>0, <1>1, LoadIn DEF QueueShape
<1>6. Sends(loads, load)
  BY <1>5 DEF KeySwitch, ReloadTab
<1>7. ItemsComing' /\ LoadingComes' /\ loads' \in Seq(LoadRecs) /\ tangled' \in BOOLEAN
  <2>1. loads \in Seq(LoadRecs)
    BY <1>0 DEF QueueShape
  <2> QED BY <1>0, <1>5, <1>6, <2>1, LastBrings
<1> QED BY <1>0, <1>2, <1>3, <1>4, <1>7 DEF QueueInv, QueueShape

LEMMA LeavesIs ==
  ASSUME QueueShape, Leaves
  PROVE  acts' \in Seq(ActRecs)
<1>1. PICK n \in Nat : n = Len(acts) /\ DOMAIN acts = 1..n /\ acts \in Seq(ActRecs)
  BY DEF QueueShape
<1>2. ASSUME NEW j \in 1..n PROVE [acts[j] EXCEPT !.gone = TRUE] \in ActRecs
  <2>1. acts[j] \in ActRecs
    BY <1>1
  <2> QED BY <2>1 DEF ActRecs
<1> QED BY <1>1, <1>2 DEF Leaves

LEMMA KeyOpenKeeps ==
  ASSUME QueueInv, KeyOpen
  PROVE  QueueInv'
<1>0. QueueShape
  BY DEF QueueInv
<1>1. \E mode : queue' = Showing(queue, mode)
  BY DEF KeyOpen
<1>2. /\ Has(queue', QueueFields) /\ queue'.tab = queue.tab /\ queue'.items = queue.items
      /\ queue'.loading = queue.loading /\ (queue.mode = "error" => queue'.mode = "error")
  BY <1>0, <1>1, ShowingIs DEF QueueShape
<1>3. acts' \in Seq(ActRecs) /\ drawnQueue' = drawnQueue /\ SendsNone(Cancelled("next"))
  BY <1>0, LeavesIs DEF KeyOpen
<1>4. ItemsComing' /\ LoadingComes' /\ loads' \in Seq(LoadRecs) /\ tangled' \in BOOLEAN
  <2>1. AsGood(Cancelled("next"))
    BY <1>0, CancelledAsGood
  <2> QED BY <1>2, <1>3, <2>1, SentKeeps
<1> QED BY <1>0, <1>2, <1>3, <1>4 DEF QueueInv, QueueShape

LEMMA KeyBackToListKeeps ==
  ASSUME QueueInv, KeyBackToList
  PROVE  QueueInv'
<1>0. QueueShape
  BY DEF QueueInv
<1>1. PICK q : q = Showing(queue, "list")
  OBVIOUS
<1>2. /\ Has(q, QueueFields) /\ q.tab = queue.tab /\ q.items = queue.items
      /\ q.loading = queue.loading /\ (queue.mode = "error" => q.mode = "error")
  BY <1>0, <1>1, ShowingIs DEF QueueShape
<1>3. acts' \in Seq(ActRecs) /\ drawnQueue' = drawnQueue
  BY <1>0, LeavesIs DEF KeyBackToList
<1>4. AsGood(Cancelled("next"))
  BY <1>0, CancelledAsGood
<1>5. CASE drawnQueue.empty
  <2>1. queue' = [q EXCEPT !.loading = TRUE] /\ Sends(Cancelled("next"), Load(drawnQueue.tab, "reload"))
    BY <1>1, <1>5 DEF KeyBackToList
  <2>2. /\ Has(queue', QueueFields) /\ queue'.tab = queue.tab /\ queue'.items = queue.items
        /\ queue'.loading = TRUE /\ (queue.mode = "error" => queue'.mode = "error")
    BY <1>2, <2>1 DEF Has, QueueFields
  <2>3. PICK load \in LoadRecs : load.by = "reload" /\ load = Load(drawnQueue.tab, "reload")
    BY <1>0, LoadIn DEF QueueShape
  <2>4. Sends(Cancelled("next"), load) /\ (queue'.loading => queue.loading \/ load.by = "reload")
    BY <2>1, <2>3
  <2>5. ItemsComing' /\ LoadingComes' /\ loads' \in Seq(LoadRecs) /\ tangled' \in BOOLEAN
    <3>1. SendsNone(Cancelled("next")) => (queue'.loading => queue.loading)
      <4>1. Len(loads') # Len(Cancelled("next"))
        <5>1. PICK c \in Seq(LoadRecs) : c = Cancelled("next")
          BY <1>4 DEF AsGood
        <5>2. loads' = Append(c, load)
          BY <2>4, <5>1 DEF Sends
        <5> QED BY <5>1, <5>2, AppendProperties
      <4> QED BY <4>1 DEF SendsNone
    <3> QED BY <1>4, <2>2, <2>4, <3>1, SentKeeps
  <2> QED BY <1>0, <1>3, <2>2, <2>5 DEF QueueInv, QueueShape
<1>6. CASE ~drawnQueue.empty
  <2>1. queue' = q /\ SendsNone(Cancelled("next"))
    BY <1>1, <1>6 DEF KeyBackToList
  <2>2. ItemsComing' /\ LoadingComes' /\ loads' \in Seq(LoadRecs) /\ tangled' \in BOOLEAN
    BY <1>2, <1>4, <2>1, SentKeeps
  <2> QED BY <1>0, <1>2, <1>3, <2>1, <2>2 DEF QueueInv, QueueShape
<1> QED BY <1>5, <1>6

\* What leaves the tab, the items and Loading alone.
LEMMA SendsMore ==
  ASSUME QueueInv, NEW b, queue' = [queue EXCEPT !.busy = b],
         SendsNone(loads) \/ \E load \in LoadRecs : Sends(loads, load),
         drawnQueue' = drawnQueue, acts' \in Seq(ActRecs)
  PROVE  QueueInv'
<1>0. QueueShape
  BY DEF QueueInv
<1>1. /\ Has(queue', QueueFields) /\ queue'.tab = queue.tab /\ queue'.items = queue.items
      /\ queue'.loading = queue.loading /\ queue'.mode = queue.mode
  BY <1>0 DEF QueueShape, Has, QueueFields
<1>2. ItemsComing' /\ LoadingComes' /\ loads' \in Seq(LoadRecs) /\ tangled' \in BOOLEAN
  BY <1>0, <1>1, CancelledAsGood, SentKeeps
<1> QED BY <1>0, <1>1, <1>2 DEF QueueInv, QueueShape

LEMMA KeyActKeeps ==
  ASSUME QueueInv, KeyAct
  PROVE  QueueInv'
<1>0. QueueShape
  BY DEF QueueInv
<1>1. PICK act : act = [tab |-> drawnQueue.tab, detail |-> drawnQueue.mode = "detail", gone |-> queue.mode # drawnQueue.mode]
  OBVIOUS
<1>2. act \in ActRecs
  <2>1. (drawnQueue.mode = "detail") \in BOOLEAN /\ (queue.mode # drawnQueue.mode) \in BOOLEAN
    OBVIOUS
  <2> QED BY <1>0, <1>1, <2>1 DEF ActRecs, QueueShape
<1>3. acts' = Append(acts, act) /\ SendsNone(loads) /\ drawnQueue' = drawnQueue
  BY <1>1 DEF KeyAct
<1>4. acts' \in Seq(ActRecs)
  BY <1>0, <1>2, <1>3, AppendProperties DEF QueueShape
<1>5. \E b : queue' = [queue EXCEPT !.busy = b]
  BY DEF KeyAct
<1> QED BY <1>3, <1>4, <1>5, SendsMore

LEMMA KeyNextKeeps ==
  ASSUME QueueInv, KeyNext
  PROVE  QueueInv'
<1>1. Load(drawnQueue.tab, "next") \in LoadRecs /\ acts \in Seq(ActRecs)
  BY LoadIn DEF QueueInv, QueueShape
<1> QED BY <1>1, SendsMore DEF KeyNext

LEMMA ActAnsweredKeeps ==
  ASSUME QueueInv, NEW i \in 1..Len(acts), ActAnswered(i)
  PROVE  QueueInv'
<1>1. acts \in Seq(ActRecs) /\ acts[i] \in ActRecs
  BY DEF QueueInv, QueueShape
<1>2. acts' \in Seq(ActRecs)
  BY <1>1, RemoveAtIs DEF ActAnswered
<1>3. PICK by \in {"acted", "refresh"} : by = IF acts[i].detail THEN "acted" ELSE "refresh"
  OBVIOUS
<1>4. Load(acts[i].tab, by) \in LoadRecs
  BY <1>1, LoadIn DEF ActRecs
<1>5. SendsNone(loads) \/ \E load \in LoadRecs : Sends(loads, load)
  BY <1>3, <1>4 DEF ActAnswered
<1>6. \E b : queue' = [queue EXCEPT !.busy = b]
  BY DEF ActAnswered
<1> QED BY <1>2, <1>5, <1>6, SendsMore DEF ActAnswered

LEMMA QueueSteps ==
  ASSUME QueueInv, [QueueNext]_queueVars
  PROVE  QueueInv'
<1>1. CASE UNCHANGED queueVars
  BY <1>1 DEF queueVars, QueueInv, QueueShape, ItemsComing, LoadingComes, OfTab
<1>2. DOMAIN acts = 1..Len(acts) /\ DOMAIN loads = 1..Len(loads)
  BY DEF QueueInv, QueueShape
<1>3. CASE QueueNext
  BY <1>2, <1>3, QueueRenderKeeps, KeySwitchKeeps, KeyOpenKeeps, KeyBackToListKeeps, KeyActKeeps,
     KeyNextKeeps, ActAnsweredKeeps, LoadAnsweredKeeps, LoadFailsKeeps DEF QueueNext
<1> QED BY <1>1, <1>3

LEMMA QueueHolds ==
  ASSUME QueueInv
  PROVE  ItemsOfTab /\ LoadingEnds
<1>0. QueueShape /\ DOMAIN loads = 1..Len(loads)
  BY DEF QueueInv, QueueShape
<1>1. ItemsOfTab
  <2> SUFFICES ASSUME loads = <<>>, queue.items # Unloaded, queue.mode # "error", ~tangled
               PROVE  queue.items = queue.tab
    BY DEF ItemsOfTab
  <2>1. Len(loads) = 0
    OBVIOUS
  <2> QED BY <2>1 DEF QueueInv, ItemsComing
<1>2. LoadingEnds
  BY <1>0 DEF QueueInv, LoadingComes, LoadingEnds
<1> QED BY <1>1, <1>2

----------------------------------------------------------------------------
(* TuiEditRule.                                                            *)

Forms ==
    [pattern : Patterns, action : {"classify", "trash"}, category : Categories \cup {NoCategory},
     enabled : BOOLEAN]

EditTypes == server \in Rules \cup {Gone} /\ rule \in Rules \cup {Gone} /\ draft \in Forms

StepFields == {"kind", "patch", "warning", "preview", "dryRun"}

\* The confirm step is of the rule and the form as they are.
Confirms(step) ==
    step.kind = "confirm" =>
        /\ Has(step, StepFields) /\ rule \in Rules
        /\ step.patch = Patch(rule, draft)
        /\ step.warning = NeedsTrashWarning(rule, draft, step.patch)

CallFields == {"kind", "patch", "warned", "from", "at", "merged", "raced"}

\* A request is for what was confirmed, or for one field, and what update
\* has read is what is stored unless another client wrote.
CallFits(c) ==
    /\ Has(c, CallFields)
    /\ c.kind \in {"edit", "toggle", "delete"}
    /\ c.kind # "delete" => rule \in Rules /\ c.from = rule
    /\ c.kind = "edit" => /\ c.patch = Patch(rule, draft)
                          /\ c.warned = NeedsTrashWarning(rule, draft, c.patch)
    /\ c.kind = "toggle" => c.patch = [f \in {"enabled"} |-> ~rule.enabled]
    /\ c.at \in {"read", "written"} /\ c.kind # "delete" => c.merged \in Rules
    /\ c.at = "read" => c.kind # "delete" /\ (c.raced \/ c.merged = Merged(server, c.patch))

Waiting == {"saving", "toggling", "deleting"}
OneCall ==
    \/ calls = <<>> /\ busy = FALSE /\ shown.kind \notin Waiting
    \/ \E c : calls = <<c>> /\ CallFits(c) /\ busy = TRUE /\ shown.kind \in Waiting

FormOpen == shown.kind = "form" => rule \in Rules

EditInv == EditTypes /\ Confirms(shown) /\ Confirms(drawn) /\ FormOpen /\ OneCall

LEMMA StepIs ==
  ASSUME NEW kind, kind # "confirm"
  PROVE  Step(kind).kind = kind /\ Confirms(Step(kind)) /\ Confirms(Step(kind))'
BY DEF Step, Confirms

LEMMA PatchFits ==
  ASSUME NEW r \in Rules, NEW d \in Forms
  PROVE  /\ DOMAIN Patch(r, d) = {f \in Differing(r, d) : d[f] # NoCategory}
         /\ \A f \in DOMAIN Patch(r, d) : Patch(r, d)[f] = d[f]
         /\ \A base \in Rules : Merged(base, Patch(r, d)) \in Rules
<1>1. PICK patch : patch = Patch(r, d)
  OBVIOUS
<1>2. /\ DOMAIN patch = {f \in Differing(r, d) : d[f] # NoCategory}
      /\ \A f \in DOMAIN patch : patch[f] = d[f]
  BY <1>1 DEF Patch
<1>3. ASSUME NEW base \in Rules PROVE Merged(base, patch) \in Rules
  <2>1. PICK m : m = Merged(base, patch)
    OBVIOUS
  <2>2. m = [f \in Fields |-> IF f \in DOMAIN patch THEN patch[f] ELSE base[f]]
    BY <2>1 DEF Merged
  <2>3. m.pattern \in Patterns /\ m.action \in {"classify", "trash"} /\ m.enabled \in BOOLEAN
    BY <1>2, <2>2 DEF Fields, Rules, Forms
  <2>4. m.category \in Categories
    BY <1>2, <2>2 DEF Fields, Rules, Forms
  <2>5. m = [pattern |-> m.pattern, action |-> m.action, category |-> m.category, enabled |-> m.enabled]
    BY <2>2 DEF Fields
  <2> QED BY <2>1, <2>3, <2>4, <2>5 DEF Rules
<1> QED BY <1>1, <1>2, <1>3

LEMMA ToggleFits ==
  ASSUME NEW base \in Rules, NEW b \in BOOLEAN
  PROVE  Merged(base, [f \in {"enabled"} |-> b]) \in Rules
<1>1. PICK m : m = Merged(base, [f \in {"enabled"} |-> b])
  OBVIOUS
<1>2. m = [f \in Fields |-> IF f \in {"enabled"} THEN b ELSE base[f]]
  BY <1>1 DEF Merged
<1>3. m = [pattern |-> base.pattern, action |-> base.action, category |-> base.category, enabled |-> b]
  BY <1>2 DEF Fields
<1> QED BY <1>1, <1>3 DEF Rules

LEMMA EditStarts ==
  ASSUME EditInit
  PROVE  EditInv
<1>1. EditTypes
  BY DEF EditInit, EditTypes, Rules, Forms
<1>2. /\ Confirms(Step("list")) /\ Step("list").kind = "list"
  BY StepIs
<1> QED BY <1>1, <1>2 DEF EditInit, EditInv, OneCall, Waiting, FormOpen

\* Where no request is in flight and none leaves.
LEMMA ScreenMoves ==
  ASSUME EditInv, UNCHANGED <<server, rule, drawn, busy, calls>>, draft' \in Forms,
         draft' = draft \/ (shown'.kind # "confirm" /\ drawn.kind # "confirm"),
         shown.kind \notin Waiting, shown'.kind \notin Waiting, Confirms(shown)', FormOpen'
  PROVE  EditInv'
<1>1. Confirms(drawn)'
  BY DEF EditInv, Confirms
<1>2. OneCall'
  BY DEF EditInv, OneCall
<1>3. EditTypes'
  BY DEF EditInv, EditTypes
<1> QED BY <1>1, <1>2, <1>3 DEF EditInv

\* A request leaves.
LEMMA SendKeeps ==
  ASSUME EditInv, Free, NEW kind \in {"edit", "toggle", "delete"}, NEW patch, NEW warned,
         Send(kind, patch, warned), NEW step \in Waiting, Show(Step(step)),
         UNCHANGED <<server, rule, draft, drawn>>,
         kind = "edit" => rule \in Rules /\ patch = Patch(rule, draft) /\ warned = NeedsTrashWarning(rule, draft, patch),
         kind = "toggle" => rule \in Rules /\ patch = [f \in {"enabled"} |-> ~rule.enabled]
  PROVE  EditInv'
<1>1. PICK c : c = [kind |-> kind, patch |-> patch, warned |-> warned, from |-> rule,
                    at |-> "sent", merged |-> server, raced |-> FALSE]
  OBVIOUS
<1>2. calls' = <<c>> /\ busy' = TRUE
  <2>1. calls = <<>>
    BY DEF EditInv, OneCall, Free
  <2>2. calls' = Append(calls, c) /\ busy' = TRUE
    BY <1>1 DEF Send
  <2> QED BY <2>1, <2>2
<1>3. Has(c, CallFields)
  BY <1>1 DEF Has, CallFields
<1>4. CallFits(c)'
  BY <1>1, <1>3 DEF CallFits
<1>5. shown'.kind \in Waiting /\ Confirms(shown)'
  BY StepIs DEF Show, Waiting
<1>6. EditTypes' /\ Confirms(drawn)'
  BY DEF EditInv, EditTypes, Confirms
<1> QED BY <1>2, <1>4, <1>5, <1>6 DEF EditInv, OneCall, FormOpen, Waiting

LEMMA AnsweredIs ==
  ASSUME NEW c, calls = <<c>>, NEW i \in DOMAIN calls, Answered(i)
  PROVE  calls' = <<>>
<1>1. i = 1
  OBVIOUS
<1>2. calls \in Seq({c}) /\ Len(calls) = 1 /\ 1 \in 1..Len(calls)
  OBVIOUS
<1>3. calls' = RemoveAt(calls, 1)
  BY <1>1 DEF Answered
<1>4. RemoveAt(calls, 1) \in Seq({c}) /\ Len(RemoveAt(calls, 1)) = Len(calls) - 1
  BY <1>2, RemoveAtIs, Zenon
<1>5. calls' \in Seq({c}) /\ Len(calls') = 0
  BY <1>2, <1>3, <1>4
<1> QED BY <1>5

\* The answer of a request: the screen again, for the rule as it is then.
LEMMA AnswerKeeps ==
  ASSUME EditInv, NEW i \in DOMAIN calls, Answered(i), UNCHANGED draft,
         NEW step, step \notin Waiting \cup {"confirm"}, Show(Step(step)), rule' \in Rules \cup {Gone},
         step = "form" => rule' \in Rules
  PROVE  EditInv'
<1>1. PICK c : calls = <<c>> /\ shown.kind \in Waiting
  BY DEF EditInv, OneCall
<1>2. calls' = <<>>
  BY <1>1, AnsweredIs
<1>3. busy' = FALSE /\ server' = server /\ drawn' = drawn /\ drawn = shown
  BY DEF Answered
<1>4. shown'.kind = step /\ Confirms(shown)'
  BY StepIs DEF Show
<1>5. Confirms(drawn)'
  BY <1>1, <1>3 DEF Confirms, Waiting
<1>6. EditTypes'
  BY <1>3 DEF EditInv, EditTypes
<1>7. OneCall'
  BY <1>2, <1>3, <1>4 DEF OneCall
<1> QED BY <1>4, <1>5, <1>6, <1>7 DEF EditInv, FormOpen

\* The one request in flight is a step further, or the stored rule another.
LEMMA StoredMoves ==
  ASSUME EditInv, UNCHANGED <<rule, draft, shown, drawn, busy>>, server' \in Rules \cup {Gone},
         \/ calls = <<>> /\ calls' = <<>>
         \/ \E c, d : calls = <<c>> /\ calls' = <<d>> /\ (CallFits(c) => CallFits(d)')
  PROVE  EditInv'
<1>1. EditTypes' /\ Confirms(shown)' /\ Confirms(drawn)' /\ FormOpen'
  BY DEF EditInv, EditTypes, Confirms, FormOpen
<1>2. CASE calls = <<>> /\ calls' = <<>>
  <2>1. busy = FALSE /\ shown.kind \notin Waiting
    <3>1. \A c : calls # <<c>>
      BY <1>2
    <3> QED BY <3>1 DEF EditInv, OneCall
  <2> QED BY <1>1, <1>2, <2>1 DEF EditInv, OneCall
<1>3. ASSUME NEW c, NEW d, calls = <<c>>, calls' = <<d>>, CallFits(c) => CallFits(d)'
      PROVE  EditInv'
  <2>1. CallFits(c) /\ busy = TRUE /\ shown.kind \in Waiting
    <3>1. calls # <<>> /\ \A x : calls = <<x>> => x = c
      BY <1>3
    <3> QED BY <3>1 DEF EditInv, OneCall
  <2> QED BY <1>1, <1>3, <2>1 DEF EditInv, OneCall
<1> QED BY <1>2, <1>3

\* The one request there is.
LEMMA TheCall ==
  ASSUME EditInv, NEW i \in DOMAIN calls
  PROVE  i = 1 /\ \E c : calls = <<c>> /\ CallFits(c) /\ calls[1] = c /\ busy = TRUE /\ shown.kind \in Waiting
<1>1. calls # <<>>
  OBVIOUS
<1>2. PICK c : calls = <<c>> /\ CallFits(c) /\ busy = TRUE /\ shown.kind \in Waiting
  BY <1>1 DEF EditInv, OneCall
<1> QED BY <1>2

LEMMA UpdateReadKeeps ==
  ASSUME EditInv, NEW i \in DOMAIN calls, UpdateRead(i)
  PROVE  EditInv'
<1>1. PICK c : i = 1 /\ calls = <<c>> /\ CallFits(c) /\ calls[1] = c
  BY TheCall
<1>2. PICK d : d = [c EXCEPT !.at = "read", !.merged = Merged(server, c.patch)]
  OBVIOUS
<1>3. calls' = <<d>>
  BY <1>1, <1>2 DEF UpdateRead
<1>4. /\ Has(d, CallFields) /\ d.kind = c.kind /\ d.patch = c.patch /\ d.warned = c.warned
      /\ d.from = c.from /\ d.at = "read" /\ d.raced = c.raced /\ d.merged = Merged(server, c.patch)
  BY <1>1, <1>2 DEF CallFits, Has, CallFields
<1>5. d.merged \in Rules /\ c.kind # "delete"
  <2>1. c.kind \in {"edit", "toggle"} /\ rule \in Rules /\ server \in Rules /\ draft \in Forms
    BY <1>1 DEF UpdateRead, CallFits, EditInv, EditTypes
  <2>2. CASE c.kind = "edit"
    <3>1. c.patch = Patch(rule, draft)
      BY <1>1, <2>2 DEF CallFits
    <3>2. Merged(server, Patch(rule, draft)) \in Rules
      BY <2>1, PatchFits
    <3> QED BY <1>4, <2>1, <3>1, <3>2
  <2>3. CASE c.kind = "toggle"
    <3>1. c.patch = [f \in {"enabled"} |-> ~rule.enabled] /\ (~rule.enabled) \in BOOLEAN
      BY <1>1, <2>3 DEF CallFits
    <3> QED BY <1>4, <2>1, <3>1, ToggleFits
  <2> QED BY <2>1, <2>2, <2>3
<1>6. UNCHANGED <<server, rule, draft, shown, drawn, busy>>
  BY DEF UpdateRead
<1>7. CallFits(d)'
  BY <1>1, <1>4, <1>5, <1>6 DEF CallFits, Has
<1> QED BY <1>1, <1>3, <1>6, <1>7, StoredMoves DEF EditInv, EditTypes

LEMMA WrittenKeeps ==
  ASSUME EditInv, NEW i \in DOMAIN calls, UpdateWrite(i) \/ RemoveRuns(i)
  PROVE  EditInv'
<1>1. PICK c : i = 1 /\ calls = <<c>> /\ CallFits(c) /\ calls[1] = c
  BY TheCall
<1>2. PICK d : d = [c EXCEPT !.at = "written"]
  OBVIOUS
<1>3. calls' = <<d>>
  BY <1>1, <1>2 DEF UpdateWrite, RemoveRuns
<1>4. /\ Has(d, CallFields) /\ d.kind = c.kind /\ d.patch = c.patch /\ d.warned = c.warned
      /\ d.from = c.from /\ d.at = "written" /\ d.merged = c.merged
  BY <1>1, <1>2 DEF CallFits, Has, CallFields
<1>5. /\ c.at = "read" \/ c.kind = "delete"
      /\ server' \in Rules \cup {Gone}
  BY <1>1 DEF UpdateWrite, RemoveRuns, CallFits
<1>6. UNCHANGED <<rule, draft, shown, drawn, busy>>
  BY DEF UpdateWrite, RemoveRuns
<1>7. CallFits(d)'
  BY <1>1, <1>4, <1>5, <1>6 DEF CallFits, Has
<1> QED BY <1>1, <1>3, <1>5, <1>6, <1>7, StoredMoves

LEMMA OtherWritesKeeps ==
  ASSUME EditInv, OtherWrites
  PROVE  EditInv'
<1>1. server' \in Rules \cup {Gone} /\ UNCHANGED <<rule, draft, shown, drawn, busy>>
  BY DEF OtherWrites
<1>2. calls' = [i \in DOMAIN calls |->
                  IF calls[i].at = "read" THEN [calls[i] EXCEPT !.raced = TRUE] ELSE calls[i]]
  BY DEF OtherWrites
<1>3. CASE calls = <<>>
  <2>1. calls' = <<>>
    BY <1>2, <1>3
  <2> QED BY <1>1, <1>3, <2>1, StoredMoves
<1>4. ASSUME NEW c, calls = <<c>>, CallFits(c) PROVE EditInv'
  <2>1. PICK d : d = IF c.at = "read" THEN [c EXCEPT !.raced = TRUE] ELSE c
    OBVIOUS
  <2>2. calls' = <<d>>
    <3>1. DOMAIN calls = 1..1 /\ calls[1] = c
      BY <1>4
    <3>2. calls' = [i \in 1..1 |-> IF calls[i].at = "read" THEN [calls[i] EXCEPT !.raced = TRUE] ELSE calls[i]]
      BY <1>2, <3>1, Zenon
    <3>3. \A i \in 1..1 : calls[i] = c
      BY <3>1
    <3>4. calls' = [i \in 1..1 |-> d]
      BY <2>1, <3>2, <3>3, Zenon
    <3>5. calls' \in Seq({d}) /\ Len(calls') = 1 /\ calls'[1] = d
      BY <3>4
    <3> QED BY <3>5
  <2>3. /\ Has(d, CallFields) /\ d.kind = c.kind /\ d.patch = c.patch /\ d.warned = c.warned
        /\ d.from = c.from /\ d.at = c.at /\ d.merged = c.merged /\ (d.at = "read" => d.raced)
    <3>1. Has(c, CallFields)
      BY <1>4 DEF CallFits
    <3>2. CASE c.at = "read"
      BY <2>1, <3>1, <3>2 DEF Has, CallFields
    <3>3. CASE c.at # "read"
      BY <2>1, <3>1, <3>3 DEF Has, CallFields
    <3> QED BY <3>2, <3>3
  <2>4. CallFits(d)'
    BY <1>1, <1>4, <2>3 DEF CallFits, Has
  <2> QED BY <1>1, <1>4, <2>2, <2>4, StoredMoves
<1> QED BY <1>3, <1>4 DEF EditInv, OneCall

LEMMA ReviewKeeps ==
  ASSUME EditInv, Review
  PROVE  EditInv'
<1>1. /\ shown.kind = "form" /\ drawn.kind = "form" /\ shown' = ConfirmStep(rule, draft)
      /\ UNCHANGED <<server, rule, draft, drawn, busy, calls>>
  BY DEF Review, InForm, Show
<1>2. /\ Has(shown', StepFields) /\ shown'.kind = "confirm" /\ shown'.patch = Patch(rule, draft)
      /\ shown'.warning = NeedsTrashWarning(rule, draft, Patch(rule, draft))
  BY <1>1 DEF ConfirmStep, Has, StepFields
<1>3. rule \in Rules
  BY <1>1 DEF EditInv, FormOpen
<1>4. Confirms(shown)'
  BY <1>1, <1>2, <1>3 DEF Confirms, Has
<1>5. shown.kind \notin Waiting /\ shown'.kind \notin Waiting /\ FormOpen'
  BY <1>1, <1>2 DEF Waiting, FormOpen
<1>6. draft \in Forms
  BY DEF EditInv, EditTypes
<1> QED BY <1>1, <1>4, <1>5, <1>6, ScreenMoves

LEMMA CheckSettlesKeeps ==
  ASSUME EditInv, CheckSettles
  PROVE  EditInv'
<1>1. shown.kind = "confirm" /\ UNCHANGED <<server, rule, draft, drawn, busy, calls>>
  BY DEF CheckSettles
<1>2. /\ Has(shown, StepFields) /\ rule \in Rules /\ shown.patch = Patch(rule, draft)
      /\ shown.warning = NeedsTrashWarning(rule, draft, shown.patch)
  BY <1>1 DEF EditInv, Confirms
<1>3. \/ \E s : shown' = [shown EXCEPT !.preview = s] \/ shown' = [shown EXCEPT !.dryRun = s]
      \/ shown' = Step("form")
  BY DEF CheckSettles, Show
<1>4. /\ Confirms(shown)'
      /\ shown'.kind \in {"confirm", "form"}
  <2>1. CASE shown' = Step("form")
    BY <2>1, StepIs
  <2>2. CASE shown' # Step("form")
    <3>1. /\ Has(shown', StepFields)
          /\ shown'.kind = shown.kind /\ shown'.patch = shown.patch /\ shown'.warning = shown.warning
      BY <1>2, <1>3, <2>2 DEF Has, StepFields
    <3> QED BY <1>1, <1>2, <3>1 DEF Confirms, Has
  <2> QED BY <2>1, <2>2
<1>5. shown.kind \notin Waiting /\ shown'.kind \notin Waiting /\ FormOpen'
  BY <1>1, <1>2, <1>4 DEF Waiting, FormOpen
<1>6. draft \in Forms
  BY DEF EditInv, EditTypes
<1> QED BY <1>1, <1>4, <1>5, <1>6, ScreenMoves

LEMMA EditFieldKeeps ==
  ASSUME EditInv, EditField
  PROVE  EditInv'
<1>1. /\ shown.kind = "form" /\ drawn.kind = "form" /\ rule \in Rules /\ draft \in Forms
      /\ UNCHANGED <<server, rule, shown, drawn, busy, calls>>
  BY DEF EditField, InForm, EditInv, EditTypes, FormOpen
<1>2. draft' \in Forms
  <2>1. ASSUME NEW a \in {"classify", "trash"} PROVE WithAction(draft, a, rule) \in Forms
    <3>1. PICK c \in Categories \cup {NoCategory} :
            c = IF rule.action = a THEN rule.category ELSE IF a = "trash" THEN "delete" ELSE NoCategory
      BY <1>1 DEF Rules, Categories
    <3>2. WithAction(draft, a, rule) = IF a = draft.action THEN draft ELSE [draft EXCEPT !.action = a, !.category = c]
      BY <3>1 DEF WithAction
    <3> QED BY <1>1, <3>2 DEF Forms
  <2>2. CASE \E p \in Patterns : draft' = [draft EXCEPT !.pattern = p]
    BY <1>1, <2>2 DEF Forms
  <2>3. CASE \E c \in Categories : draft' = [draft EXCEPT !.category = c]
    BY <1>1, <2>3 DEF Forms
  <2>4. CASE draft' = [draft EXCEPT !.enabled = ~draft.enabled]
    <3>1. PICK b \in BOOLEAN : b = ~draft.enabled
      OBVIOUS
    <3> QED BY <1>1, <2>4, <3>1 DEF Forms
  <2> QED BY <2>1, <2>2, <2>3, <2>4 DEF EditField
<1>3. Confirms(shown)' /\ FormOpen' /\ shown.kind \notin Waiting /\ shown'.kind \notin Waiting
  BY <1>1 DEF Confirms, FormOpen, Waiting
<1> QED BY <1>1, <1>2, <1>3, ScreenMoves

\* A step to the list, the form or the question.
LEMMA TurnsKeep ==
  ASSUME EditInv, UNCHANGED <<server, rule, drawn, busy, calls>>, draft' \in Forms,
         draft' = draft \/ drawn.kind # "confirm", shown.kind \notin Waiting,
         NEW step, step \notin Waiting \cup {"confirm"}, Show(Step(step)), step = "form" => rule \in Rules
  PROVE  EditInv'
<1>1. shown'.kind = step /\ Confirms(shown)'
  BY StepIs DEF Show
<1> QED BY <1>1, ScreenMoves DEF FormOpen

LEMMA NotWaiting ==
  ASSUME EditInv, Free \/ shown.kind \notin Waiting
  PROVE  shown.kind \notin Waiting
BY DEF EditInv, OneCall, Free

LEMMA TurnsOf ==
  ASSUME EditInv, OpenEdit \/ AskDelete \/ DeclineDelete \/ Cancel \/ BackToForm
  PROVE  EditInv'
<1>1. draft \in Forms /\ (rule # Gone => rule \in Rules) /\ Rules \subseteq Forms
  BY DEF EditInv, EditTypes, Rules, Forms
<1>2. CASE OpenEdit
  <2>1. drawn.kind = "list" /\ rule \in Rules /\ draft' = rule /\ shown.kind \notin Waiting
    BY <1>1, <1>2 DEF OpenEdit, Waiting
  <2>2. UNCHANGED <<server, rule, drawn, busy, calls>> /\ Show(Step("form"))
    BY <1>2 DEF OpenEdit
  <2>3. "form" \notin Waiting \cup {"confirm"}
    BY DEF Waiting
  <2> QED BY <1>1, <2>1, <2>2, <2>3, TurnsKeep
<1>3. CASE AskDelete
  <2>1. shown.kind \notin Waiting /\ UNCHANGED <<server, rule, draft, drawn, busy, calls>> /\ Show(Step("asking"))
    BY <1>3 DEF AskDelete, Waiting
  <2>2. "asking" \notin Waiting \cup {"confirm"} /\ "asking" # "form"
    BY DEF Waiting
  <2> QED BY <1>1, <2>1, <2>2, TurnsKeep
<1>4. CASE DeclineDelete
  <2>1. Free /\ UNCHANGED <<server, rule, draft, drawn, busy, calls>> /\ Show(Step("list"))
    BY <1>4 DEF DeclineDelete
  <2>2. "list" \notin Waiting \cup {"confirm"} /\ "list" # "form"
    BY DEF Waiting
  <2> QED BY <1>1, <2>1, <2>2, NotWaiting, TurnsKeep
<1>5. CASE Cancel
  <2>1. shown.kind \notin Waiting /\ UNCHANGED <<server, rule, draft, drawn, busy, calls>> /\ Show(Step("list"))
    BY <1>5 DEF Cancel, Waiting
  <2>2. "list" \notin Waiting \cup {"confirm"} /\ "list" # "form"
    BY DEF Waiting
  <2> QED BY <1>1, <2>1, <2>2, TurnsKeep
<1>6. CASE BackToForm
  <2>1. Free /\ UNCHANGED <<server, rule, draft, drawn, busy, calls>> /\ Show(Step("form"))
    BY <1>6 DEF BackToForm
  <2>2. "form" \notin Waiting \cup {"confirm"}
    BY DEF Waiting
  <2>3. rule \in Rules
    BY <1>6 DEF BackToForm, EditInv, Confirms
  <2> QED BY <1>1, <2>1, <2>2, <2>3, NotWaiting, TurnsKeep
<1> QED BY <1>2, <1>3, <1>4, <1>5, <1>6

LEMMA RequestsKeep ==
  ASSUME EditInv, Toggle \/ ConfirmDelete \/ Save
  PROVE  EditInv'
<1>0. {"saving", "toggling", "deleting"} = Waiting
  BY DEF Waiting
<1>1. CASE Toggle
  <2>1. rule \in Rules
    BY <1>1 DEF Toggle, EditInv, EditTypes
  <2>2. PICK patch : patch = [f \in {"enabled"} |-> ~rule.enabled]
    OBVIOUS
  <2>3. Free /\ Send("toggle", patch, FALSE) /\ Show(Step("toggling")) /\ UNCHANGED <<server, rule, draft, drawn>>
    BY <1>1, <2>2 DEF Toggle
  <2> QED BY <1>0, <2>1, <2>2, <2>3, SendKeeps
<1>2. CASE ConfirmDelete
  <2>1. Free /\ Send("delete", <<>>, FALSE) /\ Show(Step("deleting")) /\ UNCHANGED <<server, rule, draft, drawn>>
    BY <1>2 DEF ConfirmDelete
  <2> QED BY <1>0, <2>1, SendKeeps
<1>3. CASE Save
  <2>1. /\ Free /\ Send("edit", drawn.patch, drawn.warning) /\ Show(Step("saving"))
        /\ UNCHANGED <<server, rule, draft, drawn>>
    BY <1>3 DEF Save
  <2>2. /\ rule \in Rules /\ drawn.patch = Patch(rule, draft)
        /\ drawn.warning = NeedsTrashWarning(rule, draft, drawn.patch)
    BY <1>3 DEF Save, EditInv, Confirms
  <2> QED BY <1>0, <2>1, <2>2, SendKeeps
<1> QED BY <1>1, <1>2, <1>3

LEMMA RelistKeeps ==
  ASSUME EditInv, Relist
  PROVE  EditInv'
<1>1. /\ drawn.kind = "list" /\ Free /\ rule' = server /\ Show(Step("list"))
      /\ UNCHANGED <<server, draft, drawn, busy, calls>>
  BY DEF Relist
<1>2. shown'.kind = "list" /\ Confirms(shown)'
  BY <1>1, StepIs DEF Show
<1>3. calls = <<>> /\ busy = FALSE
  BY <1>1 DEF EditInv, OneCall, Free
<1>4. EditTypes' /\ Confirms(drawn)' /\ FormOpen'
  BY <1>1, <1>2 DEF EditInv, EditTypes, Confirms, FormOpen
<1>5. OneCall'
  BY <1>1, <1>2, <1>3 DEF OneCall, Waiting
<1> QED BY <1>2, <1>4, <1>5 DEF EditInv

LEMMA EditRenderKeeps ==
  ASSUME EditInv, EditRender
  PROVE  EditInv'
<1>1. drawn' = shown /\ UNCHANGED <<server, rule, draft, shown, busy, calls>>
  BY DEF EditRender
<1>2. EditTypes' /\ Confirms(shown)' /\ Confirms(drawn)' /\ FormOpen'
  BY <1>1 DEF EditInv, EditTypes, Confirms, FormOpen
<1>3. OneCall'
  BY <1>1 DEF EditInv, OneCall, CallFits, Has
<1> QED BY <1>2, <1>3 DEF EditInv

LEMMA AnswersKeep ==
  ASSUME EditInv, NEW i \in DOMAIN calls, UpdateDone(i) \/ UpdateFails(i)
  PROVE  EditInv'
<1>1. PICK c : i = 1 /\ calls = <<c>> /\ CallFits(c) /\ calls[1] = c
  BY TheCall
<1>2. "list" \notin Waiting \cup {"confirm"} /\ "form" \notin Waiting \cup {"confirm"}
  BY DEF Waiting
<1>3. CASE UpdateDone(i)
  <2>1. Answered(i) /\ UNCHANGED draft /\ Show(Step("list"))
    BY <1>3 DEF UpdateDone
  <2>2. rule' \in Rules \cup {Gone}
    BY <1>1, <1>3 DEF UpdateDone, CallFits
  <2> QED BY <1>2, <2>1, <2>2, AnswerKeeps
<1>4. CASE UpdateFails(i)
  <2>1. PICK step \in {"list", "form"} : Show(Step(step)) /\ (step = "form" => c.kind = "edit")
    BY <1>1, <1>4 DEF UpdateFails
  <2>2. Answered(i) /\ UNCHANGED <<rule, draft>>
    BY <1>4 DEF UpdateFails
  <2>3. rule' \in Rules \cup {Gone} /\ (step = "form" => rule' \in Rules)
    BY <1>1, <2>1, <2>2 DEF CallFits, EditInv, EditTypes
  <2> QED BY <1>2, <2>1, <2>2, <2>3, AnswerKeeps
<1> QED BY <1>3, <1>4

LEMMA EditSteps ==
  ASSUME EditInv, [EditNext]_editVars
  PROVE  EditInv'
<1>1. CASE UNCHANGED editVars
  BY <1>1 DEF editVars, EditInv, EditTypes, Confirms, FormOpen, OneCall, CallFits, Has
<1>2. CASE EditNext
  BY <1>2, EditRenderKeeps, RelistKeeps, RequestsKeep, TurnsOf, EditFieldKeeps, ReviewKeeps, CheckSettlesKeeps,
     UpdateReadKeeps, WrittenKeeps, AnswersKeep, OtherWritesKeeps DEF EditNext
<1> QED BY <1>1, <1>2

LEMMA WritesIs ==
  ASSUME EditInv, [EditNext]_editVars, NEW i \in DOMAIN calls, Writes(i)
  PROVE  UpdateWrite(i)
<1>1. PICK c : i = 1 /\ calls = <<c>> /\ CallFits(c) /\ calls[1] = c /\ busy = TRUE
  BY TheCall
<1>2. c.at = "read" /\ 1 \in DOMAIN calls' /\ calls'[1].at = "written"
  BY <1>1 DEF Writes
<1>3. calls' # calls
  BY <1>1, <1>2
<1>4. ~Free
  BY <1>1 DEF Free
<1>5. ~OtherWrites
  <2> SUFFICES ASSUME OtherWrites PROVE FALSE
    OBVIOUS
  <2>1. calls'[1] = [c EXCEPT !.raced = TRUE]
    BY <1>1, <1>2 DEF OtherWrites
  <2> QED BY <1>1, <1>2, <2>1 DEF CallFits, Has, CallFields
<1>6. \A j \in DOMAIN calls : j = 1 /\ ~UpdateRead(j) /\ ~RemoveRuns(j) /\ ~Answered(j)
  <2>1. ASSUME NEW j \in DOMAIN calls PROVE j = 1
    BY <1>1
  <2>2. ~UpdateRead(1) /\ ~RemoveRuns(1)
    BY <1>1, <1>2 DEF UpdateRead, RemoveRuns
  <2>3. ~Answered(1)
    <3> SUFFICES ASSUME Answered(1) PROVE FALSE
      OBVIOUS
    <3>1. calls' = <<>>
      BY <1>1, AnsweredIs
    <3> QED BY <1>2, <3>1
  <2> QED BY <2>1, <2>2, <2>3
<1>7. ~UNCHANGED editVars
  BY <1>3 DEF editVars
<1> QED BY <1>1, <1>3, <1>4, <1>5, <1>6, <1>7
        DEF EditNext, EditRender, Relist, Toggle, OpenEdit, AskDelete, ConfirmDelete, DeclineDelete, EditField,
            Review, Cancel, CheckSettles, BackToForm, Save, UpdateDone, UpdateFails

LEMMA WriteMerges ==
  ASSUME EditInv, NEW i \in DOMAIN calls, UpdateWrite(i), ~calls[i].raced
  PROVE  /\ calls[i].kind \in {"edit", "toggle"} /\ server \in Rules /\ rule \in Rules /\ draft \in Forms
         /\ server' = Merged(server, calls[i].patch) /\ calls[i].from = rule
         /\ calls[i].kind = "edit" => /\ calls[i].patch = Patch(rule, draft)
                                      /\ calls[i].warned = NeedsTrashWarning(rule, draft, calls[i].patch)
         /\ calls[i].kind = "toggle" => DOMAIN calls[i].patch = {"enabled"}
<1>1. PICK c : i = 1 /\ calls = <<c>> /\ CallFits(c) /\ calls[1] = c
  BY TheCall
<1> QED BY <1>1 DEF UpdateWrite, CallFits, EditInv, EditTypes

\* What a write changes is what was sent, and that the user changed.
LEMMA NothingLost ==
  ASSUME EditInv, [EditNext]_editVars, NEW i \in DOMAIN calls, Writes(i), ~calls[i].raced
  PROVE  Differing(server, server') \subseteq
             IF calls[i].kind = "edit" THEN Differing(calls[i].from, draft) ELSE {"enabled"}
<1>1. PICK c : c = calls[i]
  OBVIOUS
<1>2. /\ c.kind \in {"edit", "toggle"} /\ server \in Rules /\ rule \in Rules /\ draft \in Forms
      /\ server' = Merged(server, c.patch) /\ c.from = rule
      /\ c.kind = "edit" => c.patch = Patch(rule, draft)
      /\ c.kind = "toggle" => DOMAIN c.patch = {"enabled"}
  BY <1>1, WritesIs, WriteMerges
<1>3. Differing(server, server') \subseteq DOMAIN c.patch
  BY <1>2 DEF Differing, Merged
<1>4. c.kind = "edit" => DOMAIN c.patch \subseteq Differing(c.from, draft)
  BY <1>2, PatchFits
<1> QED BY <1>1, <1>2, <1>3, <1>4

\* Where the rule comes to move mail, the warning was shown.
LEMMA Warned ==
  ASSUME EditInv, [EditNext]_editVars, NEW i \in DOMAIN calls, Writes(i), calls[i].kind = "edit",
         ~calls[i].raced, calls[i].from = server, server'.action = "trash", server'.enabled,
         server.action # "trash" \/ ~server.enabled \/ server.pattern # server'.pattern
  PROVE  calls[i].warned
<1>1. PICK patch : patch = Patch(rule, draft)
  OBVIOUS
<1>2. /\ rule \in Rules /\ draft \in Forms /\ server = rule /\ server' = Merged(rule, patch)
      /\ calls[i].warned = NeedsTrashWarning(rule, draft, patch)
  BY <1>1, WritesIs, WriteMerges
<1>3. /\ DOMAIN patch = {f \in Differing(rule, draft) : draft[f] # NoCategory}
      /\ \A f \in DOMAIN patch : patch[f] = draft[f]
  BY <1>1, <1>2, PatchFits
<1>4. \A f \in Fields : server'[f] = IF f \in DOMAIN patch THEN draft[f] ELSE rule[f]
  BY <1>2, <1>3 DEF Merged
<1>5. draft.action = "trash"
  <2>1. draft.action # NoCategory
    BY <1>2, EditAssumption DEF Forms
  <2>2. "action" \in DOMAIN patch \/ draft.action = rule.action
    BY <1>3, <2>1 DEF Differing, Fields
  <2> QED BY <1>4, <2>2 DEF Fields
<1>6. ASSUME rule.action = "trash", ~rule.enabled PROVE "enabled" \in DOMAIN patch /\ draft.enabled
  BY <1>2, <1>4, <1>6 DEF Fields
<1>7. ASSUME rule.pattern # server'.pattern PROVE "pattern" \in DOMAIN patch
  BY <1>4, <1>7 DEF Fields
<1> QED BY <1>2, <1>5, <1>6, <1>7 DEF NeedsTrashWarning

LEMMA EditHolds ==
  ASSUME EditInv
  PROVE  OneWriteAtATime
<1>1. CASE calls = <<>>
  BY <1>1 DEF OneWriteAtATime
<1>2. ASSUME NEW c, calls = <<c>> PROVE OneWriteAtATime
  BY <1>2 DEF OneWriteAtATime
<1> QED BY <1>1, <1>2 DEF EditInv, OneCall

----------------------------------------------------------------------------
(* TuiBlock.                                                               *)

Pickers == [step : {"closed", "scope", "confirm", "ready", "saving"}, sender : Senders \cup {NoSender}]
Uis == [place : {"list", "detail"}, prompt : Nat, picker : Pickers, busy : BOOLEAN, recent : Nat]
Kinds == {"unsubscribe", "picker", "delete"}
Stages == {"match", "covered", "sent", "duplicate", "created", "removed", "missing"}
Requests == [kind : Kinds, sender : Senders \cup {NoSender}, rule : Nat, gone : BOOLEAN, at : Stages]

BlockShape ==
    /\ made \in Nat /\ latest \in Nat /\ ui \in Uis /\ drawnUi \in Uis
    /\ requests \in Seq(Requests) /\ crossed \in BOOLEAN

KnownRules == {ui.recent, ui.prompt, drawnUi.recent, drawnUi.prompt}
IdsMade ==
    /\ latest <= made /\ \A x \in KnownRules : x <= made
    /\ \A i \in 1..Len(requests) : requests[i].rule <= made

StageFits(q) ==
    IF q.kind = "delete" THEN q.at \in {"sent", "removed", "missing"}
                         ELSE q.at \in Stages \ {"removed", "missing"}
StagesFit == \A i \in 1..Len(requests) : StageFits(requests[i])

\* A rule whose maker has not heard of it is known to no key and no request.
News(i) ==
    /\ requests[i].rule # NoRule /\ requests[i].rule \notin KnownRules
    /\ \A j \in 1..Len(requests) : j # i => requests[j].rule # requests[i].rule
    /\ (\E r \in stored : r.id = requests[i].rule) \/ requests[i].rule \in goneElsewhere
CreatedIsNews == \A i \in 1..Len(requests) : requests[i].at = "created" => News(i)

\* A removal in flight has happened.
Stands(x) ==
    \/ \E r \in stored : r.id = x
    \/ x \in goneElsewhere
    \/ \E i \in 1..Len(requests) :
          requests[i].kind = "delete" /\ requests[i].at = "removed" /\ requests[i].rule = x
RecentStands == ui.recent # NoRule => Stands(ui.recent)

RulesInv == BlockShape /\ IdsMade /\ StagesFit /\ CreatedIsNews /\ RecentStands

\* Until calls overlap there is one at most, and prompt and picker are about
\* what is remembered.
Alone(q) ==
    /\ ~q.gone /\ ui.prompt = NoRule
    /\ IF q.kind = "picker" THEN ui.picker.step = "saving" ELSE ui.picker.step = "closed"
    /\ q.kind = "delete" => q.rule = ui.recent
    /\ q.at = "created" => latest < q.rule
    /\ drawnUi.prompt # NoRule => q.kind = "delete"
    /\ drawnUi.picker.step # "closed" => q.kind = "picker"
InTurn ==
    /\ ui.recent = latest
    /\ requests = <<>> \/ \E q \in Requests : requests = <<q>> /\ Alone(q)
    /\ ui.picker.step # "closed" \/ drawnUi.picker.step # "closed" => ui.prompt = NoRule /\ drawnUi.prompt = NoRule
    /\ ui.prompt # NoRule => ui.prompt = ui.recent
    /\ drawnUi.prompt # NoRule => drawnUi.prompt = ui.recent

\* A closed picker is about no sender.
ClosedIsClosed == \A u \in {ui, drawnUi} : u.picker.step = "closed" => u.picker = Closed

BlockInv == RulesInv /\ ClosedIsClosed /\ (~crossed => InTurn)

-----------------------------------------------------------------------------

SameCall(p, q) == p.kind = q.kind /\ p.at = q.at /\ p.rule = q.rule

\* The calls in flight are the same, or one more about a rule that is known.
OneMore ==
    /\ requests' \in Seq(Requests) /\ Len(requests') \in {Len(requests), Len(requests) + 1}
    /\ \A i \in 1..Len(requests) : SameCall(requests'[i], requests[i])
    /\ Len(requests') = Len(requests) + 1 =>
          /\ StageFits(requests'[Len(requests')])
          /\ requests'[Len(requests')].at \notin {"created", "removed"}
          /\ requests'[Len(requests')].rule \in KnownRules \cup {NoRule}

\* A key or a render.
LEMMA KeysKeepRules ==
  ASSUME RulesInv, OneMore, UNCHANGED <<stored, made, latest, goneElsewhere>>, crossed' \in BOOLEAN,
         ui' \in Uis, drawnUi' \in Uis, ui'.recent = ui.recent, KnownRules' \subseteq KnownRules \cup {NoRule}
  PROVE  RulesInv'
<1>1. PICK n \in Nat, m \in Nat : n = Len(requests) /\ m = Len(requests')
  BY DEF RulesInv, BlockShape, OneMore
<1>2. /\ requests' \in Seq(Requests) /\ m \in {n, n + 1}
      /\ \A i \in 1..n : SameCall(requests'[i], requests[i])
      /\ m = n + 1 => /\ StageFits(requests'[m]) /\ requests'[m].at \notin {"created", "removed"}
                      /\ requests'[m].rule \in KnownRules \cup {NoRule}
  BY <1>1 DEF OneMore
<1>3. \A i \in 1..m : i \in 1..n \/ (i = m /\ m = n + 1)
  BY <1>2
<1>4. BlockShape'
  BY <1>2 DEF RulesInv, BlockShape
<1>5. IdsMade'
  <2>1. \A x \in KnownRules' : x <= made
    BY DEF RulesInv, IdsMade, BlockShape, NoRule
  <2>2. \A i \in 1..m : requests'[i].rule <= made
    BY <1>1, <1>2, <1>3 DEF RulesInv, IdsMade, BlockShape, NoRule, SameCall
  <2> QED BY <1>1, <2>1, <2>2 DEF RulesInv, IdsMade
<1>6. StagesFit'
  BY <1>1, <1>2, <1>3 DEF RulesInv, StagesFit, StageFits, SameCall
<1>7. ASSUME NEW i \in 1..m, requests'[i].at = "created" PROVE News(i)'
  <2>1. i \in 1..n /\ News(i) /\ requests'[i].rule = requests[i].rule
    BY <1>1, <1>2, <1>3, <1>7 DEF RulesInv, CreatedIsNews, SameCall
  <2>2. \A j \in 1..m : j # i => requests'[j].rule # requests'[i].rule
    BY <1>1, <1>2, <1>3, <2>1 DEF News, SameCall
  <2>3. requests'[i].rule \notin KnownRules'
    BY <2>1 DEF News
  <2> QED BY <1>1, <2>1, <2>2, <2>3 DEF News
<1>8. RecentStands'
  <2> SUFFICES ASSUME ui.recent # NoRule PROVE Stands(ui.recent)'
    BY DEF RecentStands
  <2>1. Stands(ui.recent)
    BY DEF RulesInv, RecentStands
  <2>2. \A i \in 1..n : i \in 1..m
    BY <1>2
  <2> QED BY <1>1, <1>2, <2>1, <2>2 DEF Stands, SameCall
<1> QED BY <1>1, <1>4, <1>5, <1>6, <1>7, <1>8 DEF RulesInv, CreatedIsNews

LEMMA NoneMore ==
  ASSUME BlockShape, UNCHANGED requests
  PROVE  OneMore
BY DEF BlockShape, OneMore, SameCall

LEMMA LeaveIs ==
  ASSUME BlockShape, NEW kind \in Kinds, NEW sender \in Senders \cup {NoSender}, NEW x \in KnownRules \cup {NoRule},
         Leave(kind, sender, x)
  PROVE  /\ OneMore
         /\ \E q \in Requests : /\ requests' = Append(requests, q) /\ q.kind = kind /\ q.rule = x
                                /\ ~q.gone /\ q.at # "created"
<1>1. PICK q : q = [kind |-> kind, sender |-> sender, rule |-> x, gone |-> FALSE,
                    at |-> IF kind = "unsubscribe" THEN "match" ELSE "sent"]
  OBVIOUS
<1>2. x \in Nat
  BY DEF BlockShape, KnownRules, Uis, NoRule
<1>3. /\ q \in Requests /\ q.kind = kind /\ q.rule = x /\ ~q.gone
      /\ q.at = IF kind = "unsubscribe" THEN "match" ELSE "sent"
  BY <1>1, <1>2 DEF Requests, Stages
<1>4. requests' = Append(requests, q) /\ requests \in Seq(Requests)
  BY <1>1 DEF Leave, BlockShape
<1>5. PICK n \in Nat : n = Len(requests)
  BY <1>4
<1>6. /\ requests' \in Seq(Requests) /\ Len(requests') = n + 1 /\ requests'[n + 1] = q
      /\ \A i \in 1..n : requests'[i] = requests[i]
  BY <1>3, <1>4, <1>5, AppendProperties
<1>7. StageFits(q) /\ q.at \notin {"created", "removed"}
  BY <1>3 DEF StageFits, Kinds, Stages
<1>8. OneMore
  BY <1>3, <1>5, <1>6, <1>7 DEF OneMore, SameCall
<1> QED BY <1>3, <1>4, <1>7, <1>8

LEMMA BlockStarts ==
  ASSUME BlockInit
  PROVE  BlockInv
<1>1. /\ ui \in Uis /\ ui.prompt = NoRule /\ ui.recent = NoRule /\ ui.picker.step = "closed" /\ ui.picker = Closed
  BY DEF BlockInit, Uis, Pickers, Closed, NoRule
<1>2. drawnUi = ui /\ latest = NoRule /\ made = 0 /\ crossed = FALSE
  BY DEF BlockInit
<1>3. requests = <<>> /\ requests \in Seq(Requests) /\ Len(requests) = 0
  BY DEF BlockInit
<1>4. BlockShape
  BY <1>1, <1>2, <1>3 DEF BlockShape, NoRule
<1>5. IdsMade /\ StagesFit /\ CreatedIsNews /\ RecentStands
  BY <1>1, <1>2, <1>3 DEF IdsMade, KnownRules, StagesFit, CreatedIsNews, RecentStands, NoRule
<1>6. InTurn /\ ClosedIsClosed
  BY <1>1, <1>2, <1>3 DEF InTurn, ClosedIsClosed
<1> QED BY <1>4, <1>5, <1>6 DEF BlockInv, RulesInv

\* Nothing is in flight: u, x, z and y start from here, or calls overlap.
LEMMA NoneInFlight ==
  ASSUME BlockShape, InTurn, ~BusyRef \/ ui.picker.step \notin {"closed", "saving"}, ui.picker.step # "saving"
  PROVE  requests = <<>>
<1> SUFFICES ASSUME NEW q \in Requests, requests = <<q>>, Alone(q) PROVE FALSE
  BY DEF InTurn
<1>1. 1 \in DOMAIN requests /\ requests[1] = q
  OBVIOUS
<1> QED BY <1>1 DEF Alone, BusyRef

LEMMA BlockRenderKeeps ==
  ASSUME BlockInv, BlockRender
  PROVE  BlockInv'
<1>1. /\ drawnUi' = ui /\ UNCHANGED <<stored, made, ui, requests, latest, crossed, goneElsewhere>>
      /\ BlockShape /\ RulesInv
  BY DEF BlockRender, BlockInv, RulesInv
<1>2. RulesInv'
  <2>1. OneMore
    BY <1>1, NoneMore
  <2> QED BY <1>1, <2>1, KeysKeepRules DEF BlockShape, KnownRules
<1>3. ClosedIsClosed'
  BY <1>1 DEF BlockInv, ClosedIsClosed
<1>4. ASSUME ~crossed PROVE InTurn'
  <2>1. InTurn
    BY <1>4 DEF BlockInv
  <2>2. ASSUME NEW q \in Requests, requests = <<q>>, Alone(q) PROVE Alone(q)'
    BY <1>1, <2>2 DEF Alone
  <2> QED BY <1>1, <2>1, <2>2 DEF InTurn
<1> QED BY <1>1, <1>2, <1>3, <1>4 DEF BlockInv

\* A key that sends nothing.
LEMMA KeyKeeps ==
  ASSUME BlockInv, KeysKeep, UNCHANGED requests, NEW x, Crosses(x), ui' \in Uis, ui'.recent = ui.recent,
         ui'.prompt \in KnownRules \cup {NoRule}, ui'.picker.step = "closed" => ui'.picker = Closed
  PROVE  RulesInv' /\ ClosedIsClosed' /\ (~crossed' => ~crossed /\ ~x /\ InTurn)
<1>1. /\ UNCHANGED <<stored, made, drawnUi, latest, goneElsewhere>> /\ crossed' = (crossed \/ x) /\ BlockShape /\ RulesInv
  BY DEF KeysKeep, Crosses, BlockInv, RulesInv
<1>2. RulesInv'
  <2>1. OneMore
    BY <1>1, NoneMore
  <2>2. crossed' \in BOOLEAN /\ drawnUi' \in Uis
    BY <1>1 DEF BlockShape
  <2>3. KnownRules' \subseteq KnownRules \cup {NoRule}
    BY <1>1 DEF KnownRules
  <2> QED BY <1>1, <2>1, <2>2, <2>3, KeysKeepRules
<1>3. ClosedIsClosed'
  BY <1>1 DEF BlockInv, ClosedIsClosed
<1> QED BY <1>1, <1>2, <1>3 DEF BlockInv

LEMMA KeyBlockKeeps ==
  ASSUME BlockInv, NEW s \in Senders, KeyBlock(s)
  PROVE  BlockInv'
<1>1. BlockShape /\ ui \in Uis
  BY DEF BlockInv, RulesInv, BlockShape
<1>2. PICK p \in Pickers : p = [step |-> "scope", sender |-> s]
  BY DEF Pickers
<1>3. /\ ui' = [ui EXCEPT !.picker = p] /\ UNCHANGED requests /\ KeysKeep
      /\ Crosses(requests # <<>> \/ ui.prompt # NoRule) /\ drawnUi.prompt = NoRule
  BY <1>2 DEF KeyBlock, KeysFree
<1>4. /\ ui' \in Uis /\ ui'.recent = ui.recent /\ ui'.prompt = ui.prompt /\ ui'.picker = p /\ p.step = "scope"
  BY <1>1, <1>2, <1>3 DEF Uis
<1>5. /\ RulesInv' /\ ClosedIsClosed'
      /\ ~crossed' => ~crossed /\ ~(requests # <<>> \/ ui.prompt # NoRule) /\ InTurn
  BY <1>3, <1>4, KeyKeeps DEF KnownRules
<1>6. ~crossed' => InTurn'
  BY <1>3, <1>4, <1>5 DEF InTurn, KeysKeep
<1> QED BY <1>5, <1>6 DEF BlockInv

LEMMA KeyUndoRuleKeeps ==
  ASSUME BlockInv, KeyUndoRule
  PROVE  BlockInv'
<1>1. BlockShape /\ ui \in Uis /\ drawnUi \in Uis
  BY DEF BlockInv, RulesInv, BlockShape
<1>2. /\ ui' = [ui EXCEPT !.prompt = drawnUi.recent] /\ UNCHANGED requests /\ KeysKeep /\ ~BusyRef
      /\ Crosses(ui.picker # Closed \/ ui.recent # drawnUi.recent)
      /\ drawnUi.prompt = NoRule /\ drawnUi.picker = Closed
  BY DEF KeyUndoRule, KeysFree, Active
<1>3. ui' \in Uis /\ ui'.recent = ui.recent /\ ui'.prompt = drawnUi.recent /\ ui'.picker = ui.picker
  BY <1>1, <1>2 DEF Uis
<1>4. /\ RulesInv' /\ ClosedIsClosed'
      /\ ~crossed' => ~crossed /\ ~(ui.picker # Closed \/ ui.recent # drawnUi.recent) /\ InTurn
  <2>1. ui'.prompt \in KnownRules \cup {NoRule} /\ (ui'.picker.step = "closed" => ui'.picker = Closed)
    BY <1>3 DEF KnownRules, BlockInv, ClosedIsClosed
  <2> QED BY <1>2, <1>3, <2>1, KeyKeeps
<1>5. ASSUME ~crossed' PROVE InTurn'
  <2>1. Closed.step = "closed"
    BY DEF Closed
  <2>2. requests = <<>>
    BY <1>1, <1>2, <1>4, <1>5, <2>1, NoneInFlight
  <2> QED BY <1>2, <1>3, <1>4, <1>5, <2>1, <2>2 DEF InTurn, KeysKeep
<1> QED BY <1>4, <1>5 DEF BlockInv

LEMMA PromptCloses ==
  ASSUME BlockInv, KeysKeep, UNCHANGED requests, Crosses(FALSE), ui' = [ui EXCEPT !.prompt = NoRule]
  PROVE  BlockInv'
<1>1. ui \in Uis /\ NoRule \in Nat
  BY DEF BlockInv, RulesInv, BlockShape, NoRule
<1>2. ui' \in Uis /\ ui'.recent = ui.recent /\ ui'.prompt = NoRule /\ ui'.picker = ui.picker
  BY <1>1 DEF Uis
<1>3. RulesInv' /\ ClosedIsClosed' /\ (~crossed' => ~crossed /\ InTurn)
  <2>1. ui'.picker.step = "closed" => ui'.picker = Closed
    BY <1>2 DEF BlockInv, ClosedIsClosed
  <2> QED BY <1>2, <2>1, KeyKeeps
<1>4. ASSUME ~crossed' PROVE InTurn'
  <2>1. ASSUME NEW q \in Requests, requests = <<q>>, Alone(q) PROVE Alone(q)'
    BY <1>2, <2>1 DEF Alone, KeysKeep
  <2> QED BY <1>2, <1>3, <1>4, <2>1 DEF InTurn, KeysKeep
<1> QED BY <1>3, <1>4 DEF BlockInv

\* A key that sends a call.
LEMMA KeySends ==
  ASSUME BlockInv, KeysKeep, NEW kind \in Kinds, NEW sender \in Senders \cup {NoSender}, NEW r \in KnownRules \cup {NoRule},
         Leave(kind, sender, r), NEW x, Crosses(x), ui' \in Uis, ui'.recent = ui.recent,
         ui'.prompt \in KnownRules \cup {NoRule}, ui'.picker.step = "closed" => ui'.picker = Closed,
         ~crossed /\ ~x /\ InTurn =>
            /\ requests = <<>> /\ ui'.prompt = NoRule
            /\ IF kind = "picker" THEN ui'.picker.step = "saving" ELSE ui'.picker.step = "closed"
            /\ kind = "delete" => r = ui.recent
            /\ kind # "delete" => drawnUi.prompt = NoRule
            /\ kind # "picker" => drawnUi.picker.step = "closed"
  PROVE  BlockInv'
<1>1. /\ UNCHANGED <<stored, made, drawnUi, latest, goneElsewhere>> /\ crossed' = (crossed \/ x) /\ BlockShape /\ RulesInv
  BY DEF KeysKeep, Crosses, BlockInv, RulesInv
<1>2. OneMore /\ \E q \in Requests : /\ requests' = Append(requests, q) /\ q.kind = kind /\ q.rule = r
                                     /\ ~q.gone /\ q.at # "created"
  BY <1>1, LeaveIs
<1>3. RulesInv'
  <2>1. crossed' \in BOOLEAN /\ drawnUi' \in Uis
    BY <1>1 DEF BlockShape
  <2>2. KnownRules' \subseteq KnownRules \cup {NoRule}
    BY <1>1 DEF KnownRules
  <2> QED BY <1>1, <1>2, <2>1, <2>2, KeysKeepRules
<1>4. ClosedIsClosed'
  BY <1>1 DEF BlockInv, ClosedIsClosed
<1>5. ASSUME ~crossed' PROVE InTurn'
  <2>1. InTurn /\ requests = <<>> /\ ~crossed /\ ~x
    BY <1>1, <1>5 DEF BlockInv
  <2>2. PICK q \in Requests : requests' = Append(requests, q) /\ q.kind = kind /\ q.rule = r /\ ~q.gone /\ q.at # "created"
    BY <1>2
  <2>3. requests' = <<q>>
    BY <2>1, <2>2
  <2>4. Alone(q)'
    BY <1>1, <2>1, <2>2 DEF Alone
  <2> QED BY <1>1, <2>1, <2>3, <2>4 DEF InTurn
<1> QED BY <1>3, <1>4, <1>5 DEF BlockInv

LEMMA KeyUnsubscribeKeeps ==
  ASSUME BlockInv, NEW s \in Senders, KeyUnsubscribe(s)
  PROVE  BlockInv'
<1>1. BlockShape /\ ui \in Uis /\ Closed.step = "closed"
  BY DEF BlockInv, RulesInv, BlockShape, Closed
<1>2. /\ ui' = [ui EXCEPT !.busy = TRUE] /\ Leave("unsubscribe", s, NoRule) /\ KeysKeep /\ ~BusyRef
      /\ Crosses(ui.prompt # NoRule \/ ui.picker # Closed)
      /\ drawnUi.prompt = NoRule /\ drawnUi.picker = Closed
  BY DEF KeyUnsubscribe, KeysFree, Active
<1>3. ui' \in Uis /\ ui'.recent = ui.recent /\ ui'.prompt = ui.prompt /\ ui'.picker = ui.picker
  BY <1>1, <1>2 DEF Uis
<1>4. ui'.prompt \in KnownRules \cup {NoRule} /\ (ui'.picker.step = "closed" => ui'.picker = Closed)
  BY <1>3 DEF KnownRules, BlockInv, ClosedIsClosed
<1>5. ~crossed /\ ~(ui.prompt # NoRule \/ ui.picker # Closed) /\ InTurn =>
        requests = <<>> /\ ui'.prompt = NoRule /\ ui'.picker.step = "closed"
  BY <1>1, <1>2, <1>3, NoneInFlight
<1>6. "unsubscribe" \in Kinds /\ NoRule \in KnownRules \cup {NoRule} /\ s \in Senders \cup {NoSender}
  BY DEF Kinds
<1> QED BY <1>1, <1>2, <1>3, <1>4, <1>5, <1>6, KeySends

LEMMA KeyYesKeeps ==
  ASSUME BlockInv, KeyYes
  PROVE  BlockInv'
<1>1. BlockShape /\ ui \in Uis /\ NoRule \in Nat /\ Closed.step = "closed"
  BY DEF BlockInv, RulesInv, BlockShape, Closed, NoRule
<1>2. CASE BusyRef
  BY <1>2, PromptCloses DEF KeyYes
<1>3. CASE ~BusyRef
  <2>1. /\ ui' = [ui EXCEPT !.prompt = NoRule, !.busy = TRUE] /\ Leave("delete", NoSender, drawnUi.prompt)
        /\ KeysKeep /\ Crosses(FALSE) /\ drawnUi.prompt # NoRule /\ drawnUi.picker = Closed
    BY <1>3 DEF KeyYes, Active
  <2>2. ui' \in Uis /\ ui'.recent = ui.recent /\ ui'.prompt = NoRule /\ ui'.picker = ui.picker
    BY <1>1, <2>1 DEF Uis
  <2>3. ui'.picker.step = "closed" => ui'.picker = Closed
    BY <2>2 DEF BlockInv, ClosedIsClosed
  <2>4. ~crossed /\ InTurn =>
          requests = <<>> /\ ui'.prompt = NoRule /\ ui'.picker.step = "closed" /\ drawnUi.prompt = ui.recent
    <3> SUFFICES ASSUME InTurn
                 PROVE  requests = <<>> /\ ui.picker.step = "closed" /\ drawnUi.prompt = ui.recent
      BY <2>2
    <3>1. ui.picker.step = "closed" /\ drawnUi.prompt = ui.recent
      BY <2>1 DEF InTurn
    <3> QED BY <1>1, <1>3, <3>1, NoneInFlight
  <2>5. "delete" \in Kinds /\ drawnUi.prompt \in KnownRules \cup {NoRule}
    BY DEF Kinds, KnownRules
  <2> QED BY <1>1, <2>1, <2>2, <2>3, <2>4, <2>5, KeySends
<1> QED BY <1>2, <1>3

LEMMA PickerSaveKeeps ==
  ASSUME BlockInv, PickerSave
  PROVE  BlockInv'
<1>1. BlockShape /\ ui \in Uis /\ drawnUi \in Uis /\ Closed.step = "closed"
  BY DEF BlockInv, RulesInv, BlockShape, Closed
<1>2. /\ ui' = IF ui.picker = Closed THEN ui ELSE [ui EXCEPT !.picker = [ui.picker EXCEPT !.step = "saving"]]
      /\ Leave("picker", drawnUi.picker.sender, NoRule) /\ KeysKeep /\ Crosses(ui.picker.step # "ready")
      /\ drawnUi.picker.step = "ready"
  BY DEF PickerSave
<1>3. /\ ui' \in Uis /\ ui'.recent = ui.recent /\ ui'.prompt = ui.prompt
      /\ ui'.picker.step = IF ui.picker = Closed THEN "closed" ELSE "saving"
      /\ ui.picker = Closed => ui'.picker = Closed
  BY <1>1, <1>2 DEF Uis, Pickers
<1>4. ui'.prompt \in KnownRules \cup {NoRule} /\ (ui'.picker.step = "closed" => ui'.picker = Closed)
  BY <1>3 DEF KnownRules
<1>5. ~crossed /\ ~(ui.picker.step # "ready") /\ InTurn =>
        requests = <<>> /\ ui'.prompt = NoRule /\ ui'.picker.step = "saving" /\ drawnUi.prompt = NoRule
  <2> SUFFICES ASSUME ui.picker.step = "ready", InTurn
               PROVE  requests = <<>> /\ ui'.prompt = NoRule /\ ui'.picker.step = "saving" /\ drawnUi.prompt = NoRule
    OBVIOUS
  <2>1. requests = <<>>
    BY <1>1, NoneInFlight
  <2> QED BY <1>1, <1>3, <2>1 DEF InTurn
<1>6. "picker" \in Kinds /\ NoRule \in KnownRules \cup {NoRule} /\ drawnUi.picker.sender \in Senders \cup {NoSender}
  BY <1>1 DEF Kinds, Uis, Pickers
<1> QED BY <1>1, <1>2, <1>3, <1>4, <1>5, <1>6, KeySends

LEMMA PickerStepKeeps ==
  ASSUME BlockInv, NEW from \in {"scope", "confirm"}, NEW to \in {"confirm", "ready"}, PickerStep(from, to)
  PROVE  BlockInv'
<1>1. BlockShape /\ ui \in Uis /\ Closed.step = "closed"
  BY DEF BlockInv, RulesInv, BlockShape, Closed
<1>2. /\ ui' = [ui EXCEPT !.picker = [ui.picker EXCEPT !.step = to]] /\ UNCHANGED requests /\ KeysKeep
      /\ Crosses(FALSE) /\ drawnUi = ui /\ ui.picker.step = from
  BY DEF PickerStep
<1>3. ui' \in Uis /\ ui'.recent = ui.recent /\ ui'.prompt = ui.prompt /\ ui'.picker.step = to
  BY <1>1, <1>2 DEF Uis, Pickers
<1>4. RulesInv' /\ ClosedIsClosed' /\ (~crossed' => ~crossed /\ InTurn)
  <2>1. ui'.prompt \in KnownRules \cup {NoRule} /\ (ui'.picker.step = "closed" => ui'.picker = Closed)
    BY <1>3 DEF KnownRules
  <2> QED BY <1>2, <1>3, <2>1, KeyKeeps
<1>5. ASSUME ~crossed' PROVE InTurn'
  <2>1. requests = <<>>
    BY <1>1, <1>2, <1>4, <1>5, NoneInFlight
  <2> QED BY <1>2, <1>3, <1>4, <1>5, <2>1 DEF InTurn, KeysKeep
<1> QED BY <1>4, <1>5 DEF BlockInv

LEMMA PickerCancelKeeps ==
  ASSUME BlockInv, PickerCancel
  PROVE  BlockInv'
<1>1. BlockShape /\ ui \in Uis /\ Closed.step = "closed" /\ Closed \in Pickers
  BY DEF BlockInv, RulesInv, BlockShape, Closed, Pickers
<1>2. /\ ui' = [ui EXCEPT !.picker = Closed] /\ UNCHANGED requests /\ KeysKeep
      /\ Crosses(ui.picker.step = "saving") /\ drawnUi.picker.step \in {"scope", "confirm", "ready"}
  BY DEF PickerCancel
<1>3. ui' \in Uis /\ ui'.recent = ui.recent /\ ui'.prompt = ui.prompt /\ ui'.picker = Closed
  BY <1>1, <1>2 DEF Uis
<1>4. RulesInv' /\ ClosedIsClosed' /\ (~crossed' => ~crossed /\ ~(ui.picker.step = "saving") /\ InTurn)
  <2>1. ui'.prompt \in KnownRules \cup {NoRule}
    BY <1>3 DEF KnownRules
  <2> QED BY <1>2, <1>3, <2>1, KeyKeeps
<1>5. ASSUME ~crossed' PROVE InTurn'
  <2>1. ASSUME NEW q \in Requests, requests = <<q>>, Alone(q) PROVE FALSE
    BY <1>2, <1>4, <1>5, <2>1 DEF Alone
  <2>2. requests = <<>>
    BY <1>4, <1>5, <2>1 DEF InTurn
  <2> QED BY <1>1, <1>2, <1>3, <1>4, <1>5, <2>2 DEF InTurn, KeysKeep
<1> QED BY <1>4, <1>5 DEF BlockInv

LEMMA KeyLeaveKeeps ==
  ASSUME BlockInv, KeyLeave
  PROVE  BlockInv'
<1>1. /\ BlockShape /\ RulesInv /\ ui \in Uis /\ Closed.step = "closed" /\ Closed \in Pickers /\ NoRule \in Nat
      /\ drawnUi.prompt = NoRule
  BY DEF BlockInv, RulesInv, BlockShape, Closed, Pickers, NoRule, KeyLeave
<1>2. PICK place \in {"list", "detail"} :
        ui' = [ui EXCEPT !.place = place, !.prompt = NoRule, !.picker = Closed, !.busy = FALSE]
  BY DEF KeyLeave
<1>3. ui' \in Uis /\ ui'.recent = ui.recent /\ ui'.prompt = NoRule /\ ui'.picker = Closed
  BY <1>1, <1>2 DEF Uis
<1>4. PICK n \in Nat : n = Len(requests) /\ DOMAIN requests = 1..n /\ requests \in Seq(Requests)
  BY <1>1 DEF BlockShape
<1>5. requests' = [i \in 1..n |-> [requests[i] EXCEPT !.gone = TRUE]]
  BY <1>4 DEF KeyLeave
<1>6. OneMore
  <2>1. ASSUME NEW i \in 1..n PROVE requests'[i] \in Requests /\ SameCall(requests'[i], requests[i])
    <3>1. requests[i] \in Requests /\ requests'[i] = [requests[i] EXCEPT !.gone = TRUE]
      BY <1>4, <1>5
    <3> QED BY <3>1 DEF Requests, SameCall
  <2>2. requests' \in Seq(Requests) /\ Len(requests') = n
    BY <1>5, <2>1
  <2> QED BY <1>4, <2>1, <2>2 DEF OneMore
<1>7. UNCHANGED <<stored, made, drawnUi, latest, goneElsewhere>> /\ crossed' = (crossed \/ requests # <<>>)
  BY DEF KeyLeave, KeysKeep, Crosses
<1>8. RulesInv'
  <2>1. crossed' \in BOOLEAN /\ drawnUi' \in Uis
    BY <1>1, <1>7 DEF BlockShape
  <2>2. KnownRules' \subseteq KnownRules \cup {NoRule}
    BY <1>3, <1>7 DEF KnownRules
  <2> QED BY <1>1, <1>3, <1>6, <1>7, <2>1, <2>2, KeysKeepRules
<1>9. ClosedIsClosed'
  BY <1>3, <1>7 DEF BlockInv, ClosedIsClosed
<1>10. ASSUME ~crossed' PROVE InTurn'
  <2>1. InTurn /\ requests = <<>>
    BY <1>7, <1>10 DEF BlockInv
  <2>2. requests' = <<>>
    <3>1. n = 0
      BY <1>4, <2>1
    <3> QED BY <1>5, <3>1
  <2> QED BY <1>1, <1>3, <1>7, <2>1, <2>2 DEF InTurn
<1> QED BY <1>8, <1>9, <1>10 DEF BlockInv

\* A call of a screen at another stage.
LEMMA AtIs ==
  ASSUME BlockShape, NEW i \in 1..Len(requests), NEW at \in Stages, NEW x \in Nat, At(i, at, x)
  PROVE  /\ requests' \in Seq(Requests) /\ Len(requests') = Len(requests)
         /\ requests'[i].kind = requests[i].kind /\ requests'[i].gone = requests[i].gone
         /\ requests'[i].at = at /\ requests'[i].rule = x
         /\ \A j \in 1..Len(requests) : j # i => requests'[j] = requests[j]
         /\ \A q \in Requests : requests = <<q>> => requests' = <<requests'[1]>> /\ requests'[1] \in Requests
<1>1. PICK n \in Nat : n = Len(requests) /\ i \in 1..n /\ requests \in Seq(Requests)
  BY DEF BlockShape
<1>2. PICK q : q = [requests[i] EXCEPT !.at = at, !.rule = x]
  OBVIOUS
<1>3. requests' = [requests EXCEPT ![i] = q]
  BY <1>2 DEF At
<1>4. requests[i] \in Requests
  BY <1>1
<1>5. q \in Requests /\ q.kind = requests[i].kind /\ q.gone = requests[i].gone /\ q.at = at /\ q.rule = x
  BY <1>2, <1>4 DEF Requests
<1>6. requests' \in Seq(Requests) /\ Len(requests') = n /\ requests'[i] = q
      /\ \A j \in 1..n : j # i => requests'[j] = requests[j]
  BY <1>1, <1>3, <1>5
<1>7. ASSUME NEW r, requests = <<r>> PROVE requests' = <<requests'[1]>> /\ requests'[1] \in Requests
  <2>1. n = 1
    BY <1>1, <1>7
  <2>2. PICK s : s = requests'
    OBVIOUS
  <2>3. s \in Seq(Requests) /\ Len(s) = 1
    BY <1>6, <2>1, <2>2
  <2>4. s = <<s[1]>> /\ s[1] \in Requests
    BY <2>3
  <2> QED BY <2>2, <2>4
<1> QED BY <1>1, <1>5, <1>6, <1>7

\* The rules stored change, and the stage of one call: what is created is
\* news, what is removed leaves a removal in flight.
LEMMA ServerKeepsRules ==
  ASSUME RulesInv, NEW i \in 1..Len(requests), NEW at \in Stages, NEW x \in Nat, At(i, at, x),
         ServerKeeps, made' \in Nat, made <= made', x <= made',
         StageFits(requests'[i]), goneElsewhere' = goneElsewhere,
         \/ stored \subseteq stored'
         \/ /\ stored' = {r \in stored : r.id # requests[i].rule} /\ requests[i].kind = "delete"
            /\ at = IF stored' = stored THEN "missing" ELSE "removed"
            /\ x = requests[i].rule,
         requests[i].at \notin {"created", "removed"}, at = "removed" => stored' # stored /\ requests[i].kind = "delete",
         IF at = "created" THEN x > made /\ \E r \in stored' : r.id = x ELSE x \in {NoRule, requests[i].rule}
  PROVE  RulesInv'
<1>1. PICK n \in Nat : n = Len(requests) /\ i \in 1..n
  BY DEF RulesInv, BlockShape
<1>2. /\ requests' \in Seq(Requests) /\ Len(requests') = n
      /\ requests'[i].kind = requests[i].kind /\ requests'[i].at = at /\ requests'[i].rule = x
      /\ \A j \in 1..n : j # i => requests'[j] = requests[j]
  BY <1>1, AtIs DEF RulesInv
<1>3. UNCHANGED <<ui, drawnUi, latest, crossed>> /\ KnownRules' = KnownRules
  BY DEF ServerKeeps, KnownRules
<1>4. BlockShape'
  BY <1>2, <1>3 DEF RulesInv, BlockShape
<1>5. IdsMade'
  <2>1. \A y \in KnownRules : y \in Nat /\ y <= made'
    BY DEF RulesInv, IdsMade, BlockShape, KnownRules, Uis
  <2>2. \A j \in 1..n : requests'[j].rule <= made'
    <3>1. ASSUME NEW j \in 1..n, j # i PROVE requests'[j].rule <= made'
      <4>1. requests'[j] = requests[j] /\ requests[j] \in Requests /\ requests[j].rule <= made
        BY <1>1, <1>2, <3>1 DEF RulesInv, IdsMade, BlockShape
      <4> QED BY <4>1 DEF Requests, RulesInv, BlockShape
    <3> QED BY <1>2, <3>1
  <2>3. latest <= made'
    BY DEF RulesInv, IdsMade, BlockShape
  <2> QED BY <1>2, <1>3, <2>1, <2>2, <2>3 DEF IdsMade
<1>6. StagesFit'
  BY <1>1, <1>2 DEF RulesInv, StagesFit, StageFits
<1>7. ASSUME NEW j \in 1..n, requests'[j].at = "created" PROVE News(j)'
  <2>1. CASE j = i
    <3>1. x > made /\ (\E r \in stored' : r.id = x) /\ x # NoRule
      BY <1>2, <1>7, <2>1 DEF NoRule, RulesInv, BlockShape
    <3>2. x \notin KnownRules
      BY <3>1 DEF RulesInv, IdsMade, BlockShape, KnownRules, Uis
    <3>3. \A k \in 1..n : k # i => requests'[k].rule # x
      <4>1. ASSUME NEW k \in 1..n, k # i PROVE requests'[k].rule # x
        <5>1. requests'[k] = requests[k] /\ requests[k] \in Requests /\ requests[k].rule <= made
          BY <1>1, <1>2, <4>1 DEF RulesInv, IdsMade, BlockShape
        <5> QED BY <3>1, <5>1 DEF Requests, RulesInv, BlockShape
      <4> QED BY <4>1
    <3> QED BY <1>1, <1>2, <1>3, <2>1, <3>1, <3>2, <3>3 DEF News
  <2>2. CASE j # i
    <3>1. requests'[j] = requests[j] /\ News(j)
      BY <1>1, <1>2, <1>7, <2>2 DEF RulesInv, CreatedIsNews
    <3>2. requests[i].rule # requests[j].rule /\ x # requests[j].rule
      <4>1. requests[j] \in Requests /\ requests[j].rule <= made /\ requests[j].rule # NoRule
        BY <1>1, <3>1 DEF RulesInv, IdsMade, BlockShape, News
      <4>2. requests[i].rule # requests[j].rule
        BY <1>1, <2>2, <3>1 DEF News
      <4> QED BY <4>1, <4>2 DEF Requests, RulesInv, BlockShape
    <3>3. (\E r \in stored' : r.id = requests[j].rule) \/ requests[j].rule \in goneElsewhere
      BY <3>1, <3>2 DEF News
    <3>4. \A k \in 1..n : k # j => requests'[k].rule # requests[j].rule
      BY <1>1, <1>2, <3>1, <3>2 DEF News
    <3> QED BY <1>1, <1>2, <1>3, <3>1, <3>3, <3>4 DEF News
  <2> QED BY <2>1, <2>2
<1>8. RecentStands'
  <2> SUFFICES ASSUME ui.recent # NoRule PROVE Stands(ui.recent)'
    BY <1>3 DEF RecentStands
  <2>1. Stands(ui.recent)
    BY DEF RulesInv, RecentStands
  <2>2. ASSUME NEW j \in 1..n, requests[j].kind = "delete", requests[j].at = "removed", requests[j].rule = ui.recent
        PROVE  Stands(ui.recent)'
    BY <1>1, <1>2, <1>3, <2>2 DEF Stands
  <2>3. CASE ui.recent \in goneElsewhere
    BY <1>3, <2>3 DEF Stands
  <2>4. ASSUME NEW r \in stored, r.id = ui.recent PROVE Stands(ui.recent)'
    <3>1. CASE r \in stored'
      BY <1>3, <2>4, <3>1 DEF Stands
    <3>2. CASE r \notin stored'
      <4>1. r.id = requests[i].rule /\ requests[i].kind = "delete" /\ at = "removed" /\ x = requests[i].rule
        BY <2>4, <3>2
      <4> QED BY <1>1, <1>2, <1>3, <2>4, <4>1 DEF Stands
    <3> QED BY <3>1, <3>2
  <2> QED BY <1>1, <2>1, <2>2, <2>3, <2>4 DEF Stands
<1> QED BY <1>1, <1>2, <1>4, <1>5, <1>6, <1>7, <1>8 DEF RulesInv, CreatedIsNews

LEMMA ServerKeepsTurn ==
  ASSUME BlockInv, NEW i \in 1..Len(requests), NEW at \in Stages, NEW x \in Nat, At(i, at, x),
         ServerKeeps, requests[i].kind = "delete" => x = requests[i].rule, at = "created" => x > made, ~crossed
  PROVE  InTurn'
<1>1. InTurn /\ BlockShape /\ UNCHANGED <<ui, drawnUi, latest, crossed>>
  BY DEF BlockInv, RulesInv, ServerKeeps
<1>2. PICK q \in Requests : requests = <<q>> /\ Alone(q)
  <2>1. requests # <<>>
    BY <1>1 DEF BlockShape
  <2> QED BY <1>1, <2>1 DEF InTurn
<1>3. i = 1 /\ requests[i] = q
  BY <1>2
<1>4. PICK p \in Requests : requests' = <<p>> /\ p.kind = q.kind /\ p.gone = q.gone /\ p.at = at /\ p.rule = x
  BY <1>1, <1>2, <1>3, AtIs
<1>5. latest <= made /\ latest \in Nat /\ made \in Nat
  BY DEF BlockInv, RulesInv, IdsMade, BlockShape
<1>6. Alone(p)'
  BY <1>1, <1>2, <1>3, <1>4, <1>5 DEF Alone
<1> QED BY <1>1, <1>4, <1>6 DEF InTurn

LEMMA MatchFindsKeeps ==
  ASSUME BlockInv, NEW i \in 1..Len(requests), MatchFinds(i)
  PROVE  BlockInv'
<1>1. BlockShape /\ RulesInv /\ made \in Nat /\ NoRule \in Nat /\ NoRule <= made
  BY DEF BlockInv, RulesInv, BlockShape, NoRule
<1>2. PICK at \in {"covered", "sent"} : At(i, at, NoRule)
  BY DEF MatchFinds
<1>3. /\ requests[i].at = "match" /\ ServerKeeps /\ UNCHANGED <<stored, made, goneElsewhere>> /\ at \in Stages
  BY DEF MatchFinds, Stages
<1>4. requests[i].kind # "delete"
  BY <1>3 DEF BlockInv, RulesInv, StagesFit, StageFits
<1>5. StageFits(requests'[i])
  BY <1>1, <1>2, <1>3, <1>4, AtIs DEF StageFits, Stages
<1>6. RulesInv'
  BY <1>1, <1>2, <1>3, <1>5, ServerKeepsRules
<1>7. ~crossed => InTurn'
  BY <1>1, <1>2, <1>3, <1>4, ServerKeepsTurn
<1> QED BY <1>3, <1>6, <1>7 DEF BlockInv, ServerKeeps, ClosedIsClosed

LEMMA CreateRunsKeeps ==
  ASSUME BlockInv, NEW i \in 1..Len(requests), CreateRuns(i)
  PROVE  BlockInv'
<1>1. BlockShape /\ RulesInv /\ made \in Nat /\ NoRule \in Nat /\ NoRule <= made
  BY DEF BlockInv, RulesInv, BlockShape, NoRule
<1>2. requests[i].at = "sent" /\ requests[i].kind # "delete" /\ goneElsewhere' = goneElsewhere /\ ServerKeeps
  BY DEF CreateRuns
<1>3. RulesInv' /\ (~crossed => InTurn')
  <2>1. CASE RuleOf(requests[i].sender) # {}
    <3>1. At(i, "duplicate", NoRule) /\ UNCHANGED <<stored, made>> /\ "duplicate" \in Stages
      BY <2>1 DEF CreateRuns, Stages
    <3>2. StageFits(requests'[i])
      BY <1>1, <1>2, <3>1, AtIs DEF StageFits, Stages
    <3>3. RulesInv'
      BY <1>1, <1>2, <3>1, <3>2, ServerKeepsRules
    <3> QED BY <1>1, <1>2, <3>1, <3>3, ServerKeepsTurn
  <2>2. CASE RuleOf(requests[i].sender) = {}
    <3>1. PICK r : r = [id |-> made + 1, sender |-> requests[i].sender, enabled |-> TRUE]
      OBVIOUS
    <3>2. /\ made' = made + 1 /\ stored' = stored \cup {r} /\ At(i, "created", made + 1) /\ "created" \in Stages
      BY <2>2, <3>1 DEF CreateRuns, Stages
    <3>3. StageFits(requests'[i])
      BY <1>1, <1>2, <3>2, AtIs DEF StageFits, Stages
    <3>4. \E s \in stored' : s.id = made + 1
      BY <3>1, <3>2
    <3>5. /\ made' \in Nat /\ made <= made' /\ made + 1 <= made' /\ made + 1 \in Nat /\ made + 1 > made
          /\ stored \subseteq stored'
      BY <1>1, <3>2
    <3>6. RulesInv'
      BY <1>1, <1>2, <3>2, <3>3, <3>4, <3>5, ServerKeepsRules
    <3> QED BY <1>1, <1>2, <3>2, <3>5, <3>6, ServerKeepsTurn
  <2> QED BY <2>1, <2>2
<1> QED BY <1>2, <1>3 DEF BlockInv, ServerKeeps, ClosedIsClosed

LEMMA DeleteRunsKeeps ==
  ASSUME BlockInv, NEW i \in 1..Len(requests), DeleteRuns(i)
  PROVE  BlockInv'
<1>1. /\ BlockShape /\ RulesInv /\ made \in Nat /\ requests[i] \in Requests /\ requests[i].rule \in Nat
      /\ requests[i].rule <= made
  <2>1. BlockShape /\ RulesInv
    BY DEF BlockInv, RulesInv
  <2>2. made \in Nat /\ requests[i] \in Requests /\ requests[i].rule <= made
    BY DEF BlockInv, RulesInv, BlockShape, IdsMade
  <2> QED BY <2>1, <2>2 DEF Requests
<1>2. PICK at \in {"missing", "removed"} :
        At(i, at, requests[i].rule) /\ at = IF stored' = stored THEN "missing" ELSE "removed"
  BY DEF DeleteRuns
<1>3. /\ requests[i].at = "sent" /\ requests[i].kind = "delete" /\ ServerKeeps
      /\ stored' = {r \in stored : r.id # requests[i].rule} /\ UNCHANGED <<made, goneElsewhere>> /\ at \in Stages
  BY DEF DeleteRuns, Stages
<1>4. StageFits(requests'[i])
  BY <1>1, <1>2, <1>3, AtIs DEF StageFits, Stages
<1>5. RulesInv'
  BY <1>1, <1>2, <1>3, <1>4, ServerKeepsRules
<1>6. ~crossed => InTurn'
  BY <1>1, <1>2, <1>3, ServerKeepsTurn
<1> QED BY <1>3, <1>5, <1>6 DEF BlockInv, ServerKeeps, ClosedIsClosed

LEMMA OtherClientKeeps ==
  ASSUME BlockInv, OtherClient
  PROVE  BlockInv'
<1>1. /\ UNCHANGED <<ui, drawnUi, latest, crossed, requests>> /\ BlockShape
      /\ made' \in Nat /\ made <= made' /\ goneElsewhere \subseteq goneElsewhere'
      /\ \A r \in stored : r \in stored' \/ r.id \in goneElsewhere'
  BY DEF OtherClient, ServerKeeps, BlockInv, RulesInv, BlockShape
<1>2. PICK n \in Nat : n = Len(requests) /\ requests \in Seq(Requests)
  BY <1>1 DEF BlockShape
<1>3. BlockShape' /\ KnownRules' = KnownRules
  BY <1>1 DEF BlockShape, KnownRules
<1>4. IdsMade'
  <2>1. \A y \in KnownRules : y \in Nat /\ y <= made'
    BY <1>1 DEF BlockInv, RulesInv, IdsMade, BlockShape, KnownRules, Uis
  <2>2. ASSUME NEW j \in 1..n PROVE requests[j].rule <= made'
    <3>1. requests[j] \in Requests /\ requests[j].rule <= made
      BY <1>2 DEF BlockInv, RulesInv, IdsMade
    <3> QED BY <1>1, <3>1 DEF Requests, BlockShape
  <2>3. latest <= made'
    BY <1>1 DEF BlockInv, RulesInv, IdsMade, BlockShape
  <2> QED BY <1>1, <1>2, <1>3, <2>1, <2>2, <2>3 DEF IdsMade
<1>5. StagesFit'
  BY <1>1 DEF BlockInv, RulesInv, StagesFit, StageFits
<1>6. ASSUME NEW j \in 1..n, requests[j].at = "created" PROVE News(j)'
  BY <1>1, <1>2, <1>3, <1>6 DEF BlockInv, RulesInv, CreatedIsNews, News
<1>7. RecentStands'
  BY <1>1 DEF BlockInv, RulesInv, RecentStands, Stands
<1>8. ClosedIsClosed' /\ (~crossed' => InTurn')
  BY <1>1 DEF BlockInv, ClosedIsClosed, InTurn, Alone
<1> QED BY <1>1, <1>2, <1>3, <1>4, <1>5, <1>6, <1>7, <1>8 DEF BlockInv, RulesInv, CreatedIsNews

\* The other calls are in flight still, each once.
OthersFly(i) ==
    /\ \A j \in 1..Len(requests') : \E k \in 1..Len(requests) : k # i /\ requests'[j] = requests[k]
    /\ \A k \in 1..Len(requests) : k # i => \E j \in 1..Len(requests') : requests'[j] = requests[k]
    /\ \A j, l \in 1..Len(requests') : j # l =>
          \E k, m \in 1..Len(requests) : k # m /\ requests'[j] = requests[k] /\ requests'[l] = requests[m]

LEMMA EndsIs ==
  ASSUME BlockShape, NEW i \in 1..Len(requests), NEW x \in Nat, Ends(i, x)
  PROVE  /\ ui' \in Uis /\ ui'.recent = x /\ ui'.prompt = ui.prompt /\ ui'.picker \in {ui.picker, Closed}
         /\ requests' \in Seq(Requests) /\ OthersFly(i)
         /\ UNCHANGED <<stored, made, drawnUi>> /\ drawnUi = ui
         /\ Len(requests) = 1 => requests' = <<>>
<1>1. PICK n \in Nat : n = Len(requests) /\ i \in 1..n /\ requests \in Seq(Requests)
  BY DEF BlockShape
<1>2. /\ requests' \in Seq(Requests) /\ Len(requests') = n - 1
      /\ \A j \in 1..(n - 1) : requests'[j] = IF j < i THEN requests[j] ELSE requests[j + 1]
  BY <1>1, RemoveAtIs DEF Ends
<1>3. OthersFly(i)
  <2> DEFINE at(j) == IF j < i THEN j ELSE j + 1
  <2>1. \A j \in 1..(n - 1) : at(j) \in 1..n /\ at(j) # i /\ requests'[j] = requests[at(j)]
    BY <1>1, <1>2
  <2>2. \A j, l \in 1..(n - 1) : j # l => at(j) # at(l)
    BY <1>1
  <2>3. ASSUME NEW k \in 1..n, k # i PROVE \E j \in 1..(n - 1) : requests'[j] = requests[k]
    <3>1. CASE k < i
      <4>1. k \in 1..(n - 1) /\ at(k) = k
        BY <1>1, <3>1
      <4> QED BY <2>1, <4>1
    <3>2. CASE k > i
      <4>1. k - 1 \in 1..(n - 1) /\ at(k - 1) = k
        BY <1>1, <3>2
      <4> QED BY <2>1, <4>1
    <3> QED BY <1>1, <2>3, <3>1, <3>2
  <2>4. ASSUME NEW j \in 1..(n - 1), NEW l \in 1..(n - 1), j # l
        PROVE  \E k, m \in 1..n : k # m /\ requests'[j] = requests[k] /\ requests'[l] = requests[m]
    <3>1. at(j) \in 1..n /\ at(l) \in 1..n /\ at(j) # at(l) /\ requests'[j] = requests[at(j)] /\ requests'[l] = requests[at(l)]
      BY <2>1, <2>2, <2>4
    <3> HIDE DEF at
    <3> QED BY <3>1
  <2>5. \A j \in 1..(n - 1) : \E k \in 1..n : k # i /\ requests'[j] = requests[k]
    BY <2>1
  <2> HIDE DEF at
  <2> QED BY <1>1, <1>2, <2>3, <2>4, <2>5 DEF OthersFly
<1>4. ui' \in Uis /\ ui'.recent = x /\ ui'.prompt = ui.prompt /\ ui'.picker \in {ui.picker, Closed}
  <2>1. ui \in Uis /\ Closed \in Pickers
    BY DEF BlockShape, Closed, Pickers
  <2>2. CASE requests[i].gone
    <3>1. ui' = [ui EXCEPT !.recent = x]
      BY <2>2 DEF Ends
    <3> QED BY <2>1, <3>1 DEF Uis
  <2>3. CASE ~requests[i].gone /\ requests[i].kind = "picker"
    <3>1. ui' = [ui EXCEPT !.recent = x, !.picker = Closed]
      BY <2>3 DEF Ends
    <3> QED BY <2>1, <3>1 DEF Uis
  <2>4. CASE ~requests[i].gone /\ requests[i].kind # "picker"
    <3>1. ui' = [ui EXCEPT !.recent = x, !.busy = FALSE]
      BY <2>4 DEF Ends
    <3> QED BY <2>1, <3>1 DEF Uis
  <2> QED BY <2>2, <2>3, <2>4
<1>5. UNCHANGED <<stored, made, drawnUi>> /\ drawnUi = ui
  BY DEF Ends
<1> QED BY <1>1, <1>2, <1>3, <1>4, <1>5

LEMMA EndsKeepsRules ==
  ASSUME RulesInv, NEW i \in 1..Len(requests), NEW x \in Nat, Ends(i, x), x <= made,
         goneElsewhere \subseteq goneElsewhere', crossed' = crossed, latest' \in Nat, latest' <= made,
         x # NoRule => Stands(x)',
         \A j \in 1..Len(requests) : j # i /\ requests[j].at = "created" => requests[j].rule # x
  PROVE  RulesInv'
<1>0. BlockShape
  BY DEF RulesInv
<1>1. /\ ui' \in Uis /\ ui'.recent = x /\ ui'.prompt = ui.prompt
      /\ requests' \in Seq(Requests) /\ OthersFly(i)
      /\ UNCHANGED <<stored, made, drawnUi>>
  BY <1>0, EndsIs
<1>2. PICK n \in Nat, m \in Nat : n = Len(requests) /\ m = Len(requests') /\ i \in 1..n
  BY <1>0, <1>1 DEF BlockShape
<1>3. KnownRules' \subseteq KnownRules \cup {x}
  BY <1>1 DEF KnownRules
<1>4. BlockShape'
  BY <1>0, <1>1 DEF BlockShape
<1>5. IdsMade'
  <2>1. \A y \in KnownRules' : y <= made
    BY <1>3 DEF RulesInv, IdsMade
  <2>2. \A j \in 1..m : requests'[j].rule <= made
    BY <1>1, <1>2 DEF OthersFly, RulesInv, IdsMade
  <2> QED BY <1>1, <1>2, <2>1, <2>2 DEF IdsMade
<1>6. StagesFit'
  BY <1>1, <1>2 DEF OthersFly, RulesInv, StagesFit, StageFits
<1>7. ASSUME NEW j \in 1..m, requests'[j].at = "created" PROVE News(j)'
  <2>1. PICK k \in 1..n : k # i /\ requests'[j] = requests[k]
    BY <1>1, <1>2 DEF OthersFly
  <2>2. News(k) /\ requests[k].rule # x
    BY <1>2, <1>7, <2>1 DEF RulesInv, CreatedIsNews
  <2>3. ASSUME NEW l \in 1..m, l # j PROVE requests'[l].rule # requests'[j].rule
    <3>1. PICK o \in 1..n, p \in 1..n : o # p /\ requests'[j] = requests[o] /\ requests'[l] = requests[p]
      BY <1>1, <1>2, <2>3 DEF OthersFly
    <3>2. News(o)
      BY <1>2, <1>7, <3>1 DEF RulesInv, CreatedIsNews
    <3> QED BY <1>2, <3>1, <3>2 DEF News
  <2>4. requests'[j].rule \notin KnownRules'
    BY <1>3, <2>1, <2>2 DEF News
  <2> QED BY <1>1, <1>2, <2>1, <2>2, <2>3, <2>4 DEF News
<1>8. RecentStands'
  BY <1>1 DEF RecentStands
<1> QED BY <1>2, <1>4, <1>5, <1>6, <1>7, <1>8 DEF RulesInv, CreatedIsNews

LEMMA EndsKeepsTurn ==
  ASSUME BlockInv, NEW i \in 1..Len(requests), NEW x \in Nat, Ends(i, x), latest' = x, ~crossed
  PROVE  InTurn'
<1>1. InTurn /\ BlockShape /\ Closed.step = "closed"
  BY DEF BlockInv, RulesInv, Closed
<1>2. PICK q \in Requests : requests = <<q>> /\ Alone(q)
  <2>1. requests # <<>>
    BY <1>1 DEF BlockShape
  <2> QED BY <1>1, <2>1 DEF InTurn
<1>3. Len(requests) = 1
  BY <1>2
<1>4. /\ ui'.recent = x /\ ui'.prompt = ui.prompt /\ ui'.picker \in {ui.picker, Closed}
      /\ drawnUi' = ui /\ drawnUi = ui /\ requests' = <<>>
  BY <1>1, <1>3, EndsIs
<1>5. ui.prompt = NoRule
  BY <1>2 DEF Alone
<1> QED BY <1>1, <1>4, <1>5 DEF InTurn

LEMMA EndsCloses ==
  ASSUME BlockInv, NEW i \in 1..Len(requests), NEW x \in Nat, Ends(i, x)
  PROVE  ClosedIsClosed'
<1>1. ui'.picker \in {ui.picker, Closed} /\ drawnUi' = drawnUi
  BY EndsIs DEF BlockInv, RulesInv
<1> QED BY <1>1 DEF BlockInv, ClosedIsClosed

\* The call there is, where calls do not overlap.
LEMMA OnlyCall ==
  ASSUME BlockInv, ~crossed, NEW i \in 1..Len(requests)
  PROVE  Alone(requests[i]) /\ ui.recent = latest
<1>1. InTurn /\ BlockShape
  BY DEF BlockInv, RulesInv
<1>2. requests # <<>>
  BY <1>1 DEF BlockShape
<1>3. PICK q \in Requests : requests = <<q>> /\ Alone(q)
  BY <1>1, <1>2 DEF InTurn
<1>4. requests[i] = q
  BY <1>3
<1> QED BY <1>1, <1>3, <1>4 DEF InTurn

LEMMA CreatedAnsweredKeeps ==
  ASSUME BlockInv, NEW i \in 1..Len(requests), CreatedAnswered(i)
  PROVE  BlockInv'
<1>1. BlockShape /\ RulesInv /\ requests[i] \in Requests
  BY DEF BlockInv, RulesInv, BlockShape
<1>2. PICK x \in Nat : x = requests[i].rule
  BY <1>1 DEF Requests
<1>3. /\ requests[i].at = "created" /\ Ends(i, x) /\ latest' = IF latest < x THEN x ELSE latest
      /\ UNCHANGED <<crossed, goneElsewhere>>
  BY <1>2 DEF CreatedAnswered, Remembers
<1>4. News(i) /\ x <= made /\ latest <= made /\ latest \in Nat
  BY <1>2, <1>3 DEF BlockInv, RulesInv, CreatedIsNews, IdsMade, BlockShape
<1>5. RulesInv'
  <2>1. Stands(x)'
    <3>1. stored' = stored
      BY <1>1, <1>3, EndsIs
    <3> QED BY <1>2, <1>3, <1>4, <3>1 DEF News, Stands
  <2>2. \A j \in 1..Len(requests) : j # i => requests[j].rule # x
    BY <1>2, <1>4 DEF News
  <2> QED BY <1>1, <1>3, <1>4, <2>1, <2>2, EndsKeepsRules
<1>6. ASSUME ~crossed PROVE InTurn'
  <2>1. latest < x
    BY <1>2, <1>3, <1>6, OnlyCall DEF Alone
  <2> QED BY <1>3, <1>6, <2>1, EndsKeepsTurn
<1> QED BY <1>3, <1>5, <1>6, EndsCloses DEF BlockInv

LEMMA DeleteAnsweredKeeps ==
  ASSUME BlockInv, NEW i \in 1..Len(requests), DeleteAnswered(i)
  PROVE  BlockInv'
<1>1. BlockShape /\ RulesInv /\ requests[i] \in Requests /\ NoRule \in Nat
  BY DEF BlockInv, RulesInv, BlockShape, NoRule
<1>2. /\ requests[i].at \in {"removed", "missing"} /\ Ends(i, NoRule)
      /\ latest' = IF latest = requests[i].rule THEN NoRule ELSE latest
      /\ UNCHANGED <<crossed, goneElsewhere>>
  BY DEF DeleteAnswered, Forgets
<1>3. RulesInv'
  <2>1. NoRule <= made /\ latest' \in Nat /\ latest' <= made
    BY <1>1, <1>2 DEF RulesInv, BlockShape, IdsMade, NoRule
  <2>2. \A j \in 1..Len(requests) : j # i /\ requests[j].at = "created" => requests[j].rule # NoRule
    BY DEF BlockInv, RulesInv, CreatedIsNews, News
  <2> QED BY <1>1, <1>2, <2>1, <2>2, EndsKeepsRules
<1>4. ASSUME ~crossed PROVE InTurn'
  <2>1. requests[i].kind = "delete"
    BY <1>2 DEF BlockInv, RulesInv, StagesFit, StageFits
  <2>2. latest' = NoRule
    BY <1>2, <1>4, <2>1, OnlyCall DEF Alone
  <2> QED BY <1>1, <1>2, <1>4, <2>2, EndsKeepsTurn
<1> QED BY <1>1, <1>2, <1>3, <1>4, EndsCloses DEF BlockInv

LEMMA EndsWithoutKeeps ==
  ASSUME BlockInv, NEW i \in 1..Len(requests), EndsWithout(i)
  PROVE  BlockInv'
<1>1. BlockShape /\ RulesInv /\ ui.recent \in Nat /\ ui.recent <= made /\ latest \in Nat /\ latest <= made
  BY DEF BlockInv, RulesInv, BlockShape, Uis, IdsMade, KnownRules
<1>2. /\ Ends(i, ui.recent) /\ UNCHANGED <<latest, crossed>>
      /\ goneElsewhere' = IF requests[i].at = "removed" THEN goneElsewhere \cup {requests[i].rule} ELSE goneElsewhere
  BY DEF EndsWithout
<1>3. stored' = stored /\ OthersFly(i)
  BY <1>1, <1>2, EndsIs
<1>4. ASSUME ui.recent # NoRule PROVE \E r \in {ui.recent} : Stands(r)'
  <2>1. Stands(ui.recent)
    BY <1>1, <1>4 DEF RulesInv, RecentStands
  <2>2. ASSUME NEW k \in 1..Len(requests), requests[k].kind = "delete", requests[k].at = "removed",
               requests[k].rule = ui.recent
        PROVE  \E r \in {ui.recent} : Stands(r)'
    <3>1. CASE k = i
      BY <1>2, <2>2, <3>1 DEF Stands
    <3>2. CASE k # i
      <4>1. PICK j \in 1..Len(requests') : requests'[j] = requests[k]
        BY <1>3, <3>2 DEF OthersFly
      <4> QED BY <2>2, <4>1 DEF Stands
    <3> QED BY <3>1, <3>2
  <2> QED BY <1>2, <1>3, <2>1, <2>2 DEF Stands
<1>5. PICK x \in Nat : x = ui.recent
  BY <1>1
<1>6. RulesInv'
  <2>1. x # NoRule => Stands(x)'
    BY <1>4, <1>5
  <2>2. \A j \in 1..Len(requests) : j # i /\ requests[j].at = "created" => requests[j].rule # x
    BY <1>5 DEF BlockInv, RulesInv, CreatedIsNews, News, KnownRules
  <2>3. goneElsewhere \subseteq goneElsewhere' /\ Ends(i, x) /\ x <= made /\ latest' \in Nat /\ latest' <= made
    BY <1>1, <1>2, <1>5
  <2> QED BY <1>1, <1>2, <2>1, <2>2, <2>3, EndsKeepsRules
<1>7. ASSUME ~crossed PROVE InTurn'
  <2>1. Ends(i, x) /\ latest' = x
    BY <1>2, <1>5, <1>7, OnlyCall
  <2> QED BY <1>7, <2>1, EndsKeepsTurn
<1> QED BY <1>1, <1>2, <1>6, <1>7, EndsCloses DEF BlockInv

LEMMA BlockSteps ==
  ASSUME BlockInv, [BlockNext]_blockVars
  PROVE  BlockInv'
<1>1. DOMAIN requests = 1..Len(requests)
  BY DEF BlockInv, RulesInv, BlockShape
<1>2. CASE UNCHANGED blockVars
  BY <1>2 DEF blockVars, BlockInv, RulesInv, BlockShape, IdsMade, KnownRules, StagesFit, StageFits, CreatedIsNews,
              News, RecentStands, Stands, ClosedIsClosed, InTurn, Alone
<1>3. CASE BlockNext
  <2>1. CASE PickerChoose \/ PreviewSettles
    BY <2>1, PickerStepKeeps DEF PickerChoose, PreviewSettles
  <2>2. CASE KeyNo
    BY <2>2, PromptCloses DEF KeyNo
  <2> QED BY <1>1, <1>3, <2>1, <2>2, BlockRenderKeeps, KeyUnsubscribeKeeps, KeyBlockKeeps, KeyUndoRuleKeeps, KeyYesKeeps,
             KeyLeaveKeeps, PickerCancelKeeps, PickerSaveKeeps, MatchFindsKeeps, CreateRunsKeeps, DeleteRunsKeeps,
             CreatedAnsweredKeeps, DeleteAnsweredKeeps, EndsWithoutKeeps, OtherClientKeeps DEF BlockNext
<1> QED BY <1>2, <1>3

LEMMA BlockHolds ==
  ASSUME BlockInv
  PROVE  OffersLatest /\ OfferStands
<1>1. DOMAIN requests = 1..Len(requests)
  BY DEF BlockInv, RulesInv, BlockShape
<1>2. OffersLatest
  BY DEF BlockInv, InTurn, OffersLatest
<1>3. OfferStands
  BY <1>1 DEF BlockInv, RulesInv, RecentStands, Stands, OfferStands
<1> QED BY <1>2, <1>3

----------------------------------------------------------------------------
(* All screens.                                                            *)

TuiInv == EditInv /\ ReclassifyInv /\ QueueInv /\ BlockInv /\ MailboxInv /\ SuggestionsInv

\* A step of one screen is a step of it, or none, for each of the others.
LEMMA OneScreenMoves ==
  ASSUME [MCNext]_AllVars
  PROVE  /\ [EditNext]_editVars /\ [ReclassifyNext]_reclassifyVars /\ [QueueNext]_queueVars
         /\ [BlockNext]_blockVars /\ [MailboxNext]_mailboxVars /\ [SuggestionsNext]_suggestionsVars
BY DEF MCNext, AllVars

LEMMA TuiSteps ==
  ASSUME TuiInv, [MCNext]_AllVars
  PROVE  TuiInv'
BY OneScreenMoves, EditSteps, ReclassifyNextInv, QueueSteps, BlockSteps, MailboxNextInv, SuggestionsNextInv DEF TuiInv

LEMMA TuiStarts ==
  ASSUME MCInit
  PROVE  TuiInv
BY EditStarts, ReclassifyInitInv, QueueStarts, BlockStarts, MailboxInitInv, SuggestionsInitInv DEF MCInit, TuiInv

LEMMA TuiHolds == MCSpec => []TuiInv
BY TuiStarts, TuiSteps, PTL DEF MCSpec

\* One write is in flight at a time from the rule list, each confirm of the
\* mailbox log writes once, a panel of suggestions starts one round, and a
\* family ticked off has its rules: for any rules, filters and families, and
\* however the keys repeat.
THEOREM WrittenAsConfirmed == MCSpec => []WritesAsConfirmed
<1>1. TuiInv => WritesAsConfirmed
  BY EditHolds, MailboxHolds, SuggestionsHold DEF TuiInv, WritesAsConfirmed
<1> QED BY <1>1, TuiHolds, PTL

\* A reclassification applies what its dry run showed, its cost agreed to by
\* a second key, whichever calls fail and whatever others write.
THEOREM AppliedAsShown == MCSpec => []AppliesWhatWasConfirmed
<1>1. TuiInv => AppliesWhatWasConfirmed
  BY ReclassifyHolds DEF TuiInv, AppliesWhatWasConfirmed
<1> QED BY <1>1, TuiHolds, PTL

\* The items and rows shown are of the title above them, and what says that
\* it loads has a load coming, for any number of loads in flight.
THEOREM ListsAreCurrent == MCSpec => []ShownIsCurrent
<1>1. TuiInv => ShownIsCurrent
  BY QueueHolds, MailboxHolds DEF TuiInv, ShownIsCurrent
<1> QED BY <1>1, TuiHolds, PTL

\* The rule that z offers to take back is the newest one made here, and
\* stands, for any senders and any number of rules and calls.
THEOREM OffersStand == MCSpec => []UndoOffers
<1>1. TuiInv => UndoOffers
  BY BlockHolds DEF TuiInv, UndoOffers
<1> QED BY <1>1, TuiHolds, PTL

\* A save changes no field the user left alone, unless another client wrote
\* between the read and the write of update.
THEOREM NoneOverwritten == MCSpec => NoLostUpdate
<1>1. TuiInv /\ [MCNext]_AllVars =>
        [\A i \in DOMAIN calls : Writes(i) =>
            \/ calls[i].raced
            \/ Differing(server, server') \subseteq
                   IF calls[i].kind = "edit" THEN Differing(calls[i].from, draft) ELSE {"enabled"}]_editVars
  BY OneScreenMoves, NothingLost DEF TuiInv
<1> QED BY <1>1, TuiHolds, PTL DEF MCSpec, NoLostUpdate

\* An edit that lets a rule move mail was confirmed under the warning.
THEOREM WarnedBefore == MCSpec => WarnedBeforeTrash
<1>1. TuiInv /\ [MCNext]_AllVars =>
        [\A i \in DOMAIN calls :
            Writes(i) /\ calls[i].kind = "edit" /\ ~calls[i].raced /\ calls[i].from = server =>
                LET moves(r) == r.action = "trash" /\ r.enabled IN
                moves(server') /\ (~moves(server) \/ server.pattern # server'.pattern) =>
                    calls[i].warned]_editVars
  <2> SUFFICES ASSUME TuiInv, [MCNext]_AllVars, NEW i \in DOMAIN calls,
                      Writes(i), calls[i].kind = "edit", ~calls[i].raced, calls[i].from = server,
                      server'.action = "trash" /\ server'.enabled,
                      ~(server.action = "trash" /\ server.enabled) \/ server.pattern # server'.pattern
               PROVE  calls[i].warned
    OBVIOUS
  <2> QED BY OneScreenMoves, Warned DEF TuiInv
<1> QED BY <1>1, TuiHolds, PTL DEF MCSpec, WarnedBeforeTrash
====
