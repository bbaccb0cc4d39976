----------------------------- MODULE TuiMailbox -----------------------------
(***************************************************************************)
(* The audit log in the terminal (MailboxActionsScreen.tsx,                *)
(* mailbox-actions-view.ts): rows under a status filter, refresh, the dry  *)
(* run of an apply, and the undo of a row or a reconcile after y.          *)
(*                                                                         *)
(* What the server does is MailboxSystem's matter: here a write is one     *)
(* more revision of the log, and rows are known by the filter and the      *)
(* revision they were fetched at.                                          *)
(***************************************************************************)
EXTENDS Naturals

CONSTANTS
    Filters,    \* STATUS_FILTERS
    AllFilter,  \* undefined: the filter at the start
    NoLog,
    MaxRevision \* bound: writes to the log

ASSUME FilterAssumption == AllFilter \in Filters

VARIABLES
    revision,  \* of the log on the server
    log,       \* what the screen shows
    drawnLog,  \* the same, as it was drawn last
    job,       \* the call that holds busyRef
    opening,   \* the load made when the screen opened, which holds nothing
    own,       \* revision after the last write of this screen
    asked,     \* confirms opened
    written    \* undos and reconciles sent

mailboxVars == <<revision, log, drawnLog, job, opening, own, asked, written>>

Fetched(filter, at) == [filter |-> filter, at |-> at]

\* passed: another call has been made since, which only the load at the
\* start lets happen.
NoJob == [kind |-> "none", at |-> "none", rows |-> Fetched(NoLog, 0), passed |-> FALSE]
Fetching(kind, filter) == [kind |-> kind, at |-> "sent", rows |-> Fetched(filter, 0), passed |-> FALSE]

-----------------------------------------------------------------------------

\* late: the rows are those of the load made at the start, answered after a
\* later one.
MailboxInit ==
    /\ revision = 0
    /\ log = [filter |-> AllFilter, rows |-> Fetched(NoLog, 0), late |-> FALSE, error |-> FALSE,
              confirm |-> "none", panel |-> FALSE, busy |-> FALSE]
    /\ drawnLog = log
    /\ job = NoJob
    /\ opening = Fetching("load", AllFilter)
    /\ own = 0 /\ asked = 0 /\ written = 0

MailboxRender ==
    /\ drawnLog # log
    /\ drawnLog' = log
    /\ UNCHANGED <<revision, log, job, opening, own, asked, written>>

BusyAsDrawn == drawnLog.busy

\* busyRef, set at once.
Busy == job.kind # "none"

LogKeeps == UNCHANGED <<revision, drawnLog, own>>

\* Keys outside of a confirm, while no call is in flight.
Idle == drawnLog.confirm = "none" /\ ~drawnLog.busy /\ ~Busy
OnLog == Idle /\ ~drawnLog.panel

Run(kind, filter) ==
    /\ job' = Fetching(kind, filter)
    /\ opening' = [opening EXCEPT !.passed = opening # NoJob]

\* r, and f with the next filter.
KeyRefresh(filter) ==
    /\ OnLog
    /\ log' = [log EXCEPT !.filter = filter, !.busy = TRUE]
    /\ Run("load", filter)
    /\ LogKeeps /\ UNCHANGED <<asked, written>>

KeyPreview ==
    /\ OnLog
    /\ log' = [log EXCEPT !.busy = TRUE]
    /\ Run("preview", drawnLog.filter)
    /\ LogKeeps /\ UNCHANGED <<asked, written>>

KeyClosePanel ==
    /\ Idle /\ drawnLog.panel
    /\ log' = [log EXCEPT !.panel = FALSE]
    /\ LogKeeps /\ UNCHANGED <<job, opening, asked, written>>

\* c, and u on a move to Trash that succeeded.
KeyAsk(kind) ==
    /\ OnLog
    /\ kind = "undo" => drawnLog.rows.filter # NoLog
    /\ log' = [log EXCEPT !.confirm = kind]
    /\ asked' = IF log.confirm = "none" THEN asked + 1 ELSE asked
    /\ asked < MaxRevision + 2
    /\ LogKeeps /\ UNCHANGED <<job, opening, written>>

\* y, on the confirm as it was drawn.
KeyRun ==
    /\ drawnLog.confirm # "none" /\ ~Busy
    /\ log' = [log EXCEPT !.confirm = "none", !.busy = TRUE]
    /\ Run(drawnLog.confirm, drawnLog.filter)
    /\ written' = written + 1
    /\ LogKeeps /\ UNCHANGED asked

KeyDecline ==
    /\ drawnLog.confirm # "none" /\ ~Busy
    /\ log' = [log EXCEPT !.confirm = "none"]
    /\ LogKeeps /\ UNCHANGED <<job, opening, asked, written>>

-----------------------------------------------------------------------------

ServerSide == UNCHANGED <<log, drawnLog, asked, written>>

\* The undo or the reconcile takes effect, or is refused.
WriteRuns ==
    /\ job.kind \in {"undo", "reconcile"} /\ job.at = "sent"
    /\ job' = [job EXCEPT !.at = "ran"]
    /\ \/ /\ revision < MaxRevision
          /\ revision' = revision + 1
          /\ own' = revision'
       \/ UNCHANGED <<revision, own>>
    /\ UNCHANGED opening
    /\ ServerSide

\* The hourly job, another terminal, or a write of this one given up before.
OtherWrite ==
    /\ revision < MaxRevision
    /\ revision' = revision + 1
    /\ UNCHANGED <<own, job, opening>>
    /\ ServerSide

LogRead(j) == [j EXCEPT !.at = "read", !.rows = Fetched(j.rows.filter, revision)]

JobReads ==
    /\ job.kind = "load" /\ job.at = "sent"
    /\ job' = LogRead(job)
    /\ UNCHANGED <<revision, own, opening>>
    /\ ServerSide

OpeningReads ==
    /\ opening.kind = "load" /\ opening.at = "sent"
    /\ opening' = LogRead(opening)
    /\ UNCHANGED <<revision, own, job>>
    /\ ServerSide

-----------------------------------------------------------------------------

Answers == drawnLog = log /\ UNCHANGED <<revision, drawnLog, own, asked, written>>

\* The call is over and the rows stay.
LoadedOnSuccess(ran) == IF ran THEN Fetching("load", log.filter) ELSE NoJob

\* The log is loaded whatever the answer was.
Loaded(ran) == Fetching("load", log.filter)

\* The answer to an undo or a reconcile, or none: the log is loaded under
\* the same busyRef.
WriteAnswered ==
    /\ job.kind \in {"undo", "reconcile"}
    /\ Answers
    /\ \E answered \in BOOLEAN :
          /\ answered => job.at = "ran"
          /\ job' = Loaded(answered)
          /\ log' = [log EXCEPT !.panel = answered /\ job.kind = "reconcile",
                                !.busy = job'.kind # "none"]
    /\ UNCHANGED opening

PreviewAnswered ==
    /\ job.kind = "preview"
    /\ Answers
    /\ job' = NoJob
    /\ \E answered \in BOOLEAN : log' = [log EXCEPT !.panel = answered, !.busy = FALSE]
    /\ UNCHANGED opening

\* A load that fails leaves the rows, with an error under them.
RefreshAnswered ==
    /\ job.kind = "load"
    /\ Answers
    /\ job' = NoJob
    /\ log' = IF job.at = "read" THEN [log EXCEPT !.rows = job.rows, !.late = FALSE, !.error = FALSE, !.busy = FALSE]
                                 ELSE [log EXCEPT !.error = TRUE, !.busy = FALSE]
    /\ UNCHANGED opening

\* Without an effect of its own to cancel it.
OpeningAnswered ==
    /\ opening.kind = "load"
    /\ Answers
    /\ opening' = NoJob
    /\ log' = IF opening.at = "read"
              THEN [log EXCEPT !.rows = opening.rows, !.late = opening.passed, !.error = FALSE]
              ELSE [log EXCEPT !.error = TRUE]
    /\ UNCHANGED job

MailboxNext ==
    \/ MailboxRender
    \/ \E f \in Filters : KeyRefresh(f)
    \/ KeyPreview \/ KeyClosePanel
    \/ \E kind \in {"undo", "reconcile"} : KeyAsk(kind)
    \/ KeyRun \/ KeyDecline
    \/ WriteRuns \/ OtherWrite \/ JobReads \/ OpeningReads
    \/ WriteAnswered \/ PreviewAnswered \/ RefreshAnswered \/ OpeningAnswered

MailboxSpec == MailboxInit /\ [][MailboxNext]_mailboxVars

-----------------------------------------------------------------------------

Resting == job = NoJob /\ ~log.error /\ ~log.late /\ log.rows.filter # NoLog

\* At rest the rows are of the filter in the title, and no older than the
\* last undo or reconcile of this screen that had run when it was answered
\* or given up.  The exception
\* is the load made when the screen opened: r, f and the writes do not wait
\* for it, and it may replace the rows of a later one.
RowsAreCurrent ==
    Resting /\ drawnLog = log => log.rows.filter = log.filter /\ log.rows.at >= own

\* A y writes once for each confirm that was opened, however often it
\* arrives before the next render.
OneWritePerConfirm == written <= asked
=============================================================================
