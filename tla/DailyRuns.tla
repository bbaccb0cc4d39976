------------------------------ MODULE DailyRuns ------------------------------
(***************************************************************************)
(* The scheduled runs of scripts/daily-digest.sh: an hourly sync and a     *)
(* daily digest under launchd, and stages started by hand, each a list of  *)
(* steps against the API of which every one may fail on its own.  The      *)
(* digest stage captures actionable mail in qi, once each, by means of the *)
(* file captured-ids.txt.                                                  *)
(*                                                                         *)
(* Time is the day it is, and of the pipeline there is how far each mail   *)
(* has come.  What a request does inside is the matter of other modules:   *)
(* the breaker, read at any time, is open or closed, and the digest of a   *)
(* day counts any of its classified mail as actionable.                    *)
(***************************************************************************)
EXTENDS Integers, Sequences, FiniteSets, SequencesExt

CONSTANTS
    Mails,
    AccountOf,  \* the account of each mail
    Jobs,       \* a launchd job, or a shell
    StagesOf,   \* the stages each job runs
    NoMail,
    MaxDay,     \* bound: days
    MaxStarts   \* bound: runs started

Accounts == {AccountOf[m] : m \in Mails}

ASSUME RunsAssumption ==
    /\ DOMAIN AccountOf = Mails /\ IsFiniteSet(Mails)
    /\ StagesOf \in [Jobs -> SUBSET {"ingest", "classify", "sync", "digest", "all"}]
    /\ NoMail \notin Mails
    /\ MaxDay \in Nat /\ MaxStarts \in Nat

VARIABLES
    day,
    mailbox,    \* where each mail is, and the day it was received
    runs,       \* what each job is doing
    captured,   \* captured-ids.txt
    tasks,      \* qi captures made for each mail
    starts,     \* runs started
    doubtful,   \* mails whose capture died unrecorded or ran beside another
    backlog     \* mails a run left because the breaker was open

dailyVars == <<day, mailbox, runs, captured, tasks, starts, doubtful, backlog>>

Mail == [at : {"away", "server", "stored", "parsed", "normalized", "classified"},
         received : 0..MaxDay]

\* A step, with the account it syncs or the day it is about.
Do(step, of) == [step |-> step, of |-> of]
Simple(step) == Do(step, 0)

Ingest == <<Simple("accounts"), Simple("parse"), Simple("normalize")>>
Gate == <<Simple("gate")>>
Digest == <<Simple("days")>>
Plan == [ingest |-> Ingest, classify |-> Gate, sync |-> Ingest \o Gate \o <<Simple("apply")>>,
         digest |-> Digest, all |-> Ingest \o Gate \o <<Simple("apply")>> \o Digest]

\* While it ingests, due: what was on the server when the run began; broken:
\* the steps that failed; refused: mail a step that was answered did not do.
\* After, met: the backlog a complete classification began with; rows: emails
\* of the digest still to be captured; pending: captured, not yet recorded.
Idle == [on |-> FALSE, todo |-> <<>>, failed |-> FALSE,
         broken |-> {}, due |-> {}, refused |-> {}, met |-> {}, rows |-> {}, pending |-> NoMail]

-----------------------------------------------------------------------------

DailyInit ==
    /\ day = 0
    /\ mailbox = [m \in Mails |-> [at |-> "away", received |-> 0]]
    /\ runs = [j \in Jobs |-> Idle]
    /\ captured = {}
    /\ tasks = [m \in Mails |-> 0]
    /\ starts = 0
    /\ doubtful = {}
    /\ backlog = {}

MailAt(m, at) == mailbox[m].at = at

\* The API healthy, or the run exits at once.
StartRun(j, stage) ==
    /\ ~runs[j].on /\ starts < MaxStarts
    /\ starts' = starts + 1
    /\ runs' = [runs EXCEPT ![j] = [Idle EXCEPT !.on = TRUE, !.todo = Plan[stage],
           !.due = IF Head(Plan[stage]) = Simple("accounts") THEN {m \in Mails : ~MailAt(m, "away")} ELSE {}]]
    /\ UNCHANGED <<day, mailbox, captured, tasks, doubtful, backlog>>

Head1(j) == Head(runs[j].todo)
At(j, step) == runs[j].on /\ runs[j].todo # <<>> /\ Head1(j).step = step

\* set -e would end the run.
RestOrNone(j, failed) == IF failed THEN <<>> ELSE Tail(runs[j].todo)

\* step(): the failure is noted, and the rest is run all the same.
Rest(j, failed) == Tail(runs[j].todo)

\* FAILED is set in the subshell of a pipeline.
ForgetsFailure(j, failed) == runs[j].failed

\* FAILED, the exit status in the end.
Failed(j, failed) == runs[j].failed \/ failed

\* The run goes on to what is left, with more steps before it.
Passes(j, failed, more) ==
    [runs[j] EXCEPT !.todo = more \o Rest(j, failed),
                    !.failed = Failed(j, failed),
                    !.broken = IF failed /\ runs[j].due # {} THEN @ \cup {Head1(j)} ELSE @]

MovedOn(done, to) == [m \in Mails |-> IF m \in done THEN [mailbox[m] EXCEPT !.at = to] ELSE mailbox[m]]

\* A step that moves mail on.  An error may come after part of the work, and
\* an answer that is none counts the mail it could not do.
Moves(j, from, to, which) ==
    /\ LET due == {m \in which : MailAt(m, from)}
       IN \E failed \in BOOLEAN, done \in SUBSET due :
            /\ mailbox' = MovedOn(done, to)
            /\ runs' = [runs EXCEPT ![j] =
                  [Passes(j, failed, <<>>) EXCEPT !.refused = IF failed THEN @ ELSE @ \cup (due \ done)]]
    /\ UNCHANGED <<day, captured, tasks, starts, doubtful, backlog>>

-----------------------------------------------------------------------------
(* run_ingest.                                                             *)

\* Without the list nothing is synced, and what is stored is parsed still.
ListAccounts(j) ==
    /\ At(j, "accounts")
    /\ \E failed \in BOOLEAN :
          runs' = [runs EXCEPT ![j] =
                      Passes(j, failed, IF failed THEN <<>> ELSE SetToSeq({Do("sync", a) : a \in Accounts}))]
    /\ UNCHANGED <<day, mailbox, captured, tasks, starts, doubtful, backlog>>

SyncAccount(j) == At(j, "sync") /\ Moves(j, "server", "stored", {m \in Mails : AccountOf[m] = Head1(j).of})
ParseStored(j) == At(j, "parse") /\ Moves(j, "stored", "parsed", Mails)
NormalizeParsed(j) == At(j, "normalize") /\ Moves(j, "parsed", "normalized", Mails)

-----------------------------------------------------------------------------
(* run_classify and run_apply.                                             *)

\* An open breaker is no failure; one that cannot be read does not keep the
\* run from classifying.  since is yesterday, by now.
PassGate(j) ==
    /\ At(j, "gate")
    /\ \E unreadable \in BOOLEAN, open \in BOOLEAN :
          LET skips == ~unreadable /\ open IN
          /\ runs' = [runs EXCEPT ![j] =
                [Passes(j, unreadable, IF skips THEN <<>> ELSE <<Do("classify", day - 1)>>)
                    EXCEPT !.due = {}, !.broken = {}, !.refused = {}]]
          /\ backlog' = IF skips THEN backlog \cup {m \in Mails : MailAt(m, "normalized")} ELSE backlog
    /\ UNCHANGED <<day, mailbox, captured, tasks, starts, doubtful>>

\* Whatever was received since then, as far as rules and provider decide it.
ClassifyNew(j) ==
    /\ At(j, "classify")
    /\ LET new == {m \in Mails : MailAt(m, "normalized") /\ mailbox[m].received >= Head1(j).of}
       IN \E failed \in BOOLEAN, done \in SUBSET new :
            /\ mailbox' = MovedOn(done, "classified")
            /\ runs' = [runs EXCEPT ![j] =
                  [Passes(j, failed, <<>>) EXCEPT !.met = IF done = new THEN backlog ELSE {}]]
    /\ UNCHANGED <<day, captured, tasks, starts, doubtful, backlog>>

\* Live or dry, as the API says it may write: no row of the digest changes.
ApplyRules(j) == At(j, "apply") /\ Moves(j, "none", "none", {})

-----------------------------------------------------------------------------
(* run_digest_stage: yesterday's digest and today's.                       *)

DigestOf(d) == <<Do("write", d), Do("capture", d)>>

ChooseDays(j) ==
    /\ At(j, "days")
    /\ runs' = [runs EXCEPT ![j] = Passes(j, FALSE, DigestOf(day - 1) \o DigestOf(day))]
    /\ UNCHANGED <<day, mailbox, captured, tasks, starts, doubtful, backlog>>

WriteDigest(j) == At(j, "write") /\ Moves(j, "none", "none", {})

\* The digest of mail received that day.
OfDay(d) == {m \in Mails : MailAt(m, "classified") /\ mailbox[m].received = d}

ListActionable(j) ==
    /\ At(j, "capture")
    /\ \/ runs' = [runs EXCEPT ![j] = Passes(j, TRUE, <<>>)]
       \/ \E actionable \in SUBSET OfDay(Head1(j).of) :
            runs' = [runs EXCEPT ![j] = [Passes(j, FALSE, <<Simple("rows")>>) EXCEPT !.rows = actionable]]
    /\ UNCHANGED <<day, mailbox, captured, tasks, starts, doubtful, backlog>>

\* Whatever qi answered.
RecordedAnyhow(m, taken) == m

\* A capture qi refused is not recorded.
ToRecord(m, taken) == IF taken THEN m ELSE NoMail

\* No look at the file.
SeenNever(m) == FALSE

\* grep, in the file as it is by now.
Seen(m) == m \in captured

CaptureRow(j, m) ==
    /\ At(j, "rows") /\ runs[j].pending = NoMail /\ m \in runs[j].rows
    /\ IF Seen(m)
       THEN /\ runs' = [runs EXCEPT ![j].rows = @ \ {m}]
            /\ UNCHANGED <<tasks, doubtful>>
       ELSE \E taken \in BOOLEAN :
            /\ runs' = [runs EXCEPT ![j].rows = @ \ {m}, ![j].pending = ToRecord(m, taken)]
            /\ tasks' = IF taken /\ tasks[m] < 2 THEN [tasks EXCEPT ![m] = @ + 1] ELSE tasks
            /\ doubtful' = IF \E k \in Jobs : runs[k].pending = m THEN doubtful \cup {m} ELSE doubtful
    /\ UNCHANGED <<day, mailbox, captured, starts, backlog>>

\* A file that cannot be written ends the step.
RecordRow(j) ==
    /\ runs[j].on /\ runs[j].pending # NoMail
    /\ \/ /\ captured' = captured \cup {runs[j].pending}
          /\ runs' = [runs EXCEPT ![j].pending = NoMail]
          /\ UNCHANGED doubtful
       \/ /\ runs' = [runs EXCEPT ![j] = [Passes(j, TRUE, <<>>) EXCEPT !.pending = NoMail, !.rows = {}]]
          /\ doubtful' = doubtful \cup {runs[j].pending}
          /\ UNCHANGED captured
    /\ UNCHANGED <<day, mailbox, tasks, starts, backlog>>

CapturedRows(j) ==
    /\ At(j, "rows") /\ runs[j].rows = {} /\ runs[j].pending = NoMail
    /\ runs' = [runs EXCEPT ![j] = Passes(j, FALSE, <<>>)]
    /\ UNCHANGED <<day, mailbox, captured, tasks, starts, doubtful, backlog>>

EndRun(j) ==
    /\ runs[j].on /\ runs[j].todo = <<>>
    /\ runs' = [runs EXCEPT ![j] = Idle]
    /\ UNCHANGED <<day, mailbox, captured, tasks, starts, doubtful, backlog>>

RunStep(j) ==
    \/ ListAccounts(j) \/ SyncAccount(j) \/ ParseStored(j) \/ NormalizeParsed(j)
    \/ PassGate(j) \/ ClassifyNew(j) \/ ApplyRules(j)
    \/ ChooseDays(j) \/ WriteDigest(j) \/ ListActionable(j)
    \/ \E m \in Mails : CaptureRow(j, m)
    \/ RecordRow(j) \/ CapturedRows(j) \/ EndRun(j)

-----------------------------------------------------------------------------
(* Around the runs.                                                        *)

\* Shutdown, or a kill.
RunDies(j) ==
    /\ runs[j].on
    /\ runs' = [runs EXCEPT ![j] = Idle]
    /\ doubtful' = doubtful \cup ({runs[j].pending} \ {NoMail})
    /\ UNCHANGED <<day, mailbox, captured, tasks, starts, backlog>>

Arrives(m) ==
    /\ MailAt(m, "away")
    /\ mailbox' = [mailbox EXCEPT ![m].at = "server", ![m].received = day]
    /\ UNCHANGED <<day, runs, captured, tasks, starts, doubtful, backlog>>

Midnight ==
    /\ day < MaxDay
    /\ day' = day + 1
    /\ UNCHANGED <<mailbox, runs, captured, tasks, starts, doubtful, backlog>>

\* The same requests, made by hand (bound: while no run is going).
AfterIt(at) == CASE at = "server" -> "stored" [] at = "stored" -> "parsed"
               [] at = "parsed" -> "normalized" [] OTHER -> "classified"
ByHand(m) ==
    /\ \A j \in Jobs : ~runs[j].on
    /\ ~MailAt(m, "away") /\ ~MailAt(m, "classified")
    /\ mailbox' = [mailbox EXCEPT ![m].at = AfterIt(@)]
    /\ UNCHANGED <<day, runs, captured, tasks, starts, doubtful, backlog>>

\* Released and classified again: a new row, with an id not in the file.
RowReplaced(m) ==
    /\ m \in captured
    /\ captured' = captured \ {m}
    /\ doubtful' = doubtful \cup {m}
    /\ UNCHANGED <<day, mailbox, runs, tasks, starts, backlog>>

DailyNext ==
    \/ \E j \in Jobs : (\E s \in StagesOf[j] : StartRun(j, s)) \/ RunStep(j) \/ RunDies(j)
    \/ \E m \in Mails : Arrives(m) \/ ByHand(m) \/ RowReplaced(m)
    \/ Midnight

DailySpec == DailyInit /\ [][DailyNext]_dailyVars

-----------------------------------------------------------------------------

\* A run has done all it does to ingest.
Ingested(j) == runs[j].on /\ (runs[j].todo = <<>> \/ At(j, "gate"))
Usable(m) == mailbox[m].at \in {"normalized", "classified"}

\* What the file names was captured, and a mail is captured once, however
\* often a digest covers its day and a capture is refused and tried again.
\* The exceptions are a run that died, or could not write, between the capture
\* and its record, two runs at the same mail, and a classification that was
\* made anew.
CapturedOnce == \A m \in Mails :
    /\ m \in captured => tasks[m] > 0
    /\ tasks[m] <= 1 \/ m \in doubtful

\* The steps of a run a mail depends on.
StepsFor(m) == {Simple("accounts"), Do("sync", AccountOf[m]), Simple("parse"), Simple("normalize")}

\* A run carries the mail that was on the server as far as its own steps
\* allow: a failing account, or step, holds up what depends on it only, and
\* then the exit status tells; or an answer of the API counted an error.
LeftBehindIsTold ==
    \A j \in Jobs : Ingested(j) => \A m \in runs[j].due :
        \/ Usable(m) \/ m \in runs[j].refused
        \/ runs[j].failed /\ StepsFor(m) \cap runs[j].broken # {}

\* daily-digest.sh:148: "the next run after the reset time picks the backlog
\* up", the backlog being what was left because the breaker was open.
BacklogPickedUp == \A j \in Jobs : \A m \in runs[j].met : MailAt(m, "classified")
=============================================================================
