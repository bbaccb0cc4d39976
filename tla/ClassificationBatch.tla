------------------------ MODULE ClassificationBatch ------------------------
(***************************************************************************)
(* The AI half of processUnclassified, composed with the breaker: a run    *)
(* takes the emails without a classification, newest first, and asks the   *)
(* provider about one after another until the breaker opens or too many    *)
(* are rejected in a row.  Some emails the provider rejects every time.    *)
(* How rows are written, and by whom else, is ClassifyEmails' subject.     *)
(***************************************************************************)
EXTENDS AiBreaker

CONSTANTS
    LastMail,    \* the newest email there will be
    Refused,     \* the emails a healthy provider rejects
    MaxStrikes   \* MAX_CONSECUTIVE_REJECTIONS

\* A greater number is newer.
Mail == 1..LastMail

ASSUME BatchAssumption ==
    /\ LastMail \in Nat /\ Refused \subseteq Mail
    /\ MaxStrikes \in Nat \ {0}

VARIABLES
    arrived,     \* emails synced and normalized
    classified,  \* those of them with a classification
    runs         \* each caller's run of processUnclassified

batch == <<arrived, classified, runs>>
batchVars == <<vars, batch>>

Run == [at : {"idle", "gate", "next", "asking", "answered"},
        left : SUBSET Mail, strikes : 0..(MaxStrikes - 1)]
NoRun == [at |-> "idle", left |-> {}, strikes |-> 0]

\* Beside its types: the caller waits for the provider exactly while its run
\* asks about an email, and no run goes on after MaxStrikes rejections in a row.
BatchTypeOK ==
    /\ arrived \subseteq Mail /\ classified \subseteq arrived
    /\ runs \in [Callers -> Run]
    /\ \A c \in Callers : Busy(c) <=> runs[c].at = "asking"
    /\ \A c \in Callers : runs[c].at \in {"asking", "answered"} => runs[c].left # {}

BatchInit ==
    /\ Init
    /\ arrived \in SUBSET Mail
    /\ classified = {}
    /\ runs = [c \in Callers |-> NoRun]

----------------------------------------------------------------------------
OldestOf(S) == CHOOSE m \in S : \A n \in S : m <= n
NewestOf(S) == CHOOSE m \in S : \A n \in S : n <= m

AskingAbout(c) == NewestOf(runs[c].left)
Goto(c, at) == runs' = [runs EXCEPT ![c].at = at]
Stop(c) == runs' = [runs EXCEPT ![c] = NoRun]
\* The loop goes on behind the email it is at.
Continue(c, strikes) ==
    runs' = [runs EXCEPT ![c] = [at |-> "next", strikes |-> strikes,
                                 left |-> runs[c].left \ {AskingAbout(c)}]]

RunFind(c) ==
    /\ runs[c].at = "idle"
    /\ runs' = [runs EXCEPT ![c] = [NoRun EXCEPT !.at = "gate",
                                                 !.left = arrived \ classified]]
    /\ UNCHANGED <<vars, arrived, classified>>

\* getBreakerStatus: a look that takes no probe.
IsOpen(f) == f.status # "closed" /\ f.left > 0
RunGate(c) ==
    /\ runs[c].at = "gate"
    /\ IF IsOpen(file) THEN Stop(c) ELSE Goto(c, "next")
    /\ UNCHANGED <<vars, arrived, classified>>

\* The next email: classified by now (no call), or a call, or BreakerOpenError.
RunNext(c) ==
    /\ runs[c].at = "next" /\ runs[c].left # {}
    /\ \/ /\ AskingAbout(c) \in classified
          /\ Continue(c, 0) /\ UNCHANGED vars
       \/ /\ AskingAbout(c) \notin classified
          /\ Begin(c) /\ Goto(c, "asking")
       \/ /\ AskingAbout(c) \notin classified /\ ~MayAttempt(file)
          /\ Stop(c) /\ UNCHANGED vars
    /\ UNCHANGED <<arrived, classified>>

RunEnd(c) ==
    /\ runs[c].at = "next" /\ runs[c].left = {}
    /\ Stop(c)
    /\ UNCHANGED <<vars, arrived, classified>>

TooManyEarly(strikes) == strikes + 1 >= MaxStrikes
TooMany(strikes) == strikes >= MaxStrikes

RunSend(c) == Send(c) /\ UNCHANGED batch

RunAnswer(c) ==
    /\ runs[c].at = "asking"
    /\ \/ /\ Retry(c) /\ UNCHANGED runs
       \/ /\ AskingAbout(c) \notin Refused
          /\ Succeed(c) /\ Goto(c, "answered")
       \/ /\ mood = "ok" => AskingAbout(c) \in Refused
          /\ Reject(c)
          /\ LET strikes == runs[c].strikes + 1
             IN IF TooMany(strikes) THEN Stop(c) ELSE Continue(c, strikes)
       \/ /\ Fail(c) /\ Continue(c, 0)
    /\ UNCHANGED <<arrived, classified>>

\* persist: an upsert of its own, after the breaker has closed.
RunStore(c) ==
    /\ runs[c].at = "answered"
    /\ classified' = classified \cup {AskingAbout(c)}
    /\ Continue(c, 0)
    /\ UNCHANGED <<vars, arrived>>

----------------------------------------------------------------------------
RunCrash == Crash /\ runs' = [c \in Callers |-> NoRun] /\ UNCHANGED <<arrived, classified>>

\* The mail server delivers, and a sync stores, mail newer than all before.
Arrive ==
    /\ \E m \in Mail \ arrived : (\A n \in arrived : n < m) /\ arrived' = arrived \cup {m}
    /\ UNCHANGED <<vars, classified, runs>>

BatchNext ==
    \/ \E c \in Callers : \/ RunFind(c) \/ RunGate(c) \/ RunNext(c) \/ RunEnd(c)
                          \/ RunSend(c) \/ RunAnswer(c) \/ RunStore(c)
    \/ (Tick \/ ChangeMood \/ Reset) /\ UNCHANGED batch
    \/ RunCrash \/ Arrive

BatchSpec == BatchInit /\ [][BatchNext]_batchVars

RunStep(c) == \/ RunFind(c) \/ RunGate(c) \/ RunNext(c) \/ RunEnd(c)
              \/ RunSend(c) \/ RunAnswer(c) \/ RunStore(c)

\* Sleeps end, the provider answers or its request times out, and the
\* pipeline starts its next run.
FairBatchSpec ==
    /\ BatchSpec
    /\ WF_batchVars(Tick /\ UNCHANGED batch)
    /\ \A c \in Callers : WF_batchVars(RunStep(c))

----------------------------------------------------------------------------
(* Properties                                                              *)

\* "Repeatedly failing emails sink to the tail and cannot starve new mail":
\* mail newer than everything the provider rejects is classified, however many
\* it rejects, whatever opened the breaker before, wherever a run stopped.
NewMailServed ==
    <>[](mood = "ok") => \A m \in Mail \ Refused : (\A r \in Refused : r < m)
                       => (m \in arrived ~> m \in classified)

\* The mail behind a rejected email is classified too, and the breaker ends up
\* closed, with one exception: a breaker held for quota stays half open while
\* each run's probe is the same rejected email, the newest without a
\* classification, and the run ends there.  For fewer rejected than MaxStrikes.
RestServed ==
    <>[](mood = "ok") =>
        \/ <>[](file = Closed /\ arrived \subseteq classified \cup Refused)
        \/ <>[](/\ file.status = "half_open" /\ file.reason = "quota"
                /\ \E r \in (Refused \cap arrived) \ classified :
                     \A m \in arrived \ classified : m <= r)
============================================================================
