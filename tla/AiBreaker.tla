----------------------------- MODULE AiBreaker -----------------------------
(***************************************************************************)
(* Calls to the AI provider: AiProviderService.guarded with the circuit    *)
(* breaker and its state file, and the rate limiter that retries inside    *)
(* it.  One API process, whose HTTP requests make calls concurrently; it   *)
(* may die and start again, and the file survives.                         *)
(*                                                                         *)
(* Time is counted in ticks that run down: the hold left in the file, the  *)
(* sleep of each call, and the ticks since the last request answered.  A   *)
(* missing, corrupt or deleted file is Closed, as peek reads it.           *)
(***************************************************************************)
EXTENDS Integers, FiniteSets

CONSTANTS
    Callers,        \* requests that call the provider
    QuotaBase, QuotaMax, TransientHold, ProbeGuard,  \* breaker options, in ticks
    MaxFailures,    \* consecutiveFailures stops here: the backoff is at QuotaMax
    MaxRetries, MinInterval, RetryWaits,             \* rate limiter options
    QuotaHints,     \* resetAt or retryAfterMs of a quota error, 0: none
    Moods,          \* what the provider may be in
    MaxCrashes      \* how often the process may die

MoodKinds == {"ok", "odd", "quota", "down", "auth", "broken"}

ASSUME BreakerAssumption ==
    /\ {QuotaBase, QuotaMax, TransientHold} \subseteq Nat \ {0}
    /\ {ProbeGuard, MaxFailures, MaxRetries, MinInterval, MaxCrashes} \subseteq Nat
    /\ TransientHold <= QuotaMax /\ ProbeGuard <= QuotaMax
    /\ QuotaBase * 2 ^ MaxFailures >= QuotaMax
    /\ RetryWaits \subseteq Nat /\ QuotaHints \subseteq Nat
    /\ "ok" \in Moods /\ Moods \subseteq MoodKinds

VARIABLES
    file,   \* BreakerState on disk
    calls,  \* a call of guarded for each caller
    since,  \* now - lastRequestTime, up to MinInterval
    mood,   \* how the provider answers
    crashes \* deaths of the process so far

vars == <<file, calls, since, mood, crashes>>

Categories == {"transient", "quota", "auth", "unknown"}
BreakerState ==
    [status : {"closed", "open", "half_open"}, reason : Categories \cup {"none"},
     left : 0..QuotaMax, failures : 0..MaxFailures]
Closed == [status |-> "closed", reason |-> "none", left |-> 0, failures |-> 0]

\* gate: what canAttempt returned; wait: the sleep left; tries: `attempt`
Call == [at : {"idle", "sleep", "sent"}, gate : BreakerState, wait : Nat, tries : 0..MaxRetries]
NoCall == [at |-> "idle", gate |-> Closed, wait |-> 0, tries |-> 0]

TypeOK ==
    /\ file \in BreakerState
    /\ calls \in [Callers -> Call]
    /\ since \in 0..MinInterval
    /\ mood \in Moods
    /\ crashes \in 0..MaxCrashes

Init ==
    /\ file = Closed
    /\ calls = [c \in Callers |-> NoCall]
    /\ since = MinInterval
    /\ mood \in Moods
    /\ crashes = 0

----------------------------------------------------------------------------
(* The breaker.                                                            *)

Lower(a, b) == IF a <= b THEN a ELSE b

\* Base delay doubled with each failure, plus up to 30 % of jitter, capped.
Backoff(failures) ==
    LET base == QuotaBase * 2 ^ (failures - 1)
    IN {d \in 1..QuotaMax : d >= Lower(base, QuotaMax) /\ 10 * d <= 13 * base + 9}

HoldsUncapped(category, failures) ==
    IF category = "quota" THEN QuotaHints \ {0} ELSE {TransientHold}
\* The holds recordFailure may choose for a failure.
Holds(category, failures) ==
    CASE category = "auth" -> {QuotaMax}
      [] category = "quota" ->
            {Lower(h, QuotaMax) : h \in QuotaHints \ {0}} \cup
            (IF 0 \in QuotaHints THEN Backoff(failures) ELSE {})
      [] OTHER -> {Lower(d, TransientHold) : d \in Backoff(failures)}

Failed(category, f) ==
    LET n == Lower(f.failures + 1, MaxFailures)
    IN {[status |-> "open", reason |-> category, left |-> d, failures |-> n] :
           d \in Holds(category, f.failures + 1)}

MayAttemptAlways(f) == TRUE
MayAttempt(f) == f.status = "closed" \/ f.left = 0

ProbedUnsaved(f) == f
Probed(f) == IF f.status = "closed" THEN f
             ELSE [f EXCEPT !.status = "half_open", !.left = ProbeGuard]

\* A rejected request or an answer of the wrong shape: the server is up and
\* the key is good, but of a quota it says nothing.
AfterRejectionClosed(gate, f) == Closed
AfterRejection(gate, f) ==
    IF gate.status = "half_open" /\ gate.reason = "quota" THEN f ELSE Closed

----------------------------------------------------------------------------
(* A call: gate, sleep, send, answer; retries sleep and send again.        *)

Busy(c) == calls[c].at # "idle"
Sleep(c, call, ticks) ==
    calls' = [calls EXCEPT ![c] = [call EXCEPT !.at = "sleep", !.wait = ticks]]
Return(c) == calls' = [calls EXCEPT ![c] = NoCall]

Begin(c) ==
    /\ ~Busy(c) /\ MayAttempt(file)
    /\ file' = Probed(file)
    /\ Sleep(c, [NoCall EXCEPT !.gate = file'], MinInterval - since)
    /\ UNCHANGED <<since, mood, crashes>>

Send(c) ==
    /\ calls[c].at = "sleep" /\ calls[c].wait = 0
    /\ calls' = [calls EXCEPT ![c].at = "sent"]
    /\ UNCHANGED <<file, since, mood, crashes>>

Succeed(c) ==
    /\ calls[c].at = "sent" /\ mood = "ok"
    /\ file' = Closed /\ since' = 0
    /\ Return(c) /\ UNCHANGED <<mood, crashes>>

\* 422 (the limiter rethrows it) or a bad shape (the limiter has returned):
\* of this one request, or of every request when the question set is broken.
Reject(c) ==
    /\ calls[c].at = "sent" /\ mood \in {"ok", "odd"}
    /\ file' = AfterRejection(calls[c].gate, file)
    /\ since' \in {0, since}
    /\ Return(c) /\ UNCHANGED <<mood, crashes>>

Retry(c) ==
    /\ calls[c].at = "sent" /\ mood = "down" /\ calls[c].tries < MaxRetries
    /\ \E w \in RetryWaits : Sleep(c, [calls[c] EXCEPT !.tries = @ + 1], w)
    /\ UNCHANGED <<file, since, mood, crashes>>

\* What the limiter rethrows: quota, auth and unknown errors at once, a
\* transient one when its retries are used up.  A body that is not JSON is
\* "unknown"; TypeSafe finds it after the limiter has returned.
Category(c) ==
    CASE mood = "down" /\ calls[c].tries = MaxRetries -> {"transient"}
      [] mood \in {"quota", "auth"} -> {mood}
      [] mood = "broken" -> {"unknown"}
      [] OTHER -> {}

Fail(c) ==
    /\ calls[c].at = "sent"
    /\ \E category \in Category(c) : file' \in Failed(category, file)
    /\ since' \in IF mood = "broken" THEN {0, since} ELSE {since}
    /\ Return(c) /\ UNCHANGED <<mood, crashes>>

Answer(c) == Succeed(c) \/ Reject(c) \/ Retry(c) \/ Fail(c)

----------------------------------------------------------------------------
(* The environment.                                                        *)

Less(n) == IF n > 0 THEN n - 1 ELSE 0
Waiting == {c \in Callers : calls[c].wait > 0}

Tick ==
    /\ file.left > 0 \/ Waiting # {} \/ since < MinInterval
    /\ file' = [file EXCEPT !.left = Less(@)]
    /\ calls' = [c \in Callers |-> [calls[c] EXCEPT !.wait = Less(@)]]
    /\ since' = Lower(since + 1, MinInterval)
    /\ UNCHANGED <<mood, crashes>>

ChangeMood ==
    /\ mood' \in Moods \ {mood}
    /\ UNCHANGED <<file, calls, since, crashes>>

Crash ==
    /\ crashes < MaxCrashes /\ crashes' = crashes + 1
    /\ calls' = [c \in Callers |-> NoCall]
    /\ since' = MinInterval
    /\ UNCHANGED <<file, mood>>

\* The operator clears the breaker, or deletes its file.
Reset ==
    /\ file # Closed
    /\ file' = Closed
    /\ UNCHANGED <<calls, since, mood, crashes>>

Next ==
    \/ \E c \in Callers : Begin(c) \/ Send(c) \/ Answer(c)
    \/ Tick \/ ChangeMood \/ Crash \/ Reset

Spec == Init /\ [][Next]_vars

----------------------------------------------------------------------------
(* Properties                                                              *)

\* guarded fires no doomed request: while the breaker is open, no call is on
\* its way, not even one asleep in the rate limiter.  For one caller.
OpenMeansIdle == file.status = "open" => \A c \in Callers : ~Busy(c)

\* recordFailure holds an auth error for the long delay: nothing cuts that
\* hold short but a successful call or the operator.
AuthHeld == [][file.status = "open" /\ file.reason = "auth" /\ file'.left < file.left - 1
                  => file' = Closed]_vars

\* A quota hold ends only when a call succeeds or the operator clears it: a
\* per-request failure of the probe proves nothing about the quota.
QuotaEndsBySuccess == [][file.reason = "quota" /\ file' = Closed
                            => Reset \/ \E c \in Callers : Succeed(c)]_vars

\* No hold is cut short.
HoldsLast == AuthHeld /\ QuotaEndsBySuccess
============================================================================
