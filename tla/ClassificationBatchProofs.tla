---------------------- MODULE ClassificationBatchProofs ----------------------
(***************************************************************************)
(* Proofs about AiBreaker, for any number of callers and any delays; then  *)
(* about the runs of ClassificationBatch: a run of processUnclassified     *)
(* uses the breaker as AiBreaker allows, so what is proved of the breaker  *)
(* holds of the runs too; and the runs keep their type, for any mail.      *)
(***************************************************************************)
EXTENDS ClassificationBatch, TLAPS, WellFoundedInduction

LEMMA BackoffRange == ASSUME NEW n PROVE Backoff(n) \subseteq 1..QuotaMax
BY Zenon DEF Backoff

\* Whatever failed, the hold is within the limits of the options.
LEMMA HoldsRange == ASSUME NEW category, NEW n
                    PROVE  Holds(category, n) \subseteq 0..QuotaMax
<1>1. {QuotaMax} \subseteq 0..QuotaMax
  BY BreakerAssumption
<1>2. {Lower(h, QuotaMax) : h \in QuotaHints \ {0}} \subseteq 0..QuotaMax
  BY BreakerAssumption DEF Lower
<1>3. Backoff(n) \subseteq 0..QuotaMax
  <2>1. 1..QuotaMax \subseteq 0..QuotaMax
    BY BreakerAssumption
  <2>2. QED BY <2>1, BackoffRange
<1>4. {Lower(d, TransientHold) : d \in Backoff(n)} \subseteq 0..QuotaMax
  BY <1>3, BreakerAssumption DEF Lower
<1>5. QED BY <1>1, <1>2, <1>3, <1>4 DEF Holds

LEMMA FailedType ==
    ASSUME NEW category \in Categories, NEW f \in BreakerState, NEW g \in Failed(category, f)
    PROVE  g \in BreakerState /\ g.status = "open"
<1> DEFINE n == Lower(f.failures + 1, MaxFailures)
<1>1. PICK d \in Holds(category, f.failures + 1) :
         g = [status |-> "open", reason |-> category, left |-> d, failures |-> n]
  BY Zenon DEF Failed
<1>2. d \in 0..QuotaMax
  BY HoldsRange
<1>3. n \in 0..MaxFailures
  BY BreakerAssumption DEF BreakerState, Lower
<1> HIDE DEF n
<1>4. QED BY <1>1, <1>2, <1>3 DEF BreakerState

LEMMA ClosedType == Closed \in BreakerState /\ NoCall \in Call
BY BreakerAssumption DEF Closed, BreakerState, NoCall, Call

LEMMA ProbedType == ASSUME NEW f \in BreakerState
                    PROVE  Probed(f) \in BreakerState /\ Probed(f).status # "open"
<1>1. ProbeGuard \in 0..QuotaMax
  BY BreakerAssumption
<1>2. [f EXCEPT !.status = "half_open", !.left = ProbeGuard] \in BreakerState
  BY <1>1 DEF BreakerState
<1>3. [f EXCEPT !.status = "half_open", !.left = ProbeGuard].status = "half_open"
  BY DEF BreakerState
<1>4. QED BY <1>2, <1>3 DEF Probed

LEMMA AfterRejectionType ==
    ASSUME NEW gate, NEW f \in BreakerState PROVE AfterRejection(gate, f) \in BreakerState
BY ClosedType DEF AfterRejection

LEMMA CategoryType == ASSUME NEW c PROVE Category(c) \subseteq Categories
BY DEF Category, Categories

LEMMA InitType == Init => TypeOK
BY ClosedType, BreakerAssumption DEF Init, TypeOK

LEMMA NextType == TypeOK /\ [Next]_vars => TypeOK'
<1> SUFFICES ASSUME TypeOK, [Next]_vars PROVE TypeOK'
  OBVIOUS
<1>1. ASSUME NEW c \in Callers, Begin(c) PROVE TypeOK'
  <2>1. file' \in BreakerState
    BY <1>1, ProbedType DEF Begin, TypeOK
  <2>2. MinInterval - since \in Nat
    BY BreakerAssumption DEF TypeOK
  <2>3. [[NoCall EXCEPT !.gate = file'] EXCEPT !.at = "sleep", !.wait = MinInterval - since] \in Call
    BY <2>1, <2>2, ClosedType DEF Call
  <2>4. calls' \in [Callers -> Call]
    BY <1>1, <2>3 DEF Begin, Sleep, TypeOK
  <2>5. QED BY <1>1, <2>1, <2>4 DEF Begin, TypeOK
<1>2. ASSUME NEW c \in Callers, Send(c) PROVE TypeOK'
  <2>1. [calls[c] EXCEPT !.at = "sent"] \in Call
    BY DEF TypeOK, Call
  <2>2. calls' \in [Callers -> Call]
    BY <1>2, <2>1 DEF Send, TypeOK
  <2>3. QED BY <1>2, <2>2, BreakerAssumption DEF Send, TypeOK
<1>3. ASSUME NEW c \in Callers, Answer(c) PROVE TypeOK'
  <2>1. ASSUME Return(c) PROVE calls' \in [Callers -> Call]
    BY <2>1, ClosedType DEF Return, TypeOK
  <2>2. CASE Succeed(c)
    BY <2>2, <2>1, ClosedType, BreakerAssumption DEF Succeed, TypeOK
  <2>3. CASE Reject(c)
    BY <2>3, <2>1, AfterRejectionType, BreakerAssumption DEF Reject, TypeOK
  <2>4. CASE Retry(c)
    <3>1. PICK w \in RetryWaits : Sleep(c, [calls[c] EXCEPT !.tries = @ + 1], w)
      BY <2>4 DEF Retry
    <3>2. [[calls[c] EXCEPT !.tries = @ + 1] EXCEPT !.at = "sleep", !.wait = w] \in Call
      <4>1. calls[c].tries + 1 \in 0..MaxRetries
        BY <2>4, BreakerAssumption DEF Retry, TypeOK, Call
      <4>2. w \in Nat /\ calls[c] \in Call
        BY BreakerAssumption DEF TypeOK
      <4>3. QED BY <4>1, <4>2 DEF Call
    <3>3. calls' \in [Callers -> Call]
      BY <3>1, <3>2 DEF Sleep, TypeOK
    <3>4. QED BY <2>4, <3>3 DEF Retry, TypeOK
  <2>5. CASE Fail(c)
    <3>1. file' \in BreakerState
      BY <2>5, CategoryType, FailedType DEF Fail, TypeOK
    <3>2. since' \in 0..MinInterval
      BY <2>5, BreakerAssumption DEF Fail, TypeOK
    <3>3. QED BY <2>5, <2>1, <3>1, <3>2 DEF Fail, TypeOK
  <2>6. QED BY <1>3, <2>2, <2>3, <2>4, <2>5 DEF Answer
<1>4. CASE Tick
  <2>1. file' \in BreakerState
    BY <1>4, BreakerAssumption DEF Tick, TypeOK, BreakerState, Less
  <2>2. ASSUME NEW c \in Callers PROVE [calls[c] EXCEPT !.wait = Less(@)] \in Call
    BY DEF TypeOK, Call, Less
  <2>3. calls' \in [Callers -> Call]
    BY <1>4, <2>2 DEF Tick
  <2>4. since' \in 0..MinInterval
    BY <1>4, BreakerAssumption DEF Tick, TypeOK, Lower
  <2>5. QED BY <1>4, <2>1, <2>3, <2>4 DEF Tick, TypeOK
<1>5. CASE ChangeMood
  BY <1>5 DEF ChangeMood, TypeOK
<1>6. CASE Crash
  BY <1>6, ClosedType, BreakerAssumption DEF Crash, TypeOK
<1>7. CASE Reset
  BY <1>7, ClosedType DEF Reset, TypeOK
<1>8. CASE UNCHANGED vars
  BY <1>8 DEF vars, TypeOK
<1>9. QED BY <1>1, <1>2, <1>3, <1>4, <1>5, <1>6, <1>7, <1>8 DEF Next

\* The breaker file and the calls keep their types: the hold never exceeds
\* quotaMaxDelayMs, and no call tries more often than maxRetries allows.
THEOREM TypeCorrect == Spec => []TypeOK
<1>1. QED BY InitType, NextType, PTL DEF Spec

\* A batch makes one call at a time.
Sequential == \A c, d \in Callers : c = d

LEMMA InitIdle == Init => OpenMeansIdle
BY DEF Init, OpenMeansIdle, Closed

\* Of one caller's steps, those that open the breaker also end its call, and
\* the one that begins a call leaves the breaker closed or half open.
LEMMA NextIdle == ASSUME Sequential, TypeOK, OpenMeansIdle, [Next]_vars
                  PROVE  OpenMeansIdle'
<1> SUFFICES ASSUME file'.status = "open", NEW d \in Callers PROVE ~Busy(d)'
  BY DEF OpenMeansIdle
<1>1. ASSUME NEW c \in Callers, Begin(c) PROVE FALSE
  BY <1>1, ProbedType DEF Begin, TypeOK
<1>2. ASSUME NEW c \in Callers, Return(c) PROVE ~Busy(d)'
  <2>1. c = d
    BY DEF Sequential
  <2>2. QED BY <1>2, <2>1 DEF Return, Busy, NoCall, TypeOK
<1>3. ASSUME NEW c \in Callers, Busy(c), file' = file PROVE FALSE
  BY <1>3 DEF OpenMeansIdle
<1>4. ASSUME NEW c \in Callers, Send(c) PROVE FALSE
  BY <1>3, <1>4 DEF Send, Busy
<1>5. ASSUME NEW c \in Callers, Answer(c) PROVE ~Busy(d)'
  <2>1. CASE Retry(c)
    BY <1>3, <2>1 DEF Retry, Busy
  <2>2. CASE Return(c)
    BY <1>2, <2>2
  <2>3. QED BY <1>5, <2>1, <2>2 DEF Answer, Succeed, Reject, Fail
<1>6. CASE Tick
  BY <1>6 DEF Tick, OpenMeansIdle, Busy, TypeOK, BreakerState, Call
<1>7. CASE Crash
  BY <1>7 DEF Crash, Busy, NoCall
<1>8. CASE Reset
  BY <1>8 DEF Reset, Closed
<1>9. CASE ChangeMood \/ UNCHANGED vars
  BY <1>9 DEF ChangeMood, vars, OpenMeansIdle, Busy
<1>10. QED BY <1>1, <1>4, <1>5, <1>6, <1>7, <1>8, <1>9 DEF Next

\* With one caller, whatever fails and whenever the process restarts, no
\* request is sent or waits to be sent while the breaker is open.
THEOREM NoDoomedRequest == Sequential => (Spec => []OpenMeansIdle)
<1> SUFFICES ASSUME Sequential PROVE Spec => []OpenMeansIdle
  OBVIOUS
<1>1. TypeOK /\ OpenMeansIdle /\ [Next]_vars => OpenMeansIdle'
  BY NextIdle
<1>2. QED BY <1>1, InitIdle, TypeCorrect, PTL DEF Spec

----------------------------------------------------------------------------
(* No hold is cut short.                                                   *)

\* What a call was let through by is still what the file says, or the operator
\* has cleared it since; and a closed breaker has no history.
GateIsFile ==
    /\ file.status = "closed" => file = Closed
    /\ \A c \in Callers : Busy(c) =>
         \/ file = Closed
         \/ file.status = calls[c].gate.status /\ file.reason = calls[c].gate.reason

LEMMA FailedOpens ==
    ASSUME NEW category, NEW f, NEW g \in Failed(category, f)
    PROVE  g.status = "open"
BY DEF Failed

LEMMA NextGate == ASSUME Sequential, TypeOK, GateIsFile, [Next]_vars
                  PROVE  GateIsFile'
<1>1. ASSUME NEW c \in Callers, Begin(c) PROVE GateIsFile'
  <2>1. PICK g : g = file'
    OBVIOUS
  <2>2. calls'[c].gate = g
    BY <1>1, <2>1 DEF Begin, Sleep, TypeOK, NoCall
  <2>3. file'.status = "closed" => file' = Closed
    BY <1>1 DEF Begin, Probed, GateIsFile, TypeOK, BreakerState
  <2> QED BY <2>1, <2>2, <2>3 DEF GateIsFile, Sequential
<1>2. ASSUME NEW c \in Callers, Return(c), file'.status = "closed" => file' = Closed PROVE GateIsFile'
  <2>1. \A d \in Callers : calls'[d] = NoCall
    BY <1>2 DEF Return, TypeOK, Sequential
  <2> QED BY <1>2, <2>1 DEF GateIsFile, Busy, NoCall
<1>3. ASSUME NEW c \in Callers, Send(c) \/ Retry(c) PROVE GateIsFile'
  <2>1. file' = file /\ Busy(c)
    BY <1>3 DEF Send, Retry, Busy
  <2>2. calls'[c].gate = calls[c].gate
    <3>1. CASE Send(c)
      BY <3>1 DEF Send, TypeOK, Call
    <3>2. CASE Retry(c)
      BY <3>2 DEF Retry, Sleep, TypeOK, Call
    <3> QED BY <1>3, <3>1, <3>2
  <2> QED BY <2>1, <2>2 DEF GateIsFile, Sequential
<1>4. ASSUME NEW c \in Callers, Succeed(c) \/ Reject(c) \/ Fail(c) PROVE GateIsFile'
  <2>1. Return(c)
    BY <1>4 DEF Succeed, Reject, Fail
  <2>2. file'.status = "closed" => file' = Closed
    <3>1. CASE Succeed(c)
      BY <3>1 DEF Succeed
    <3>2. CASE Reject(c)
      BY <3>2 DEF Reject, AfterRejection, GateIsFile
    <3>3. CASE Fail(c)
      BY <3>3, FailedOpens DEF Fail
    <3> QED BY <1>4, <3>1, <3>2, <3>3
  <2> QED BY <1>2, <2>1, <2>2
<1>5. CASE Tick
  <2>1. /\ file'.status = file.status /\ file'.reason = file.reason
        /\ file = Closed => file' = Closed
    BY <1>5 DEF Tick, TypeOK, BreakerState, Less, Closed
  <2>2. \A c \in Callers : calls'[c].at = calls[c].at /\ calls'[c].gate = calls[c].gate
    BY <1>5 DEF Tick, TypeOK, Call
  <2> QED BY <2>1, <2>2 DEF GateIsFile, Busy
<1>6. CASE Crash
  BY <1>6 DEF Crash, GateIsFile, Busy, NoCall
<1>7. CASE Reset
  BY <1>7 DEF Reset, GateIsFile
<1>8. CASE ChangeMood \/ UNCHANGED vars
  BY <1>8 DEF ChangeMood, vars, GateIsFile, Busy
<1> QED BY <1>1, <1>3, <1>4, <1>5, <1>6, <1>7, <1>8 DEF Next, Answer

\* With one caller no hold is cut short: only the operator ends one for a
\* refused key before its time, and one for a quota ends by a success or by the
\* operator, not by a probe that is rejected for another reason.
THEOREM HoldsKept == Sequential => (Spec => HoldsLast)
<1> SUFFICES ASSUME Sequential PROVE Spec => HoldsLast
  OBVIOUS
<1>1. Init => GateIsFile
  BY DEF Init, GateIsFile, Busy, NoCall
<1>2. TypeOK /\ GateIsFile /\ [Next]_vars => GateIsFile'
  BY NextGate
<1>3. ASSUME TypeOK, OpenMeansIdle, Next,
             file.status = "open", file.reason = "auth", file'.left < file.left - 1
      PROVE  file' = Closed
  <2>1. file.left \in Nat /\ \A c \in Callers : ~Busy(c)
    BY <1>3 DEF TypeOK, BreakerState, OpenMeansIdle
  <2>2. ASSUME NEW c \in Callers, Begin(c) PROVE FALSE
    <3>1. file.left = 0
      BY <1>3, <2>2 DEF Begin, MayAttempt
    <3>2. file'.left \in Nat
      BY <1>3, <2>2, ProbedType DEF Begin, TypeOK, BreakerState
    <3> QED BY <1>3, <3>1, <3>2
  <2>3. ASSUME NEW c \in Callers, Send(c) \/ Answer(c) PROVE FALSE
    BY <2>1, <2>3 DEF Send, Answer, Succeed, Reject, Retry, Fail, Busy
  <2>4. CASE Tick
    <3>1. file'.left = Less(file.left)
      BY <2>4 DEF Tick, TypeOK, BreakerState
    <3> QED BY <1>3, <2>1, <3>1 DEF Less
  <2>5. CASE ChangeMood \/ Crash
    BY <1>3, <2>1, <2>5 DEF ChangeMood, Crash
  <2> QED BY <1>3, <2>2, <2>3, <2>4, <2>5 DEF Next, Reset
<1>4. ASSUME TypeOK, OpenMeansIdle, GateIsFile, Next, file.reason = "quota", file' = Closed
      PROVE  Reset \/ \E c \in Callers : Succeed(c)
  <2>1. file.status # "closed" /\ file # Closed /\ file'.status = "closed"
    BY <1>4 DEF GateIsFile, Closed
  <2>2. ASSUME NEW c \in Callers, Begin(c) PROVE FALSE
    BY <2>1, <2>2 DEF Begin, Probed, TypeOK, BreakerState
  <2>3. ASSUME NEW c \in Callers, Reject(c) PROVE FALSE
    <3>1. Busy(c)
      BY <2>3 DEF Reject, Busy
    <3>2. file.status = "half_open"
      BY <1>4, <2>1, <3>1 DEF OpenMeansIdle, TypeOK, BreakerState
    <3>3. calls[c].gate.status = "half_open" /\ calls[c].gate.reason = "quota"
      BY <1>4, <2>1, <3>1, <3>2 DEF GateIsFile
    <3> QED BY <1>4, <2>1, <2>3, <3>3 DEF Reject, AfterRejection
  <2>4. ASSUME NEW c \in Callers, Fail(c) PROVE FALSE
    BY <2>1, <2>4, FailedOpens DEF Fail
  <2>5. ASSUME NEW c \in Callers, Send(c) \/ Retry(c) PROVE FALSE
    BY <1>4, <2>1, <2>5 DEF Send, Retry
  <2>6. CASE Tick
    BY <2>1, <2>6 DEF Tick, TypeOK, BreakerState
  <2>7. CASE ChangeMood \/ Crash
    BY <1>4, <2>1, <2>7 DEF ChangeMood, Crash
  <2> QED BY <1>4, <2>2, <2>3, <2>4, <2>5, <2>6, <2>7 DEF Next, Answer
<1>5. TypeOK /\ OpenMeansIdle /\ [Next]_vars =>
        [file.status = "open" /\ file.reason = "auth" /\ file'.left < file.left - 1 => file' = Closed]_vars
  BY <1>3
<1>6. TypeOK /\ OpenMeansIdle /\ GateIsFile /\ [Next]_vars =>
        [file.reason = "quota" /\ file' = Closed => Reset \/ \E c \in Callers : Succeed(c)]_vars
  BY <1>4
<1>7. Spec => []TypeOK /\ []OpenMeansIdle
  BY TypeCorrect, NoDoomedRequest, PTL
<1>8. Spec => []GateIsFile
  BY <1>1, <1>2, <1>7, PTL DEF Spec
<1> QED BY <1>5, <1>6, <1>7, <1>8, PTL DEF Spec, HoldsLast, AuthHeld, QuotaEndsBySuccess

-----------------------------------------------------------------------------

\* Every step of the composition is a step of the breaker or leaves it alone.
LEMMA StepRefines == [BatchNext]_batchVars => [Next]_vars
<1> SUFFICES ASSUME [BatchNext]_batchVars PROVE [Next]_vars
  OBVIOUS
<1>1. ASSUME NEW c \in Callers, RunNext(c) PROVE [Next]_vars
  BY <1>1 DEF RunNext, Next
<1>2. ASSUME NEW c \in Callers, RunAnswer(c) PROVE [Next]_vars
  BY <1>2 DEF RunAnswer, Answer, Next
<1>3. ASSUME NEW c \in Callers, RunSend(c) PROVE [Next]_vars
  BY <1>3 DEF RunSend, Next
<1>4. ASSUME NEW c \in Callers, RunFind(c) \/ RunGate(c) \/ RunEnd(c) \/ RunStore(c)
      PROVE  [Next]_vars
  BY <1>4 DEF RunFind, RunGate, RunEnd, RunStore
<1>5. CASE (Tick \/ ChangeMood \/ Reset) /\ UNCHANGED batch
  BY <1>5 DEF Next
<1>6. CASE RunCrash
  BY <1>6 DEF RunCrash, Next
<1>7. CASE Arrive
  BY <1>7 DEF Arrive
<1>8. CASE UNCHANGED batchVars
  BY <1>8 DEF batchVars
<1>9. QED BY <1>1, <1>2, <1>3, <1>4, <1>5, <1>6, <1>7, <1>8 DEF BatchNext

\* A run of processUnclassified is a client of the breaker like any other: it
\* never sends a request past the gate or keeps a breaker from being told.
THEOREM RunsUseTheBreaker == BatchSpec => Spec
<1>1. BatchInit => Init
  BY DEF BatchInit
<1>2. QED BY <1>1, StepRefines, PTL DEF BatchSpec, Spec

\* So a run fires no request into an open breaker, however it is interleaved
\* with failures, crashes and the operator.
THEOREM RunsFireNoDoomedRequest == Sequential => (BatchSpec => []OpenMeansIdle)
<1>1. QED BY RunsUseTheBreaker, NoDoomedRequest, PTL

\* Nor does one cut a hold short.
THEOREM RunsKeepHolds == Sequential => (BatchSpec => HoldsLast)
<1>1. QED BY RunsUseTheBreaker, HoldsKept, PTL

----------------------------------------------------------------------------
(* The type of the runs.                                                   *)

LEMMA NewestExists == ASSUME NEW S \in SUBSET Mail, S # {}
                      PROVE  \E m \in S : \A n \in S : n <= m
<1> DEFINE Distance == {LastMail - m : m \in S}
<1>1. Distance \subseteq Nat /\ Distance # {}
  <2>1. ASSUME NEW m \in S PROVE LastMail - m \in Nat
    BY BatchAssumption DEF Mail
  <2>2. QED BY <2>1
<1> HIDE DEF Distance
<1>2. PICK d \in Distance : \A e \in Distance : ~ (<<e, d>> \in OpToRel(<, Nat))
  BY <1>1, NatLessThanWellFounded, WFMin
<1>3. \A e \in Distance : ~ (e < d)
  BY <1>1, <1>2 DEF OpToRel
<1>4. PICK m \in S : d = LastMail - m
  BY DEF Distance
<1>5. ASSUME NEW n \in S PROVE n <= m
  <2>1. LastMail - n \in Distance
    BY DEF Distance
  <2>2. QED BY <1>3, <1>4, <2>1, BatchAssumption DEF Mail
<1>6. QED BY <1>5

LEMMA NewestIn == ASSUME NEW S \in SUBSET Mail, S # {} PROVE NewestOf(S) \in S
BY NewestExists DEF NewestOf

\* The type needs what a run holds to have arrived.
BatchInv == BatchTypeOK /\ \A c \in Callers : runs[c].left \subseteq arrived

LEMMA NoRunType == NoRun \in Run
BY BatchAssumption DEF NoRun, Run

LEMMA BatchInitInv == BatchInit => BatchInv
BY NoRunType DEF BatchInit, BatchInv, BatchTypeOK, Init, Busy, NoCall, NoRun

\* One caller's run moves to r, which is waiting for the provider exactly when
\* its call is.
LEMMA RunMoves ==
    ASSUME BatchInv, NEW c \in Callers, NEW r \in Run,
           runs' = [runs EXCEPT ![c] = r],
           r.left \subseteq arrived, r.at \in {"asking", "answered"} => r.left # {},
           arrived' = arrived, classified \subseteq classified', classified' \subseteq arrived,
           Busy(c)' <=> r.at = "asking",
           \A d \in Callers \ {c} : Busy(d)' <=> Busy(d)
    PROVE  BatchInv'
<1>1. runs' \in [Callers -> Run] /\ runs'[c] = r
  BY DEF BatchInv, BatchTypeOK
<1>2. \A d \in Callers \ {c} : runs'[d] = runs[d]
  BY DEF BatchInv, BatchTypeOK
<1>3. \A d \in Callers : Busy(d)' <=> runs'[d].at = "asking"
  BY <1>1, <1>2 DEF BatchInv, BatchTypeOK
<1>4. \A d \in Callers : runs'[d].at \in {"asking", "answered"} => runs'[d].left # {}
  BY <1>1, <1>2 DEF BatchInv, BatchTypeOK
<1>5. \A d \in Callers : runs'[d].left \subseteq arrived
  BY <1>1, <1>2 DEF BatchInv
<1>6. arrived' \subseteq Mail /\ classified' \subseteq arrived'
  BY DEF BatchInv, BatchTypeOK
<1>7. QED BY <1>1, <1>3, <1>4, <1>5, <1>6 DEF BatchInv, BatchTypeOK

\* Of the calls, a call begun is busy, a call returned is not, the others are
\* as they were.
LEMMA CallsMove ==
    ASSUME TypeOK, NEW c \in Callers
    PROVE  /\ Begin(c) \/ Retry(c) => Busy(c)' /\ \A d \in Callers \ {c} : Busy(d)' <=> Busy(d)
           /\ Return(c) => ~Busy(c)' /\ \A d \in Callers \ {c} : Busy(d)' <=> Busy(d)
           /\ Send(c) => \A d \in Callers : Busy(d)' <=> Busy(d)
<1>1. ASSUME NEW call, calls' = [calls EXCEPT ![c] = call]
      PROVE  /\ Busy(c)' <=> call.at # "idle"
             /\ \A d \in Callers \ {c} : Busy(d)' <=> Busy(d)
  BY <1>1 DEF Busy, TypeOK
<1>2. ASSUME NEW call, NEW n, Sleep(c, call, n), call \in Call \/ call = [NoCall EXCEPT !.gate = file']
      PROVE  Busy(c)' /\ \A d \in Callers \ {c} : Busy(d)' <=> Busy(d)
  <2> DEFINE asleep == [call EXCEPT !.at = "sleep", !.wait = n]
  <2>1. asleep.at = "sleep"
    BY <1>2 DEF Call, NoCall
  <2>2. calls' = [calls EXCEPT ![c] = asleep]
    BY <1>2 DEF Sleep
  <2> HIDE DEF asleep
  <2>3. QED BY <1>1, <2>1, <2>2
<1>3. Begin(c) => Busy(c)' /\ \A d \in Callers \ {c} : Busy(d)' <=> Busy(d)
  BY <1>2 DEF Begin
<1>4. Retry(c) => Busy(c)' /\ \A d \in Callers \ {c} : Busy(d)' <=> Busy(d)
  <2>1. SUFFICES ASSUME NEW w \in RetryWaits, Sleep(c, [calls[c] EXCEPT !.tries = @ + 1], w),
                        calls[c].tries < MaxRetries
                 PROVE  Busy(c)' /\ \A d \in Callers \ {c} : Busy(d)' <=> Busy(d)
    BY DEF Retry
  <2>2. [calls[c] EXCEPT !.tries = @ + 1] \in Call
    BY <2>1, BreakerAssumption DEF TypeOK, Call
  <2>3. QED BY <1>2, <2>1, <2>2
<1>5. Return(c) => ~Busy(c)' /\ \A d \in Callers \ {c} : Busy(d)' <=> Busy(d)
  <2>1. NoCall.at = "idle"
    BY DEF NoCall
  <2>2. QED BY <1>1, <2>1 DEF Return
<1>6. Send(c) => \A d \in Callers : Busy(d)' <=> Busy(d)
  BY DEF Send, Busy, TypeOK, Call
<1>7. QED BY <1>3, <1>4, <1>5, <1>6

LEMMA LoopGoesOn ==
    ASSUME BatchInv, NEW c \in Callers, runs[c].left # {},
           NEW strikes \in 0..(MaxStrikes - 1), Continue(c, strikes),
           arrived' = arrived, classified \subseteq classified', classified' \subseteq arrived,
           ~Busy(c)', \A d \in Callers \ {c} : Busy(d)' <=> Busy(d)
    PROVE  BatchInv'
<1> DEFINE r == [at |-> "next", strikes |-> strikes, left |-> runs[c].left \ {AskingAbout(c)}]
<1>1. runs[c].left \subseteq Mail /\ runs[c].left \subseteq arrived
  BY DEF BatchInv, BatchTypeOK
<1>2. r \in Run
  BY <1>1 DEF Run
<1>3. runs' = [runs EXCEPT ![c] = r]
  BY DEF Continue
<1>4. r.at = "next" /\ r.left \subseteq arrived
  BY <1>1
<1> HIDE DEF r
<1>5. QED BY <1>2, <1>3, <1>4, RunMoves

LEMMA RunGoesTo ==
    ASSUME BatchInv, NEW c \in Callers, runs[c].left # {},
           NEW at \in {"next", "asking", "answered"}, Goto(c, at),
           arrived' = arrived, classified' = classified,
           Busy(c)' <=> at = "asking", \A d \in Callers \ {c} : Busy(d)' <=> Busy(d)
    PROVE  BatchInv'
<1> DEFINE r == [runs[c] EXCEPT !.at = at]
<1>1. runs[c] \in Run /\ runs[c].left \subseteq arrived /\ classified \subseteq arrived
  BY DEF BatchInv, BatchTypeOK
<1>2. r \in Run /\ r.at = at /\ r.left = runs[c].left
  BY <1>1 DEF Run
<1>3. runs' = [runs EXCEPT ![c] = r]
  BY DEF Goto
<1> HIDE DEF r
<1>4. QED BY <1>1, <1>2, <1>3, RunMoves

LEMMA RunStops ==
    ASSUME BatchInv, NEW c \in Callers, Stop(c), arrived' = arrived, classified' = classified,
           ~Busy(c)', \A d \in Callers \ {c} : Busy(d)' <=> Busy(d)
    PROVE  BatchInv'
<1>1. NoRun.left = {} /\ NoRun.at = "idle" /\ classified \subseteq arrived
  BY DEF NoRun, BatchInv, BatchTypeOK
<1>2. runs' = [runs EXCEPT ![c] = NoRun]
  BY DEF Stop
<1>3. QED BY <1>1, <1>2, NoRunType, RunMoves

LEMMA BatchNextInv == TypeOK /\ BatchInv /\ [BatchNext]_batchVars => BatchInv'
<1> SUFFICES ASSUME TypeOK, BatchInv, [BatchNext]_batchVars PROVE BatchInv'
  OBVIOUS
<1>a. \A c \in Callers : runs[c] \in Run /\ (Busy(c) <=> runs[c].at = "asking")
  BY DEF BatchInv, BatchTypeOK
<1>b. ASSUME UNCHANGED calls PROVE \A c \in Callers : Busy(c)' <=> Busy(c)
  BY <1>b DEF Busy
<1>1. ASSUME NEW c \in Callers, RunFind(c) PROVE BatchInv'
  <2> DEFINE r == [NoRun EXCEPT !.at = "gate", !.left = arrived \ classified]
  <2>1. arrived \subseteq Mail /\ classified \subseteq arrived
    BY DEF BatchInv, BatchTypeOK
  <2>2. r \in Run /\ r.at = "gate" /\ r.left \subseteq arrived
    BY <2>1, NoRunType DEF Run, NoRun
  <2>3. runs' = [runs EXCEPT ![c] = r]
    BY <1>1 DEF RunFind
  <2>4. arrived' = arrived /\ classified' = classified /\ calls' = calls /\ ~Busy(c)
    BY <1>1, <1>a DEF RunFind, vars
  <2> HIDE DEF r
  <2>5. QED BY <2>1, <2>2, <2>3, <2>4, <1>b, RunMoves
<1>2. ASSUME NEW c \in Callers, RunGate(c) PROVE BatchInv'
  <2>1. arrived' = arrived /\ classified' = classified /\ calls' = calls /\ ~Busy(c)
    BY <1>2, <1>a DEF RunGate, vars
  <2>2. CASE Stop(c)
    BY <2>1, <2>2, <1>b, RunStops
  <2>3. CASE Goto(c, "next")
    <3> DEFINE r == [runs[c] EXCEPT !.at = "next"]
    <3>1. r \in Run /\ r.at = "next" /\ r.left = runs[c].left
      BY <1>a DEF Run
    <3>2. runs' = [runs EXCEPT ![c] = r]
      BY <2>3 DEF Goto
    <3>3. runs[c].left \subseteq arrived /\ classified \subseteq arrived
      BY DEF BatchInv, BatchTypeOK
    <3> HIDE DEF r
    <3>4. QED BY <2>1, <3>1, <3>2, <3>3, <1>b, RunMoves
  <2>4. QED BY <1>2, <2>2, <2>3 DEF RunGate
<1>3. ASSUME NEW c \in Callers, RunNext(c) PROVE BatchInv'
  <2>1. arrived' = arrived /\ classified' = classified /\ runs[c].left # {} /\ ~Busy(c)
        /\ classified \subseteq arrived
    BY <1>3, <1>a DEF RunNext, BatchInv, BatchTypeOK
  <2>2. CASE Begin(c) /\ Goto(c, "asking")
    BY <2>1, <2>2, CallsMove, RunGoesTo
  <2>3. CASE Continue(c, 0) /\ UNCHANGED vars
    <3>1. 0 \in 0..(MaxStrikes - 1) /\ calls' = calls
      BY <2>3, BatchAssumption DEF vars
    <3>2. QED BY <2>1, <2>3, <3>1, <1>b, LoopGoesOn
  <2>4. CASE Stop(c) /\ UNCHANGED vars
    <3>1. calls' = calls
      BY <2>4 DEF vars
    <3>2. QED BY <2>1, <2>4, <3>1, <1>b, RunStops
  <2>5. QED BY <1>3, <2>2, <2>3, <2>4 DEF RunNext
<1>4. ASSUME NEW c \in Callers, RunEnd(c) PROVE BatchInv'
  <2>1. arrived' = arrived /\ classified' = classified /\ calls' = calls /\ ~Busy(c) /\ Stop(c)
    BY <1>4, <1>a DEF RunEnd, vars
  <2>2. QED BY <2>1, <1>b, RunStops
<1>5. ASSUME NEW c \in Callers, RunSend(c) PROVE BatchInv'
  <2>1. \A d \in Callers : Busy(d)' <=> Busy(d)
    BY <1>5, CallsMove DEF RunSend
  <2>2. QED BY <1>5, <2>1 DEF RunSend, batch, BatchInv, BatchTypeOK
<1>6. ASSUME NEW c \in Callers, RunAnswer(c) PROVE BatchInv'
  <2>1. arrived' = arrived /\ classified' = classified /\ runs[c].at = "asking"
        /\ runs[c].left # {} /\ classified \subseteq arrived
    BY <1>6 DEF RunAnswer, BatchInv, BatchTypeOK
  <2>2. CASE Retry(c) /\ UNCHANGED runs
    <3>1. \A d \in Callers : Busy(d)' <=> Busy(d)
      BY <2>1, <2>2, <1>a, CallsMove
    <3>2. QED BY <2>1, <2>2, <3>1 DEF BatchInv, BatchTypeOK
  <2>3. CASE Succeed(c) /\ Goto(c, "answered")
    <3>1. Return(c)
      BY <2>3 DEF Succeed
    <3>2. QED BY <2>1, <2>3, <3>1, CallsMove, RunGoesTo
  <2>4. CASE Reject(c) /\ LET strikes == runs[c].strikes + 1
                          IN IF TooMany(strikes) THEN Stop(c) ELSE Continue(c, strikes)
    <3>1. Return(c)
      BY <2>4 DEF Reject
    <3>2. CASE Stop(c)
      BY <2>1, <3>1, <3>2, CallsMove, RunStops
    <3>3. CASE ~TooMany(runs[c].strikes + 1) /\ Continue(c, runs[c].strikes + 1)
      <4>1. runs[c].strikes + 1 \in 0..(MaxStrikes - 1)
        BY <3>3, <1>a, BatchAssumption DEF TooMany, Run
      <4>2. QED BY <2>1, <3>1, <3>3, <4>1, CallsMove, LoopGoesOn
    <3>4. QED BY <2>4, <3>2, <3>3
  <2>5. CASE Fail(c) /\ Continue(c, 0)
    <3>1. Return(c) /\ 0 \in 0..(MaxStrikes - 1)
      BY <2>5, BatchAssumption DEF Fail
    <3>2. QED BY <2>1, <2>5, <3>1, CallsMove, LoopGoesOn
  <2>6. QED BY <1>6, <2>2, <2>3, <2>4, <2>5 DEF RunAnswer
<1>7. ASSUME NEW c \in Callers, RunStore(c) PROVE BatchInv'
  <2>1. runs[c].left # {} /\ runs[c].left \in SUBSET Mail /\ runs[c].left \subseteq arrived
        /\ classified \subseteq arrived
    BY <1>7 DEF RunStore, BatchInv, BatchTypeOK
  <2>2. AskingAbout(c) \in arrived
    BY <2>1, NewestIn DEF AskingAbout
  <2>3. classified \subseteq classified' /\ classified' \subseteq arrived
    BY <1>7, <2>1, <2>2 DEF RunStore
  <2>4. 0 \in 0..(MaxStrikes - 1) /\ calls' = calls /\ ~Busy(c) /\ arrived' = arrived
    BY <1>7, <1>a, BatchAssumption DEF RunStore, vars
  <2>5. Continue(c, 0)
    BY <1>7 DEF RunStore
  <2>6. QED BY <2>1, <2>3, <2>4, <2>5, <1>b, LoopGoesOn
<1>8. CASE (Tick \/ ChangeMood \/ Reset) /\ UNCHANGED batch
  <2>1. \A c \in Callers : Busy(c)' <=> Busy(c)
    BY <1>8 DEF Tick, ChangeMood, Reset, Busy, TypeOK, Call
  <2>2. QED BY <1>8, <2>1 DEF batch, BatchInv, BatchTypeOK
<1>9. CASE RunCrash
  <2>1. \A c \in Callers : ~Busy(c)' /\ runs'[c] = NoRun
    BY <1>9 DEF RunCrash, Crash, Busy, NoCall
  <2>2. runs' \in [Callers -> Run]
    BY <1>9, NoRunType DEF RunCrash
  <2>3. QED BY <1>9, <2>1, <2>2 DEF RunCrash, NoRun, BatchInv, BatchTypeOK
<1>10. CASE Arrive
  <2>1. calls' = calls
    BY <1>10 DEF Arrive, vars
  <2>2. QED BY <1>10, <2>1, <1>b DEF Arrive, BatchInv, BatchTypeOK
<1>11. CASE UNCHANGED batchVars
  <2>1. calls' = calls
    BY <1>11 DEF batchVars, vars
  <2>2. QED BY <1>11, <2>1, <1>b DEF batchVars, batch, BatchInv, BatchTypeOK
<1>12. QED BY <1>1, <1>2, <1>3, <1>4, <1>5, <1>6, <1>7, <1>8, <1>9, <1>10, <1>11 DEF BatchNext

\* No run goes on after MaxStrikes rejections in a row, and a run waits for the
\* provider exactly while its call is out, whatever fails and whoever else runs.
THEOREM RunsTypeCorrect == BatchSpec => []BatchTypeOK
<1>1. BatchInv => BatchTypeOK
  BY DEF BatchInv
<1>2. QED BY <1>1, BatchInitInv, BatchNextInv, RunsUseTheBreaker, TypeCorrect, PTL DEF BatchSpec
============================================================================
