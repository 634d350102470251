---------------------------- MODULE ProviderProofs ----------------------------
(***************************************************************************)
(* The two components that providers' data comes in through, which share   *)
(* no state.                                                               *)
(*                                                                         *)
(* Ingestion: the circuit breaker under any number of threads, thresholds  *)
(* and limits.  Every method of the breaker maps a sound tracker to a      *)
(* sound one, so no interleaving of the calls around it matters.           *)
(*                                                                         *)
(* LiveMap, as the instance Map: any number of objects and clients, any    *)
(* caps.  The cache and the providers' own dictionaries hold an object     *)
(* where it was last reported or not at all, whatever is merged, cut and   *)
(* pruned; what the worker has in hand is behind them, and ahead of the    *)
(* rows it will write.                                                     *)
(***************************************************************************)
EXTENDS Ingestion, TLAPS

(* A tracker the breaker can be left with between two method calls.        *)
Sound(t) ==
  /\ t \in Tracker
  /\ t.state = "CLOSED" <=> t.fails < FailureThreshold
  /\ t.state # "HALF_OPEN" => t.succs = 0

(* get_state and get_status keep a tracker sound.                          *)
LEMMA EvaluateSound ==
  ASSUME NEW t, Sound(t)
  PROVE  Sound(Evaluate(t)) /\ Sound(StatusEvaluate(t))
BY ConstantsAssumption DEF Sound, Evaluate, StatusEvaluate, Tracker, CircuitState

(* record_success keeps a tracker sound.                                   *)
LEMMA SuccessSound ==
  ASSUME NEW t, Sound(t)
  PROVE  Sound(Success(t))
BY ConstantsAssumption DEF Sound, Success, Tracker, CircuitState

(* record_failure keeps a tracker sound.                                   *)
LEMMA FailureSound ==
  ASSUME NEW t, Sound(t)
  PROVE  Sound(Failure(t))
<1>1. OneMore(t.fails) \in 0..FailureThreshold
  BY ConstantsAssumption DEF Sound, Tracker, OneMore
<1>2. t.fails >= FailureThreshold => OneMore(t.fails) >= FailureThreshold
  BY ConstantsAssumption DEF Sound, Tracker, OneMore
<1>3. QED
  BY <1>1, <1>2, ConstantsAssumption DEF Sound, Failure, Tracker, CircuitState

IInv == Sound(breaker)

(* The breaker is sound at every step of every thread.                     *)
LEMMA Invariance == IInv /\ [Next]_vars => IInv'
<1> SUFFICES ASSUME IInv, [Next]_vars PROVE IInv'
  OBVIOUS
<1>1. ASSUME NEW p \in Threads, Ingest(p) PROVE IInv'
  <2>1. CASE CanExecute(p)
    BY <2>1, EvaluateSound DEF CanExecute, SetBreaker, IInv, Sound
  <2>2. CASE Deny(p)
    BY <2>2, EvaluateSound DEF Deny, SetBreaker, IInv, Sound
  <2>3. CASE FetchSucceeds(p)
    BY <2>3, SuccessSound DEF FetchSucceeds, SetBreaker, IInv, Sound
  <2>4. CASE RecordFailure(p)
    BY <2>4, FailureSound DEF RecordFailure, SetBreaker, IInv, Sound
  <2>5. CASE \/ CheckLimit(p) \/ Acquire(p) \/ Request(p) \/ FetchFails(p)
             \/ FetchThrottled(p) \/ Process(p)
    BY <2>5 DEF CheckLimit, Acquire, Request, FetchFails, FetchThrottled, Process,
                IInv, Sound
  <2>6. QED
    BY <1>1, <2>1, <2>2, <2>3, <2>4, <2>5 DEF Ingest
<1>2. ASSUME NEW p \in Threads, Health(p) PROVE IInv'
  <2>1. CASE CheckHealth(p)
    BY <2>1, EvaluateSound DEF CheckHealth, SetBreaker, IInv, Sound
  <2>2. CASE CheckCooldown(p)
    BY <2>2 DEF CheckCooldown, IInv, Sound
  <2>3. CASE ProbeAnswers(p)
    BY <2>3, SuccessSound, FailureSound DEF ProbeAnswers, SetBreaker, IInv, Sound
  <2>4. CASE ProbeRaises(p)
    BY <2>4, FailureSound DEF ProbeRaises, SetBreaker, IInv, Sound
  <2>5. CASE Report(p)
    BY <2>5, EvaluateSound DEF Report, SetBreaker, IInv, Sound
  <2>6. QED
    BY <1>2, <2>1, <2>2, <2>3, <2>4, <2>5 DEF Health, FinishHealth
<1>3. CASE CooldownElapses \/ WindowSlides \/ RetryAfterPasses \/ ProviderChanges
  BY <1>3 DEF CooldownElapses, WindowSlides, RetryAfterPasses, ProviderChanges, IInv, Sound
<1>4. CASE UNCHANGED vars
  BY <1>4 DEF vars, IInv, Sound
<1>5. QED
  BY <1>1, <1>2, <1>3, <1>4 DEF Next

(* A closed circuit: no failure and no success is counted.                 *)
LEMMA InitiallySound == Init => IInv
BY ConstantsAssumption DEF Init, IInv, Sound, Tracker, CircuitState

(* The circuit is closed exactly as long as the failures in a row stay     *)
(* below the threshold, whatever the calls and their order.                *)
THEOREM BreakerSafety == Spec => []ClosedBelowThreshold
<1>1. IInv => ClosedBelowThreshold
  BY DEF IInv, Sound, ClosedBelowThreshold
<1>2. QED
  BY <1>1, InitiallySound, Invariance, PTL DEF Spec

(* Every half-open phase of the circuit counts its successes from zero.    *)
THEOREM ProbeSafety == Spec => []ProbesCountedAfresh
<1>1. IInv => ProbesCountedAfresh
  BY DEF IInv, Sound, ProbesCountedAfresh
<1>2. QED
  BY <1>1, InitiallySound, Invariance, PTL DEF Spec

-----------------------------------------------------------------------------
(* The circuit implements CircuitBreaker. *)

(* A half-open phase has not had its last success, and only an open circuit  *)
(* has cooled down.                                                        *)
CircuitInv ==
  /\ IInv
  /\ breaker.succs < SuccessThreshold
  /\ cooled \in BOOLEAN
  /\ cooled => breaker.state = "OPEN"

(* What CircuitBreaker counts of a tracker.                                *)
Failures(t) == IF t.state = "CLOSED" THEN t.fails ELSE 0
Successes(t) == IF t.state = "HALF_OPEN" THEN t.succs ELSE 0
circuit == <<breaker.state, Failures(breaker), Successes(breaker), cooled>>

(* A sound tracker's counts are numbers below the thresholds.              *)
LEMMA SoundCounts ==
  ASSUME CircuitInv
  PROVE  /\ breaker.state \in CircuitState
         /\ breaker.fails \in Nat /\ breaker.fails <= FailureThreshold
         /\ breaker.succs \in Nat /\ breaker.succs < SuccessThreshold
         /\ breaker.state = "CLOSED" <=> breaker.fails < FailureThreshold
         /\ breaker.state # "HALF_OPEN" => breaker.succs = 0
         /\ breaker = [state |-> breaker.state, fails |-> breaker.fails,
                       succs |-> breaker.succs]
         /\ cooled \in BOOLEAN /\ (cooled => breaker.state = "OPEN")
         /\ FailureThreshold \in Nat \ {0} /\ SuccessThreshold \in Nat \ {0}
BY ConstantsAssumption DEF CircuitInv, IInv, Sound, Tracker

(* get_state and get_status half open a circuit that has cooled down.      *)
LEMMA EvaluateStep ==
  ASSUME CircuitInv, SetBreaker(Evaluate(breaker)) \/ SetBreaker(StatusEvaluate(breaker))
  PROVE  CircuitInv' /\ (CB!HalfOpen \/ UNCHANGED circuit)
<1>1. IInv'
  BY EvaluateSound DEF CircuitInv, IInv, SetBreaker, Sound
<1>2. CASE breaker.state = "OPEN" /\ cooled
  <2>1. /\ breaker' = [state |-> "HALF_OPEN", fails |-> breaker.fails, succs |-> 0]
        /\ cooled' = FALSE
    BY <1>2, SoundCounts DEF SetBreaker, Evaluate, StatusEvaluate
  <2> QED
    BY <1>1, <1>2, <2>1, SoundCounts DEF CircuitInv, CB!HalfOpen, CB!Become
<1>3. CASE ~(breaker.state = "OPEN" /\ cooled)
  <2>1. breaker' = breaker /\ cooled' = FALSE /\ cooled = FALSE
    BY <1>3, SoundCounts DEF SetBreaker, Evaluate, StatusEvaluate
  <2> QED
    BY <1>1, <2>1, SoundCounts DEF CircuitInv, circuit, Failures, Successes
<1> QED
  BY <1>2, <1>3

(* record_success counts in a half-open phase, or ends a row of failures;  *)
(* of an open circuit it is the late answer that changes nothing.          *)
LEMMA SuccessStep ==
  ASSUME CircuitInv, SetBreaker(Success(breaker))
  PROVE  CircuitInv' /\ (CB!Succeed \/ CB!Close \/ UNCHANGED circuit)
<1>1. IInv'
  BY SuccessSound DEF CircuitInv, IInv, SetBreaker, Sound
<1>2. CASE breaker.state = "HALF_OPEN" /\ breaker.succs + 1 >= SuccessThreshold
  <2>1. /\ breaker' = [state |-> "CLOSED", fails |-> 0, succs |-> 0]
        /\ cooled' = FALSE
    BY <1>2 DEF SetBreaker, Success
  <2>2. breaker.succs + 1 = SuccessThreshold /\ 0 < SuccessThreshold
    BY <1>2, SoundCounts
  <2> QED
    BY <1>1, <1>2, <2>1, <2>2, SoundCounts DEF CircuitInv, CB!Close, CB!Become
<1>3. CASE breaker.state = "HALF_OPEN" /\ ~(breaker.succs + 1 >= SuccessThreshold)
  <2>1. /\ breaker' = [state |-> "HALF_OPEN", fails |-> breaker.fails,
                       succs |-> breaker.succs + 1]
        /\ cooled' = FALSE /\ cooled = FALSE
    BY <1>3, SoundCounts DEF SetBreaker, Success
  <2>2. breaker.succs + 1 < SuccessThreshold
    BY <1>3, SoundCounts
  <2> QED
    BY <1>1, <1>3, <2>1, <2>2, SoundCounts DEF CircuitInv, CB!Succeed
<1>4. CASE breaker.state = "CLOSED"
  <2>1. /\ breaker' = [state |-> "CLOSED", fails |-> 0, succs |-> 0]
        /\ cooled' = FALSE
    BY <1>4, SoundCounts DEF SetBreaker, Success
  <2> QED
    BY <1>1, <1>4, <2>1, SoundCounts DEF CircuitInv, CB!Close, CB!Become
<1>5. CASE breaker.state = "OPEN"
  <2>1. breaker' = breaker /\ cooled' = cooled
    BY <1>5, SoundCounts DEF SetBreaker, Success
  <2> QED
    BY <1>1, <2>1, SoundCounts DEF CircuitInv, circuit, Failures, Successes
<1> QED
  BY <1>2, <1>3, <1>4, <1>5, SoundCounts DEF CircuitState

(* record_failure counts in a closed circuit, trips it at the threshold,   *)
(* or ends a half-open phase.                                              *)
LEMMA FailureStep ==
  ASSUME CircuitInv, SetBreaker(Failure(breaker))
  PROVE  CircuitInv' /\ (CB!Fail \/ CB!Trip \/ UNCHANGED circuit)
<1>1. IInv'
  BY FailureSound DEF CircuitInv, IInv, SetBreaker, Sound
<1>2. CASE breaker.state = "HALF_OPEN"
  <2>1. /\ breaker' = [state |-> "OPEN", fails |-> OneMore(breaker.fails), succs |-> 0]
        /\ cooled' = FALSE
    BY <1>2, SoundCounts DEF SetBreaker, Failure
  <2>2. 0 < SuccessThreshold
    BY SoundCounts
  <2> QED
    BY <1>1, <1>2, <2>1, <2>2, SoundCounts DEF CircuitInv, CB!Trip, CB!Become
<1>3. CASE breaker.state = "CLOSED" /\ breaker.fails + 1 >= FailureThreshold
  <2>1. /\ breaker' = [state |-> "OPEN", fails |-> breaker.fails + 1, succs |-> 0]
        /\ cooled' = FALSE
    BY <1>3, SoundCounts DEF SetBreaker, Failure, OneMore
  <2>2. breaker.fails + 1 = FailureThreshold
    BY <1>3, SoundCounts
  <2> QED
    BY <1>1, <1>3, <2>1, <2>2, SoundCounts DEF CircuitInv, CB!Trip, CB!Become
<1>4. CASE breaker.state = "CLOSED" /\ ~(breaker.fails + 1 >= FailureThreshold)
  <2>1. /\ breaker' = [state |-> "CLOSED", fails |-> breaker.fails + 1, succs |-> 0]
        /\ cooled' = FALSE /\ cooled = FALSE
    BY <1>4, SoundCounts DEF SetBreaker, Failure, OneMore
  <2>2. breaker.fails + 1 < FailureThreshold
    BY <1>4, SoundCounts
  <2> QED
    BY <1>1, <1>4, <2>1, <2>2, SoundCounts DEF CircuitInv, CB!Fail
<1>5. CASE breaker.state = "OPEN"
  <2>1. /\ breaker'.state = "OPEN" /\ breaker'.succs = breaker.succs
        /\ cooled' = cooled
    BY <1>5, SoundCounts DEF SetBreaker, Failure
  <2> QED
    BY <1>1, <1>5, <2>1, SoundCounts DEF CircuitInv, circuit, Failures, Successes
<1> QED
  BY <1>2, <1>3, <1>4, <1>5, SoundCounts DEF CircuitState

(* What does not look at the breaker leaves the circuit as it is.          *)
LEMMA CircuitKept ==
  ASSUME CircuitInv, UNCHANGED <<breaker, cooled>>
  PROVE  CircuitInv' /\ UNCHANGED circuit
BY DEF CircuitInv, IInv, Sound, circuit, Failures, Successes

(* A health check that began with the circuit closed leaves the breaker    *)
(* alone.                                                                  *)
LEMMA UncountedStep ==
  ASSUME CircuitInv, SetBreaker(breaker)
  PROVE  UNCHANGED <<breaker, cooled>>
BY SoundCounts DEF SetBreaker

(* Every step of every thread moves the circuit as CircuitBreaker does, or *)
(* not at all.                                                             *)
LEMMA CircuitStep ==
  ASSUME CircuitInv, [Next]_vars
  PROVE  CircuitInv' /\ (CB!Next \/ UNCHANGED circuit)
<1>1. ASSUME NEW p \in Threads, Ingest(p)
      PROVE  CircuitInv' /\ (CB!Next \/ UNCHANGED circuit)
  <2>1. CASE CanExecute(p) \/ Deny(p)
    BY <2>1, EvaluateStep DEF CanExecute, Deny, CB!Next
  <2>2. CASE FetchSucceeds(p)
    BY <2>2, SuccessStep DEF FetchSucceeds, CB!Next
  <2>3. CASE RecordFailure(p)
    BY <2>3, FailureStep DEF RecordFailure, CB!Next
  <2>4. CASE \/ CheckLimit(p) \/ Acquire(p) \/ Request(p) \/ FetchFails(p)
             \/ FetchThrottled(p) \/ Process(p)
    BY <2>4, CircuitKept DEF CheckLimit, Acquire, Request, FetchFails, FetchThrottled,
       Process
  <2> QED
    BY <1>1, <2>1, <2>2, <2>3, <2>4 DEF Ingest
<1>2. ASSUME NEW p \in Threads, Health(p)
      PROVE  CircuitInv' /\ (CB!Next \/ UNCHANGED circuit)
  <2>1. CASE CheckHealth(p) \/ Report(p)
    BY <2>1, EvaluateStep DEF CheckHealth, Report, CB!Next
  <2>2. CASE CheckCooldown(p)
    BY <2>2, CircuitKept DEF CheckCooldown
  <2>3. CASE ProbeAnswers(p)
    <3>1. \/ SetBreaker(Success(breaker)) \/ SetBreaker(Failure(breaker))
          \/ SetBreaker(breaker)
      BY <2>3 DEF ProbeAnswers
    <3> QED
      BY <3>1, SuccessStep, FailureStep, UncountedStep, CircuitKept DEF CB!Next
  <2>4. CASE ProbeRaises(p)
    BY <2>4, FailureStep DEF ProbeRaises, CB!Next
  <2> QED
    BY <1>2, <2>1, <2>2, <2>3, <2>4 DEF Health, FinishHealth
<1>3. CASE CooldownElapses
  <2>1. CB!CoolDown
    BY <1>3 DEF CooldownElapses, CB!CoolDown
  <2>2. CircuitInv'
    BY <1>3 DEF CooldownElapses, CircuitInv, IInv, Sound
  <2> QED
    BY <2>1, <2>2 DEF CB!Next
<1>4. CASE WindowSlides \/ RetryAfterPasses \/ ProviderChanges \/ UNCHANGED vars
  BY <1>4, CircuitKept DEF WindowSlides, RetryAfterPasses, ProviderChanges, vars
<1> QED
  BY <1>1, <1>2, <1>3, <1>4 DEF Next

(* The breaker implements CircuitBreaker under any number of threads that  *)
(* ingest and check the provider's health: what is counted for a probe is  *)
(* never more than the successes of that half-open phase.                  *)
THEOREM CircuitRefinement == Spec => RefinesCircuit
<1>1. Init => CircuitInv /\ CB!Init
  <2>1. 0 < SuccessThreshold
    BY ConstantsAssumption
  <2>2. Init => /\ breaker.state = "CLOSED" /\ breaker.fails = 0 /\ breaker.succs = 0
                /\ cooled = FALSE
    BY DEF Init
  <2>3. Init => CB!Init
    BY <2>2 DEF CB!Init
  <2>4. Init => CircuitInv
    BY <2>1, <2>2, InitiallySound DEF CircuitInv
  <2> QED
    BY <2>3, <2>4
<1>2. CircuitInv /\ [Next]_vars => CircuitInv' /\ [CB!Next]_(CB!vars)
  BY CircuitStep DEF CB!vars, circuit, Failures, Successes
<1> QED
  BY <1>1, <1>2, PTL DEF Spec, RefinesCircuit, CB!Spec

-----------------------------------------------------------------------------
Running ==
  [step : {"denied", "check", "acquire", "fetch", "wait", "process", "failed",
           "health", "probe", "report"},
   seen : CircuitState, retries : 0..MaxRetries]

(* A call that is under way goes from step to step with what it remembers. *)
LEMMA GotoTyped ==
  ASSUME TypeOK, NEW p \in Threads, NEW from, At(p, from), from # "idle",
         NEW step \in {"acquire", "fetch", "wait", "process", "failed", "probe", "report"},
         Goto(p, step)
  PROVE  thread' \in [Threads -> {Idle} \cup Running]
<1>1. thread[p] \in Running
  BY DEF TypeOK, At, Idle, Running
<1>2. [step |-> step, seen |-> thread[p].seen, retries |-> thread[p].retries] \in Running
  BY <1>1 DEF Running
<1>3. QED
  BY <1>2 DEF TypeOK, Goto, Running

(* A call starts out with the circuit as it sees it, or ends.              *)
LEMMA StartTyped ==
  ASSUME TypeOK, NEW p \in Threads, breaker' \in Tracker,
         \/ Answer(p)
         \/ \E step \in {"denied", "check", "health"} : Start(p, step)
  PROVE  thread' \in [Threads -> {Idle} \cup Running]
<1>1. CASE Answer(p)
  BY <1>1 DEF TypeOK, Answer, Running
<1>2. ASSUME NEW step \in {"denied", "check", "health"}, Start(p, step)
      PROVE  thread' \in [Threads -> {Idle} \cup Running]
  <2>1. [step |-> step, seen |-> breaker'.state, retries |-> 0] \in Running
    BY ConstantsAssumption DEF Running, Tracker
  <2>2. QED
    BY <1>2, <2>1 DEF TypeOK, Start, Running
<1>3. QED
  BY <1>1, <1>2

(* A retry is counted, and never one beyond max_retries.                   *)
LEMMA RetryTyped ==
  ASSUME TypeOK, NEW p \in Threads, At(p, "wait"), Retry(p)
  PROVE  thread' \in [Threads -> {Idle} \cup Running]
<1>1. thread[p] \in Running
  BY DEF TypeOK, At, Idle, Running
<1>2. CASE Goto(p, "failed")
  BY <1>2, GotoTyped
<1>3. ASSUME thread[p].retries < MaxRetries,
             thread' = [thread EXCEPT ![p] = [step |-> "fetch", seen |-> thread[p].seen,
                                              retries |-> thread[p].retries + 1]]
      PROVE  thread' \in [Threads -> {Idle} \cup Running]
  <2>1. [step |-> "fetch", seen |-> thread[p].seen, retries |-> thread[p].retries + 1]
          \in Running
    BY <1>1, <1>3, ConstantsAssumption DEF Running
  <2>2. QED
    BY <1>3, <2>1 DEF TypeOK, Running
<1>4. QED
  BY <1>2, <1>3 DEF Retry

(* Every step keeps the types of all variables.                            *)
LEMMA TypeStep == TypeOK /\ IInv /\ [Next]_vars => TypeOK'
<1> SUFFICES ASSUME TypeOK, IInv, [Next]_vars PROVE TypeOK'
  OBVIOUS
<1>1. breaker' \in Tracker
  BY Invariance DEF IInv, Sound
<1>2. ASSUME NEW p \in Threads, Ingest(p) PROVE TypeOK'
  <2>1. CASE CanExecute(p)
    BY <1>1, <2>1, StartTyped DEF CanExecute, SetBreaker, TypeOK, Running
  <2>2. CASE Deny(p)
    BY <1>1, <2>2, StartTyped DEF Deny, SetBreaker, TypeOK, Running
  <2>3. CASE CheckLimit(p)
    BY <2>3, GotoTyped DEF CheckLimit, TypeOK, Running
  <2>4. CASE Acquire(p)
    BY <2>4, GotoTyped DEF Acquire, TypeOK, Running
  <2>5. CASE Request(p)
    BY <2>5, GotoTyped DEF Request, TypeOK, Running
  <2>6. CASE FetchSucceeds(p)
    BY <1>1, <2>6, GotoTyped DEF FetchSucceeds, SetBreaker, TypeOK, Running
  <2>7. CASE FetchFails(p)
    BY <2>7, GotoTyped, RetryTyped DEF FetchFails, TypeOK, Running
  <2>8. CASE FetchThrottled(p)
    BY <2>8, RetryTyped DEF FetchThrottled, TypeOK, Running
  <2>9. CASE Process(p)
    BY <1>1, <2>9, GotoTyped, StartTyped DEF Process, TypeOK, Running
  <2>10. CASE RecordFailure(p)
    BY <1>1, <2>10, StartTyped DEF RecordFailure, SetBreaker, TypeOK, Running
  <2>11. QED
    BY <1>2, <2>1, <2>2, <2>3, <2>4, <2>5, <2>6, <2>7, <2>8, <2>9, <2>10 DEF Ingest
<1>3. ASSUME NEW p \in Threads, Health(p) PROVE TypeOK'
  <2>1. CASE CheckHealth(p)
    BY <1>1, <2>1, StartTyped DEF CheckHealth, SetBreaker, TypeOK, Running
  <2>2. CASE CheckCooldown(p)
    BY <1>1, <2>2, GotoTyped, StartTyped DEF CheckCooldown, TypeOK, Running
  <2>3. CASE ProbeAnswers(p)
    BY <1>1, <2>3, StartTyped DEF ProbeAnswers, SetBreaker, TypeOK, Running
  <2>4. CASE ProbeRaises(p)
    BY <1>1, <2>4, GotoTyped DEF ProbeRaises, SetBreaker, TypeOK, Running
  <2>5. CASE Report(p)
    BY <1>1, <2>5, StartTyped DEF Report, SetBreaker, TypeOK, Running
  <2>6. QED
    BY <1>3, <2>1, <2>2, <2>3, <2>4, <2>5 DEF Health, FinishHealth
<1>4. CASE CooldownElapses \/ WindowSlides \/ RetryAfterPasses \/ ProviderChanges
  <2>1. CASE CooldownElapses
    BY <2>1 DEF CooldownElapses, TypeOK
  <2>2. CASE WindowSlides
    <3>1. window' \in Nat
      BY <2>2 DEF WindowSlides, TypeOK
    <3>2. QED
      BY <2>2, <3>1 DEF WindowSlides, TypeOK
  <2>3. CASE RetryAfterPasses
    BY <2>3 DEF RetryAfterPasses, TypeOK
  <2>4. CASE ProviderChanges
    BY <2>4 DEF ProviderChanges, TypeOK
  <2>5. QED
    BY <1>4, <2>1, <2>2, <2>3, <2>4
<1>5. CASE UNCHANGED vars
  BY <1>5 DEF vars, TypeOK
<1>6. QED
  BY <1>2, <1>3, <1>4, <1>5 DEF Next

(* Every variable of the model keeps its type.                             *)
THEOREM TypeCorrect == Spec => []TypeOK
<1>1. Init => TypeOK
  <2>1. Init => breaker \in Tracker /\ window \in Nat
    BY ConstantsAssumption DEF Init, Tracker, CircuitState
  <2>2. Init => thread \in [Threads -> {Idle} \cup Running]
    BY DEF Init
  <2>3. QED
    BY <2>1, <2>2 DEF Init, TypeOK, Running
<1>2. QED
  BY <1>1, InitiallySound, Invariance, TypeStep, PTL DEF Spec

-----------------------------------------------------------------------------
(* Only acquire takes a token, and it looks and takes in one step.         *)
LEMMA TokenStep == TypeOK /\ TokensWithinLimit /\ [Next]_vars => TokensWithinLimit'
<1> SUFFICES ASSUME TypeOK, TokensWithinLimit, [Next]_vars PROVE TokensWithinLimit'
  OBVIOUS
<1>1. CASE window' = window
  BY <1>1 DEF TokensWithinLimit
<1>2. ASSUME NEW p \in Threads, Acquire(p) PROVE TokensWithinLimit'
  BY <1>2, ConstantsAssumption DEF Acquire, Allowed, TokensWithinLimit, TypeOK
<1>3. CASE WindowSlides
  BY <1>3, ConstantsAssumption DEF WindowSlides, TokensWithinLimit, TypeOK
<1>4. window' = window \/ WindowSlides \/ \E p \in Threads : Acquire(p)
  BY DEF Next, Ingest, Health, vars, CanExecute, Deny, CheckLimit, Request, FetchSucceeds,
         FetchFails, FetchThrottled, Process, RecordFailure, CheckHealth,
         CheckCooldown, ProbeAnswers, ProbeRaises, Report, FinishHealth, CooldownElapses, RetryAfterPasses,
         ProviderChanges
<1>5. QED
  BY <1>1, <1>2, <1>3, <1>4

(* Tokens are never taken beyond the limit, for any number of threads that *)
(* look with check_limit and take with acquire.                            *)
THEOREM TokenSafety == Spec => []TokensWithinLimit
<1>1. Init => TokensWithinLimit
  BY ConstantsAssumption DEF Init, TokensWithinLimit
<1>2. QED
  BY <1>1, TypeCorrect, TokenStep, PTL DEF Spec

-----------------------------------------------------------------------------
(* LiveMap                                                                 *)

CONSTANTS Vessels, Aircraft, Refused, Clients, Cap, Keep, FeedCap, MaxTime
VARIABLES now, horizon, latest, feed, probing, cache, broadcast, active, conn,
          snapshot, view, inHand, signals

Map == INSTANCE LiveMap

(* Dictionaries of objects merged and cut are dictionaries of objects.     *)
LEMMA BlankPicture ==
  ASSUME MaxTime \in Nat PROVE Map!Blank \in Map!Picture
BY DEF Map!Blank, Map!Picture, Map!Times

LEMMA OverPicture ==
  ASSUME NEW f \in Map!Picture, NEW g \in Map!Picture
  PROVE  Map!Over(f, g) \in Map!Picture
BY DEF Map!Over, Map!Picture

LEMMA OnlyPicture ==
  ASSUME MaxTime \in Nat, NEW f \in Map!Picture, NEW kept
  PROVE  Map!Only(f, kept) \in Map!Picture
BY DEF Map!Only, Map!Picture, Map!Times

(* A cut keeps of each object what it was or nothing.                        *)
LEMMA CutPicture ==
  ASSUME MaxTime \in Nat, NEW f \in Map!Picture, NEW cap, NEW keep,
         NEW g \in Map!Cuts(f, cap, keep)
  PROVE  /\ g \in Map!Picture
         /\ \A o \in Map!Objects : g[o] # 0 => g[o] = f[o]
<1>1. g = f \/ \E kept : g = Map!Only(f, kept)
  BY DEF Map!Cuts
<1>2. CASE g = f
  BY <1>2
<1>3. ASSUME NEW kept, g = Map!Only(f, kept)
      PROVE  /\ g \in Map!Picture
             /\ \A o \in Map!Objects : g[o] # 0 => g[o] = f[o]
  BY <1>3, OnlyPicture DEF Map!Only
<1>4. QED
  BY <1>1, <1>2, <1>3

(* Drawing a frame on a map gives a map.                                     *)
LEMMA DrawPicture ==
  ASSUME MaxTime \in Nat, NEW f \in Map!Picture, NEW frame, frame.at \in Map!Picture
  PROVE  Map!Draw(f, frame) \in Map!Picture
<1>1. CASE frame.kind = "remove"
  BY <1>1 DEF Map!Draw, Map!Picture, Map!Times
<1>2. CASE frame.kind # "remove"
  BY <1>2, OverPicture DEF Map!Draw
<1>3. QED
  BY <1>1, <1>2

(* A new frame is of the right type.                                         *)
LEMMA BroadcastTyped ==
  ASSUME Map!TypeOK, NEW t \in Map!Tasks, NEW kind \in {"position_update", "remove"},
         NEW at \in Map!Picture, Map!Broadcast(t, kind, at)
  PROVE  broadcast' \in [Map!Tasks -> Map!Frames \cup {Map!Idle}]
<1>1. [kind |-> kind, at |-> at, left |-> active] \in Map!Frames
  BY DEF Map!TypeOK, Map!Frames
<1>2. QED
  BY <1>1 DEF Map!TypeOK, Map!Broadcast

(* What the cache becomes when a provider reports: of each object its old    *)
(* place or the new one.                                                     *)
LEMMA UpdateTyped ==
  ASSUME MaxTime \in Nat, Map!TypeOK, now < MaxTime, NEW t \in Map!Tasks, NEW objs,
         Map!HandleProviderUpdate(t, objs)
  PROVE  /\ cache' \in Map!Picture
         /\ broadcast' \in [Map!Tasks -> Map!Frames \cup {Map!Idle}]
         /\ \A o \in Map!Objects :
              cache'[o] # 0 => cache'[o] = IF o \in objs THEN now + 1 ELSE cache[o]
<1> DEFINE fresh == [o \in Map!Objects |-> IF o \in objs THEN now + 1 ELSE 0]
<1>1. fresh \in Map!Picture
  BY DEF Map!Picture, Map!Times, Map!TypeOK
<1>2. Map!Over(fresh, cache) \in Map!Picture
  BY <1>1, OverPicture DEF Map!TypeOK
<1>3. \A o \in Map!Objects :
        Map!Over(fresh, cache)[o] = IF o \in objs THEN now + 1 ELSE cache[o]
  BY DEF Map!Over, Map!TypeOK, Map!Times
<1>4. cache' \in Map!Cuts(Map!Over(fresh, cache), Cap, Keep)
  BY DEF Map!HandleProviderUpdate
<1>5. Map!Broadcast(t, "position_update", fresh)
  BY DEF Map!HandleProviderUpdate
<1> HIDE DEF fresh
<1>6. QED
  BY <1>1, <1>2, <1>3, <1>4, <1>5, CutPicture, BroadcastTyped

(* So are the cache after a query and the table after a cycle.             *)
LEMMA RefreshedPicture ==
  ASSUME Map!TypeOK PROVE Map!Refreshed \in Map!Picture
BY OverPicture DEF Map!Refreshed, Map!TypeOK

LEMMA PersistedPicture ==
  ASSUME Map!TypeOK, NEW frame \in Map!Picture
  PROVE  Map!Persisted(frame) \in Map!Picture
BY OverPicture DEF Map!Persisted, Map!TypeOK

(* A frame sent leaves the rest of its round, or none.                     *)
LEMMA SendTyped ==
  ASSUME MaxTime \in Nat, Map!TypeOK, NEW t \in Map!Tasks, NEW c \in Clients, Map!Send(t, c)
  PROVE  Map!TypeOK'
<1> DEFINE left == broadcast[t].left \ {c}
           next == IF left = {} THEN Map!Idle ELSE [broadcast[t] EXCEPT !.left = left]
<1>1. broadcast[t] \in Map!Frames
  BY DEF Map!Send, Map!TypeOK, Map!Idle
<1>2. next \in Map!Frames \cup {Map!Idle}
  BY <1>1 DEF Map!Frames
<1>3. broadcast' = [broadcast EXCEPT ![t] = next]
  BY DEF Map!Send
<1>4. broadcast' \in [Map!Tasks -> Map!Frames \cup {Map!Idle}]
  BY <1>2, <1>3 DEF Map!TypeOK
<1>5. Map!Draw(view[c], broadcast[t]) \in Map!Picture
  BY <1>1, DrawPicture DEF Map!TypeOK, Map!Frames
<1>6. view' \in [Clients -> Map!Picture] /\ active' \subseteq Clients
  BY <1>5 DEF Map!Send, Map!TypeOK
<1>7. QED
  BY <1>4, <1>6 DEF Map!Send, Map!TypeOK, Map!clock

(* Every step of the live map keeps the types.                             *)
LEMMA StepTyped ==
  ASSUME MaxTime \in Nat, Map!TypeOK, [Map!Next]_(Map!vars)
  PROVE  Map!TypeOK'
<1>1. ASSUME NEW o \in Vessels, Map!VesselReports(o) PROVE Map!TypeOK'
  <2> DEFINE mine == [Map!Only(feed, Vessels) EXCEPT ![o] = now + 1]
  <2>1. o \in Map!Objects /\ now + 1 \in Map!Times
    BY <1>1 DEF Map!Objects, Map!VesselReports, Map!TypeOK, Map!Times
  <2>2. mine \in Map!Picture
    BY <2>1, OnlyPicture DEF Map!TypeOK, Map!Picture
  <2>3. PICK vessels \in Map!Cuts(mine, FeedCap, FeedCap) :
          feed' = Map!Over(vessels, Map!Only(feed, Aircraft))
    BY <1>1 DEF Map!VesselReports
  <2>4. feed' \in Map!Picture
    BY <2>2, <2>3, CutPicture, OnlyPicture, OverPicture DEF Map!TypeOK
  <2>5. cache' \in Map!Picture /\ broadcast' \in [Map!Tasks -> Map!Frames \cup {Map!Idle}]
    BY <1>1, UpdateTyped DEF Map!VesselReports, Map!Tasks
  <2>6. latest' \in Map!Picture
    BY <1>1, <2>1 DEF Map!VesselReports, Map!TypeOK, Map!Picture
  <2>7. now' \in Map!Times /\ horizon' \in 0..now'
    BY <1>1 DEF Map!VesselReports, Map!TypeOK, Map!Times
  <2>8. QED
    BY <1>1, <2>4, <2>5, <2>6, <2>7 DEF Map!VesselReports, Map!TypeOK
<1>2. ASSUME NEW objs \in SUBSET Aircraft, Map!AircraftPolled(objs) PROVE Map!TypeOK'
  <2>1. now + 1 \in Map!Times /\ 0 \in Map!Times
    BY <1>2 DEF Map!AircraftPolled, Map!TypeOK, Map!Times
  <2>2. feed' \in Map!Picture /\ latest' \in Map!Picture
    BY <1>2, <2>1 DEF Map!AircraftPolled, Map!TypeOK, Map!Picture
  <2>3. cache' \in Map!Picture /\ broadcast' \in [Map!Tasks -> Map!Frames \cup {Map!Idle}]
    BY <1>2, UpdateTyped DEF Map!AircraftPolled, Map!Tasks, Map!TypeOK
  <2>4. now' \in Map!Times /\ horizon' \in 0..now'
    BY <1>2 DEF Map!AircraftPolled, Map!TypeOK, Map!Times
  <2>5. QED
    BY <1>2, <2>2, <2>3, <2>4 DEF Map!AircraftPolled, Map!TypeOK
<1>3. CASE Map!PollFails \/ Map!GetObjects
  BY <1>3, RefreshedPicture DEF Map!PollFails, Map!GetObjects, Map!TypeOK, Map!clock, Map!wire
<1>4. CASE Map!Prune
  <2> DEFINE stale == {o \in Map!Seen(cache) : cache[o] <= horizon}
  <2>1. cache' = Map!Only(cache, Map!Objects \ stale)
        /\ Map!Broadcast("cleaner", "remove", Map!Only(cache, stale))
    BY <1>4 DEF Map!Prune
  <2> HIDE DEF stale
  <2>2. cache' \in Map!Picture
    BY <2>1, OnlyPicture DEF Map!TypeOK
  <2>3. Map!Only(cache, stale) \in Map!Picture
    BY OnlyPicture DEF Map!TypeOK
  <2>4. broadcast' \in [Map!Tasks -> Map!Frames \cup {Map!Idle}]
    BY <2>1, <2>3, BroadcastTyped DEF Map!Tasks
  <2>5. QED
    BY <1>4, <2>2, <2>4 DEF Map!Prune, Map!TypeOK, Map!clock
<1>5. CASE Map!Age
  BY <1>5 DEF Map!Age, Map!TypeOK, Map!wire, Map!Times
<1>6. CASE Map!Deliver
  BY <1>6, SendTyped DEF Map!Deliver
<1>7. ASSUME NEW c \in Clients, Map!Connect(c) PROVE Map!TypeOK'
  BY <1>7, RefreshedPicture DEF Map!Connect, Map!TypeOK, Map!clock
<1>8. ASSUME NEW c \in Clients,
             Map!SendSnapshot(c) \/ Map!Drop(c) \/ Map!Unregister(c)
      PROVE  Map!TypeOK'
  BY <1>8, BlankPicture DEF Map!SendSnapshot, Map!Drop, Map!Unregister, Map!TypeOK, Map!clock
<1>9. CASE Map!IngestCycle
  BY <1>9, RefreshedPicture, PersistedPicture DEF Map!IngestCycle, Map!TypeOK, Map!clock, Map!wire
<1>10. CASE Map!PersistCycle
  BY <1>10, PersistedPicture DEF Map!PersistCycle, Map!TypeOK, Map!clock, Map!wire
<1>11. CASE UNCHANGED Map!vars
  BY <1>11 DEF Map!vars, Map!clock, Map!wire, Map!TypeOK
<1>12. QED
  BY <1>1, <1>2, <1>3, <1>4, <1>5, <1>6, <1>7, <1>8, <1>9, <1>10, <1>11 DEF Map!Next

(* The map starts out empty.                                               *)
LEMMA InitTyped == ASSUME MaxTime \in Nat, Map!Init PROVE Map!TypeOK
BY BlankPicture DEF Map!Init, Map!TypeOK, Map!Times

(* Every variable of the live map keeps its type, with any caps.           *)
THEOREM MapTypeCorrect ==
  ASSUME MaxTime \in Nat PROVE Map!Spec => []Map!TypeOK
BY InitTyped, StepTyped, PTL DEF Map!Spec

(* A provider remembers an object where it was last reported, or not.      *)
FeedCurrent == \A o \in Map!Objects : feed[o] # 0 => feed[o] = latest[o]

(* No row is of a sighting that was not reported.                          *)
RowsBehind == \A o \in Map!Objects : signals[o] <= latest[o]

(* The worker's frame is of sightings reported, none before the row's.     *)
HandAhead ==
  inHand # Map!NoFrame =>
    \A o \in Map!Objects : inHand[o] # 0 => signals[o] <= inHand[o] /\ inHand[o] <= latest[o]

ReportsPast == \A o \in Map!Objects : latest[o] <= now

MapInv ==
  Map!TypeOK /\ Map!CacheCurrent /\ FeedCurrent /\ ReportsPast /\ RowsBehind /\ HandAhead

(* What get_objects leaves in the cache is where it was last reported.     *)
LEMMA RefreshedCurrent ==
  ASSUME MapInv, NEW o \in Map!Objects, Map!Refreshed[o] # 0
  PROVE  Map!Refreshed[o] = latest[o]
BY DEF MapInv, FeedCurrent, Map!CacheCurrent, Map!Seen, Map!Refreshed, Map!Over

(* The worker writes a frame that is ahead of the table: no row goes back.   *)
LEMMA PersistedAdvances ==
  ASSUME MaxTime \in Nat, Map!TypeOK, NEW frame \in Map!Picture,
         \A o \in Map!Objects :
           frame[o] # 0 => signals[o] <= frame[o] /\ frame[o] <= latest[o],
         \A o \in Map!Objects : signals[o] <= latest[o]
  PROVE  \A o \in Map!Objects : /\ signals[o] <= Map!Persisted(frame)[o]
                                /\ Map!Persisted(frame)[o] <= latest[o]
BY DEF Map!Persisted, Map!Over, Map!TypeOK, Map!Picture, Map!Times

(* A report only moves the time of the last report on. *)
LEMMA ReportAdvances ==
  ASSUME MaxTime \in Nat, MapInv,
         Map!TypeOK', UNCHANGED <<signals, inHand>>,
         \A o \in Map!Objects : latest'[o] >= latest[o]
  PROVE  RowsBehind' /\ HandAhead'
<1>1. \A o \in Map!Objects : signals[o] \in Nat /\ latest[o] \in Nat /\ latest'[o] \in Nat
  BY DEF MapInv, Map!TypeOK, Map!Picture, Map!Times
<1>2. RowsBehind'
  BY <1>1 DEF MapInv, RowsBehind
<1>3. inHand # Map!NoFrame => \A o \in Map!Objects : inHand[o] \in Nat
  BY DEF MapInv, Map!TypeOK, Map!Picture, Map!Times
<1>4. HandAhead'
  BY <1>1, <1>3 DEF MapInv, HandAhead
<1>5. QED
  BY <1>2, <1>4

(* What neither reports nor writes rows keeps what relates them. *)
LEMMA NothingReported ==
  ASSUME MapInv, UNCHANGED <<now, latest, feed, inHand, signals>>
  PROVE  FeedCurrent' /\ ReportsPast' /\ RowsBehind' /\ HandAhead'
<1>1. FeedCurrent'
  BY DEF MapInv, FeedCurrent
<1>2. ReportsPast'
  BY DEF MapInv, ReportsPast
<1>3. RowsBehind'
  BY DEF MapInv, RowsBehind
<1>4. HandAhead'
  BY DEF MapInv, HandAhead
<1>5. QED
  BY <1>1, <1>2, <1>3, <1>4

(* Every step keeps the invariant and puts no row back.                    *)
LEMMA MapStep ==
  ASSUME MaxTime \in Nat, Vessels \cap Aircraft = {}, MapInv, [Map!Next]_(Map!vars)
  PROVE  MapInv' /\ \A o \in Map!Objects : signals'[o] >= signals[o]
<1>1. Map!TypeOK' /\ Map!TypeOK
  BY StepTyped DEF MapInv
<1>2. \A o \in Map!Objects : signals[o] >= signals[o]
  BY DEF MapInv, Map!TypeOK, Map!Picture, Map!Times
<1>3. ASSUME NEW v \in Vessels, Map!VesselReports(v)
      PROVE  MapInv' /\ UNCHANGED signals
  <2> DEFINE mine == [Map!Only(feed, Vessels) EXCEPT ![v] = now + 1]
  <2>1. v \in Map!Objects /\ now + 1 \in Map!Times
    BY <1>1, <1>3 DEF Map!Objects, Map!VesselReports, Map!TypeOK, Map!Times
  <2>2. mine \in Map!Picture
    BY <1>1, <2>1, OnlyPicture DEF Map!TypeOK, Map!Picture
  <2>3. \E vessels \in Map!Cuts(mine, FeedCap, FeedCap) :
          feed' = Map!Over(vessels, Map!Only(feed, Aircraft))
    BY <1>3 DEF Map!VesselReports
  <2>4. \A o \in Map!Objects :
          mine[o] = IF o = v THEN now + 1 ELSE IF o \in Vessels THEN feed[o] ELSE 0
    BY DEF Map!Only
  <2> HIDE DEF mine
  <2>5. PICK vessels \in Map!Cuts(mine, FeedCap, FeedCap) :
          feed' = Map!Over(vessels, Map!Only(feed, Aircraft))
    BY <2>3
  <2>6. \A o \in Map!Objects : vessels[o] # 0 => vessels[o] = mine[o]
    BY <2>2, CutPicture
  <2>7. \A o \in Map!Objects : latest'[o] = IF o = v THEN now + 1 ELSE latest[o]
    BY <1>1, <1>3 DEF Map!VesselReports, Map!TypeOK, Map!Picture
  <2>8. \A o \in Map!Objects :
          feed'[o] = IF vessels[o] # 0 THEN vessels[o]
                     ELSE IF o \in Aircraft THEN feed[o] ELSE 0
    BY <2>5 DEF Map!Over, Map!Only
  <2>9. FeedCurrent'
    BY <2>6, <2>4, <2>7, <2>8 DEF FeedCurrent, MapInv
  <2>10. Map!CacheCurrent'
    BY <1>1, <1>3, <2>7, UpdateTyped
    DEF Map!VesselReports, Map!Tasks, MapInv, Map!CacheCurrent, Map!Seen
  <2>11. \A o \in Map!Objects : latest'[o] >= latest[o]
    <3>1. \A o \in Map!Objects : latest[o] \in Nat /\ latest[o] <= now
      BY <1>1 DEF MapInv, ReportsPast, Map!TypeOK, Map!Picture, Map!Times
    <3>2. now \in Nat
      BY <1>1 DEF Map!TypeOK, Map!Times
    <3>3. QED
      BY <2>7, <3>1, <3>2
  <2>12. ReportsPast'
    BY <1>1, <1>3, <2>7 DEF Map!VesselReports, MapInv, ReportsPast, Map!TypeOK, Map!Picture, Map!Times
  <2>13. RowsBehind' /\ HandAhead'
    BY <1>1, <1>3, <2>11, ReportAdvances DEF Map!VesselReports
  <2>14. QED
    BY <1>1, <1>3, <2>9, <2>10, <2>13, <2>12 DEF Map!VesselReports, MapInv
<1>4. ASSUME NEW objs \in SUBSET Aircraft, Map!AircraftPolled(objs)
      PROVE  MapInv' /\ UNCHANGED signals
  <2>1. \A o \in Map!Objects : latest'[o] = IF o \in objs THEN now + 1 ELSE latest[o]
    BY <1>4 DEF Map!AircraftPolled
  <2>2. \A o \in Map!Objects :
          feed'[o] = IF o \in Aircraft THEN IF o \in objs THEN now + 1 ELSE 0 ELSE feed[o]
    BY <1>4 DEF Map!AircraftPolled
  <2>3. FeedCurrent'
    BY <2>1, <2>2 DEF FeedCurrent, MapInv
  <2>4. ASSUME objs = {} PROVE Map!CacheCurrent'
    BY <1>4, <2>1, <2>4 DEF Map!AircraftPolled, MapInv, Map!CacheCurrent, Map!Seen
  <2>5. ASSUME objs # {} PROVE Map!CacheCurrent'
    BY <1>1, <1>4, <2>1, <2>5, UpdateTyped
    DEF Map!AircraftPolled, Map!Tasks, MapInv, Map!CacheCurrent, Map!Seen
  <2>6. Map!CacheCurrent'
    BY <2>4, <2>5
  <2>7. \A o \in Map!Objects : latest'[o] >= latest[o]
    <3>1. \A o \in Map!Objects : latest[o] \in Nat /\ latest[o] <= now
      BY <1>1 DEF MapInv, ReportsPast, Map!TypeOK, Map!Picture, Map!Times
    <3>2. now \in Nat
      BY <1>1 DEF Map!TypeOK, Map!Times
    <3>3. QED
      BY <2>1, <3>1, <3>2
  <2>8. ReportsPast'
    BY <1>1, <1>4, <2>1 DEF Map!AircraftPolled, MapInv, ReportsPast, Map!TypeOK, Map!Picture, Map!Times
  <2>9. RowsBehind' /\ HandAhead'
    BY <1>1, <1>4, <2>7, ReportAdvances DEF Map!AircraftPolled
  <2>10. QED
    BY <1>1, <1>4, <2>3, <2>6, <2>9, <2>8 DEF Map!AircraftPolled, MapInv
<1>5. CASE \/ Map!PollFails \/ Map!Age \/ Map!Deliver \/ UNCHANGED Map!vars
           \/ \E c \in Clients : Map!SendSnapshot(c) \/ Map!Drop(c) \/ Map!Unregister(c)
  <2>1. UNCHANGED <<now, latest, feed, cache, inHand, signals>>
    BY <1>5 DEF Map!PollFails, Map!Age, Map!Deliver, Map!Send, Map!SendSnapshot, Map!Drop,
                Map!Unregister, Map!vars, Map!clock
  <2>2. QED
    <3>1. Map!CacheCurrent'
      BY <2>1 DEF MapInv, Map!CacheCurrent, Map!Seen
    <3>2. QED
      BY <1>1, <1>2, <2>1, <3>1, NothingReported DEF MapInv
<1>6. CASE Map!GetObjects \/ \E c \in Clients : Map!Connect(c)
  <2>1. cache' = Map!Refreshed /\ UNCHANGED <<now, latest, feed, inHand, signals>>
    BY <1>6 DEF Map!GetObjects, Map!Connect, Map!clock
  <2>2. Map!CacheCurrent'
    BY <2>1, RefreshedCurrent DEF Map!CacheCurrent, Map!Seen
  <2>3. QED
    BY <1>1, <1>2, <2>1, <2>2, NothingReported DEF MapInv
<1>7. CASE Map!Prune
  <2>1. PICK kept : cache' = Map!Only(cache, kept)
    BY <1>7 DEF Map!Prune
  <2>2. UNCHANGED <<now, latest, feed, inHand, signals>>
    BY <1>7 DEF Map!Prune, Map!clock
  <2>3. Map!CacheCurrent'
    BY <2>1, <2>2 DEF MapInv, Map!CacheCurrent, Map!Seen, Map!Only
  <2>4. QED
    BY <1>1, <1>2, <2>2, <2>3, NothingReported DEF MapInv
<1>8. CASE Map!IngestCycle
  <2>1. /\ cache' = Map!Refreshed
        /\ UNCHANGED <<now, latest, feed>>
    BY <1>8 DEF Map!IngestCycle, Map!clock
  <2>2. Map!CacheCurrent'
    BY <2>1, RefreshedCurrent DEF Map!CacheCurrent, Map!Seen
  <2>3. \A o \in Map!Objects :
          Map!Refreshed[o] # 0 => /\ signals[o] <= Map!Refreshed[o]
                                  /\ Map!Refreshed[o] <= latest[o]
    BY <1>1, RefreshedCurrent DEF MapInv, RowsBehind, Map!TypeOK, Map!Picture, Map!Times
  <2>4. CASE probing
    <3>1. inHand' = Map!Refreshed /\ UNCHANGED signals
      BY <1>8, <2>4 DEF Map!IngestCycle
    <3>2. HandAhead' /\ RowsBehind'
      BY <2>1, <2>3, <3>1 DEF MapInv, HandAhead, RowsBehind
    <3>3. QED
      BY <1>1, <1>2, <2>1, <2>2, <3>1, <3>2 DEF MapInv, FeedCurrent, ReportsPast
  <2>5. CASE ~probing
    <3>1. signals' \in {Map!Persisted(Map!Refreshed), signals} /\ inHand' = Map!NoFrame
      BY <1>8, <2>5 DEF Map!IngestCycle
    <3>2. \A o \in Map!Objects : signals[o] <= signals'[o] /\ signals'[o] <= latest[o]
      BY <1>1, <1>2, <2>3, <3>1, RefreshedPicture, PersistedAdvances DEF MapInv, RowsBehind
    <3>3. HandAhead' /\ RowsBehind'
      BY <2>1, <3>1, <3>2 DEF HandAhead, RowsBehind, Map!NoFrame
    <3>4. \A o \in Map!Objects : signals[o] \in Nat /\ signals'[o] \in Nat
      BY <1>1 DEF Map!TypeOK, Map!Picture, Map!Times
    <3>5. QED
      BY <1>1, <2>1, <2>2, <3>2, <3>3, <3>4 DEF MapInv, FeedCurrent, ReportsPast
  <2>6. QED
    BY <2>4, <2>5
<1>9. CASE Map!PersistCycle
  <2>1. /\ inHand # Map!NoFrame /\ inHand \in Map!Picture
        /\ signals' \in {Map!Persisted(inHand), signals}
        /\ inHand' = Map!NoFrame
        /\ UNCHANGED <<now, latest, feed, cache>>
    BY <1>1, <1>9 DEF Map!PersistCycle, Map!clock, Map!TypeOK
  <2>2. \A o \in Map!Objects : signals[o] <= signals'[o] /\ signals'[o] <= latest[o]
    BY <1>1, <1>2, <2>1, PersistedAdvances DEF MapInv, RowsBehind, HandAhead
  <2>3. HandAhead' /\ RowsBehind'
    BY <2>1, <2>2 DEF HandAhead, RowsBehind, Map!NoFrame
  <2>4. \A o \in Map!Objects : signals[o] \in Nat /\ signals'[o] \in Nat
    BY <1>1 DEF Map!TypeOK, Map!Picture, Map!Times
  <2>5. QED
    BY <1>1, <2>1, <2>2, <2>3, <2>4 DEF MapInv, FeedCurrent, ReportsPast, Map!CacheCurrent, Map!Seen
<1>10. QED
  <2>1. CASE \/ \E v \in Vessels : Map!VesselReports(v)
             \/ \E objs \in SUBSET Aircraft : Map!AircraftPolled(objs)
    BY <1>2, <1>3, <1>4, <2>1
  <2>2. QED
    BY <1>2, <1>5, <1>6, <1>7, <1>8, <1>9, <2>1 DEF Map!Next

(* Nothing has been reported, nothing is remembered.                       *)
LEMMA MapInit == ASSUME MaxTime \in Nat, Map!Init PROVE MapInv
BY InitTyped DEF Map!Init, MapInv, Map!CacheCurrent, Map!Seen, FeedCurrent, ReportsPast,
  RowsBehind,  HandAhead, Map!Blank, Map!TypeOK

(* The invariant holds of every run of the live map.                       *)
LEMMA MapInvariance ==
  ASSUME MaxTime \in Nat, Vessels \cap Aircraft = {} PROVE Map!Spec => []MapInv
BY MapInit, MapStep, PTL DEF Map!Spec

(* Queries, polls and the stream write one cache: for any number of them   *)
(* and any caps it never shows an object where it was before its last      *)
(* report.                                                                 *)
THEOREM CacheNeverBehind ==
  ASSUME MaxTime \in Nat, Vessels \cap Aircraft = {} PROVE Map!Spec => []Map!CacheCurrent
<1>1. MapInv => Map!CacheCurrent
  BY DEF MapInv
<1>2. QED
  BY <1>1, MapInvariance, PTL

(* The worker's frame may be older than the cache when it is written: it   *)
(* never puts a row of the signals table back to an earlier sighting.      *)
THEOREM RowsNeverGoBack ==
  ASSUME MaxTime \in Nat, Vessels \cap Aircraft = {} PROVE Map!Spec => Map!RowsAdvance
<1>1. MapInv /\ [Map!Next]_(Map!vars)
      => [\A o \in Map!Objects : signals'[o] >= signals[o]]_(Map!vars)
  BY MapStep
<1>2. QED
  BY <1>1, MapInvariance, PTL DEF Map!Spec, Map!RowsAdvance
=============================================================================
