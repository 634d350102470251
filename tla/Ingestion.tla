------------------------------- MODULE Ingestion -------------------------------
(***************************************************************************)
(* IngestionService for one registered and enabled provider: concurrent    *)
(* calls of ingest and check_health around a ProviderCircuitBreaker, a     *)
(* ProviderRateLimiter and a RetryPolicy.  Each method of the breaker and  *)
(* of the limiter holds its own lock, so it is one step; nothing holds     *)
(* from one method to the next.                                            *)
(***************************************************************************)
EXTENDS Naturals

CONSTANTS
  Threads,           \* threads that ingest or check the provider's health
  FailureThreshold,  \* CircuitBreakerConfig.failure_threshold
  SuccessThreshold,  \* CircuitBreakerConfig.success_threshold
  Limit,             \* RateLimitConfig.requests_per_minute
  MaxRetries,        \* RetryConfig.max_retries
  StorageFails       \* whether a fetched batch may fail to be processed

ASSUME ConstantsAssumption ==
  /\ FailureThreshold \in Nat \ {0} /\ SuccessThreshold \in Nat \ {0}
  /\ Limit \in Nat \ {0} /\ MaxRetries \in Nat
  /\ StorageFails \in BOOLEAN

VARIABLES
  breaker,   \* state tracker of the provider
  cooled,    \* cooldown_seconds have passed since the circuit opened
  window,    \* tokens recorded within the last minute
  blocked,   \* a Retry-After of the provider has not passed yet
  up,        \* the provider answers
  thread     \* the ingest or check_health call of each thread

vars == <<breaker, cooled, window, blocked, up, thread>>

CircuitState == {"CLOSED", "OPEN", "HALF_OPEN"}
Idle == [step |-> "idle"]

(* consecutive_failures is only compared with the threshold.               *)
Tracker == [state : CircuitState, fails : 0..FailureThreshold,
            succs : 0..SuccessThreshold]

TypeOK ==
  /\ breaker \in Tracker
  /\ cooled \in BOOLEAN /\ blocked \in BOOLEAN /\ up \in BOOLEAN
  /\ window \in Nat
  /\ thread \in [Threads ->
       {Idle}
       \cup [step : {"denied", "check", "acquire", "fetch", "wait", "process",
                     "failed", "health", "probe", "report"},
             seen : CircuitState, retries : 0..MaxRetries]]

-----------------------------------------------------------------------------
(* ProviderCircuitBreaker: what a method leaves in the tracker t.          *)

(* get_state                                                               *)
Evaluate(t) ==
  IF t.state = "OPEN" /\ cooled
  THEN [state |-> "HALF_OPEN", fails |-> t.fails, succs |-> 0] ELSE t

(* get_status does not reset the count of successes.                       *)
StatusEvaluate(t) ==
  IF t.state = "OPEN" /\ cooled
  THEN [state |-> "HALF_OPEN", fails |-> t.fails, succs |-> t.succs] ELSE t

SuccessMutant(t) ==   \* > for >=
  IF t.state = "HALF_OPEN"
  THEN IF t.succs + 1 > SuccessThreshold
       THEN [state |-> "CLOSED", fails |-> 0, succs |-> 0]
       ELSE [state |-> "HALF_OPEN", fails |-> t.fails, succs |-> t.succs + 1]
  ELSE IF t.state = "CLOSED"
  THEN [state |-> "CLOSED", fails |-> 0, succs |-> t.succs] ELSE t
Success(t) ==
  IF t.state = "HALF_OPEN"
  THEN IF t.succs + 1 >= SuccessThreshold
       THEN [state |-> "CLOSED", fails |-> 0, succs |-> 0]
       ELSE [state |-> "HALF_OPEN", fails |-> t.fails, succs |-> t.succs + 1]
  ELSE IF t.state = "CLOSED"
  THEN [state |-> "CLOSED", fails |-> 0, succs |-> t.succs] ELSE t

OneMore(n) == IF n < FailureThreshold THEN n + 1 ELSE n

FailureMutant(t) ==   \* a failed probe keeps the successes before it
  IF t.state = "HALF_OPEN" \/ (t.state = "CLOSED" /\ OneMore(t.fails) >= FailureThreshold)
  THEN [state |-> "OPEN", fails |-> OneMore(t.fails), succs |-> t.succs]
  ELSE [state |-> t.state, fails |-> OneMore(t.fails), succs |-> t.succs]
FailureOffByOneMutant(t) ==   \* > for >=
  IF t.state = "HALF_OPEN"
  THEN [state |-> "OPEN", fails |-> OneMore(t.fails), succs |-> 0]
  ELSE IF t.state = "CLOSED" /\ t.fails >= FailureThreshold
  THEN [state |-> "OPEN", fails |-> OneMore(t.fails), succs |-> t.succs]
  ELSE [state |-> t.state, fails |-> OneMore(t.fails), succs |-> t.succs]
Failure(t) ==
  IF t.state = "HALF_OPEN"
  THEN [state |-> "OPEN", fails |-> OneMore(t.fails), succs |-> 0]
  ELSE IF t.state = "CLOSED" /\ OneMore(t.fails) >= FailureThreshold
  THEN [state |-> "OPEN", fails |-> OneMore(t.fails), succs |-> t.succs]
  ELSE [state |-> t.state, fails |-> OneMore(t.fails), succs |-> t.succs]

(* Every opening starts the cooldown.                                      *)
SetBreaker(t) ==
  /\ breaker' = t
  /\ cooled' = (cooled /\ t.state = "OPEN" /\ breaker.state = "OPEN")

-----------------------------------------------------------------------------
(* ProviderRateLimiter                                                     *)

Allowed == ~blocked /\ window < Limit

At(p, step) == thread[p].step = step
Goto(p, step) == thread' = [thread EXCEPT ![p] =
  [step |-> step, seen |-> thread[p].seen, retries |-> thread[p].retries]]
Start(p, step) == thread' = [thread EXCEPT ![p] =
  [step |-> step, seen |-> breaker'.state, retries |-> 0]]
Answer(p) == thread' = [thread EXCEPT ![p] = Idle]

-----------------------------------------------------------------------------
(* ingest                                                                  *)

CanExecute(p) ==
  /\ At(p, "idle")
  /\ SetBreaker(Evaluate(breaker))
  /\ Start(p, IF breaker'.state = "OPEN" THEN "denied" ELSE "check")
  /\ UNCHANGED <<window, blocked, up>>

(* CircuitBreakerOpenError, which is not counted as a failure.             *)
Deny(p) ==
  /\ At(p, "denied")
  /\ SetBreaker(StatusEvaluate(breaker))
  /\ Answer(p)
  /\ UNCHANGED <<window, blocked, up>>

CheckLimit(p) ==
  /\ At(p, "check")
  /\ Goto(p, IF Allowed THEN "acquire" ELSE "failed")
  /\ UNCHANGED <<breaker, cooled, window, blocked, up>>

(* The call goes on whether it was given a token or not.                   *)
Acquire(p) ==
  /\ At(p, "acquire")
  /\ window' = IF Allowed THEN window + 1 ELSE window
  /\ Goto(p, "fetch")
  /\ UNCHANGED <<breaker, cooled, blocked, up>>

Request(p) ==
  /\ At(p, "fetch")
  /\ Goto(p, "wait")
  /\ UNCHANGED <<breaker, cooled, window, blocked, up>>

(* record_success; a late answer counts as well.                           *)
FetchSucceeds(p) ==
  /\ At(p, "wait")
  /\ up
  /\ SetBreaker(Success(breaker))
  /\ Goto(p, "process")
  /\ UNCHANGED <<window, blocked, up>>

(* A retriable error is retried after a delay, up to max_retries times.    *)
RetryMutant(p) ==   \* one retry too many
  \/ /\ thread[p].retries <= MaxRetries
     /\ thread' = [thread EXCEPT ![p] =
          [step |-> "fetch", seen |-> thread[p].seen, retries |-> thread[p].retries + 1]]
  \/ /\ thread[p].retries > MaxRetries
     /\ Goto(p, "failed")
Retry(p) ==
  \/ /\ thread[p].retries < MaxRetries
     /\ thread' = [thread EXCEPT ![p] =
          [step |-> "fetch", seen |-> thread[p].seen, retries |-> thread[p].retries + 1]]
  \/ /\ thread[p].retries = MaxRetries
     /\ Goto(p, "failed")

(* A transient or a permanent error of the provider.                       *)
FetchFails(p) ==
  /\ At(p, "wait")
  /\ ~up
  /\ Retry(p) \/ Goto(p, "failed")
  /\ UNCHANGED <<breaker, cooled, window, blocked, up>>

(* HTTP 429: record_rate_limit, and a retry after at most max_delay.       *)
FetchThrottled(p) ==
  /\ At(p, "wait")
  /\ ~up
  /\ blocked' = TRUE
  /\ Retry(p)
  /\ UNCHANGED <<breaker, cooled, window, up>>

Process(p) ==
  /\ At(p, "process")
  /\ Answer(p) \/ (StorageFails /\ Goto(p, "failed"))
  /\ UNCHANGED <<breaker, cooled, window, blocked, up>>

(* The except branch of ingest: record_failure, whatever the error was.    *)
RecordFailure(p) ==
  /\ At(p, "failed")
  /\ SetBreaker(Failure(breaker))
  /\ Answer(p)
  /\ UNCHANGED <<window, blocked, up>>

-----------------------------------------------------------------------------
(* check_health                                                            *)

CheckHealth(p) ==
  /\ At(p, "idle")
  /\ SetBreaker(StatusEvaluate(breaker))
  /\ IF breaker'.state = "OPEN" THEN UNCHANGED thread ELSE Start(p, "health")
  /\ UNCHANGED <<window, blocked, up>>

CheckCooldown(p) ==
  /\ At(p, "health")
  /\ IF blocked THEN Answer(p) ELSE Goto(p, "probe")
  /\ UNCHANGED <<breaker, cooled, window, blocked, up>>

(* The outcome counts if the circuit was half open when the call began.    *)
ProbeAnswers(p) ==
  /\ At(p, "probe")
  /\ LET counts == thread[p].seen = "HALF_OPEN" IN
     IF up THEN SetBreaker(IF counts THEN Success(breaker) ELSE breaker)
           ELSE SetBreaker(IF counts THEN Failure(breaker) ELSE breaker)
  /\ Answer(p)
  /\ UNCHANGED <<window, blocked, up>>

(* An exception always counts, and the state is read again for the answer. *)
ProbeRaises(p) ==
  /\ At(p, "probe")
  /\ ~up
  /\ SetBreaker(Failure(breaker))
  /\ Goto(p, "report")
  /\ UNCHANGED <<window, blocked, up>>

Report(p) ==
  /\ At(p, "report")
  /\ SetBreaker(Evaluate(breaker))
  /\ Answer(p)
  /\ UNCHANGED <<window, blocked, up>>

-----------------------------------------------------------------------------
(* Time passes, and the provider comes and goes.                           *)

CooldownElapses ==
  /\ breaker.state = "OPEN" /\ ~cooled
  /\ cooled' = TRUE
  /\ UNCHANGED <<breaker, window, blocked, up, thread>>

WindowSlides ==
  /\ window > 0
  /\ window' = window - 1
  /\ UNCHANGED <<breaker, cooled, blocked, up, thread>>

RetryAfterPasses ==
  /\ blocked
  /\ blocked' = FALSE
  /\ UNCHANGED <<breaker, cooled, window, up, thread>>

ProviderChanges ==
  /\ up' = ~up
  /\ UNCHANGED <<breaker, cooled, window, blocked, thread>>

Init ==
  /\ breaker = [state |-> "CLOSED", fails |-> 0, succs |-> 0]
  /\ cooled = FALSE
  /\ window = 0
  /\ blocked = FALSE
  /\ up = TRUE
  /\ thread = [p \in Threads |-> Idle]

Ingest(p) ==
  \/ CanExecute(p) \/ Deny(p) \/ CheckLimit(p) \/ Acquire(p) \/ Request(p)
  \/ FetchSucceeds(p) \/ FetchFails(p) \/ FetchThrottled(p) \/ Process(p)
  \/ RecordFailure(p)
FinishHealth(p) == CheckCooldown(p) \/ ProbeAnswers(p) \/ ProbeRaises(p) \/ Report(p)
Health(p) == CheckHealth(p) \/ FinishHealth(p)

Next ==
  \/ \E p \in Threads : Ingest(p) \/ Health(p)
  \/ CooldownElapses \/ WindowSlides \/ RetryAfterPasses \/ ProviderChanges

Spec == Init /\ [][Next]_vars

(* Threads run, the schedule keeps asking for the provider, and the clocks *)
(* advance.  Nothing is assumed of the provider.                           *)
Fairness ==
  /\ \A p \in Threads :
       /\ WF_vars(Ingest(p))
       /\ WF_vars(FinishHealth(p))
  /\ WF_vars(CooldownElapses) /\ WF_vars(WindowSlides) /\ WF_vars(RetryAfterPasses)

FairSpec == Spec /\ Fairness

-----------------------------------------------------------------------------
(* Properties *)

(* The circuit is closed exactly as long as the failures in a row stay     *)
(* below the threshold: no order of late answers, probes and health checks *)
(* leaves it closed on a failing provider or open without cause.           *)
ClosedBelowThreshold ==
  breaker.state = "CLOSED" <=> breaker.fails < FailureThreshold

(* Every half-open phase counts its successes from zero, although          *)
(* get_status opens one without resetting the counter as get_state does.   *)
ProbesCountedAfresh ==
  breaker.state # "HALF_OPEN" => breaker.succs = 0

(* The circuit as a whole: calls that were let through before it opened,    *)
(* probes and health checks may answer in any order, and still it opens,   *)
(* cools down, half opens and closes only as CircuitBreaker does.  Failures *)
(* are counted when it is open as well, where they mean nothing.           *)
CB == INSTANCE CircuitBreaker WITH
  state <- breaker.state,
  failures <- IF breaker.state = "CLOSED" THEN breaker.fails ELSE 0,
  successes <- IF breaker.state = "HALF_OPEN" THEN breaker.succs ELSE 0
RefinesCircuit == CB!Spec

(* Tokens are never taken beyond the limit, although ingest looks and      *)
(* takes in two calls of the limiter.                                      *)
TokensWithinLimit == window <= Limit

(* Once the provider answers for good, a caller that keeps trying closes   *)
(* the circuit again and again: throttling and cooldowns do not lock it    *)
(* out for ever.                                                           *)
Recovers == <>[]up => []<>(breaker.state = "CLOSED")
=============================================================================
