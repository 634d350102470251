---------------------------- MODULE CircuitBreaker ----------------------------
(***************************************************************************)
(* What a provider's circuit promises, however many threads report to it   *)
(* and however late: it trips at the threshold of failures in a row, stays *)
(* open for the cooldown, and closes again only after enough successes of  *)
(* one half-open phase, which any failure ends.                            *)
(***************************************************************************)
EXTENDS Naturals

CONSTANTS FailureThreshold, SuccessThreshold

VARIABLES
  state,        \* CLOSED, OPEN or HALF_OPEN
  failures,     \* in a row while it is closed, else 0
  successes,    \* of this half-open phase, else 0
  cooled        \* the cooldown of this opening is over

vars == <<state, failures, successes, cooled>>

Become(s) == state' = s /\ failures' = 0 /\ successes' = 0 /\ cooled' = FALSE

Init == state = "CLOSED" /\ failures = 0 /\ successes = 0 /\ cooled = FALSE

Fail ==
  /\ state = "CLOSED" /\ failures + 1 < FailureThreshold
  /\ failures' = failures + 1
  /\ UNCHANGED <<state, successes, cooled>>

Trip ==
  /\ state = "HALF_OPEN" \/ (state = "CLOSED" /\ failures + 1 = FailureThreshold)
  /\ Become("OPEN")

CoolDown ==
  /\ state = "OPEN" /\ ~cooled
  /\ cooled' = TRUE
  /\ UNCHANGED <<state, failures, successes>>

HalfOpen ==
  /\ state = "OPEN" /\ cooled
  /\ Become("HALF_OPEN")

Succeed ==
  /\ state = "HALF_OPEN" /\ successes + 1 < SuccessThreshold
  /\ successes' = successes + 1
  /\ UNCHANGED <<state, failures, cooled>>

\* A success also ends a row of failures.
Close ==
  /\ state = "CLOSED" \/ (state = "HALF_OPEN" /\ successes + 1 = SuccessThreshold)
  /\ Become("CLOSED")

Next == Fail \/ Trip \/ CoolDown \/ HalfOpen \/ Succeed \/ Close

Spec == Init /\ [][Next]_vars
=============================================================================
