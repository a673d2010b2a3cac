--------------------------- MODULE CircuitBreaker ---------------------------
(***************************************************************************)
(* The CircuitBreaker as a value: what each of its methods turns it into.  *)
(* No method awaits while it holds self._lock, so each is one step.        *)
(*                                                                         *)
(* Time is kept as ages.  An age stops at Timeout, and the failure count   *)
(* at FailureThreshold, the values the code compares them with.            *)
(***************************************************************************)
EXTENDS Integers

CONSTANTS FailureThreshold, SuccessThreshold, Timeout,  \* CircuitBreakerConfig
          Never     \* _last_failure_time = None

ASSUME ThresholdAssumption == FailureThreshold \in Nat \ {0} /\ SuccessThreshold \in Nat \ {0}
ASSUME TimeoutAssumption   == Timeout \in Nat \ {0} /\ Never \notin Nat

States == {"closed", "open", "half_open"}

TripAges == 0 .. Timeout

Breaker == [state     : States,
            failures  : 0 .. FailureThreshold,
            successes : 0 .. SuccessThreshold,
            failedAgo : TripAges \cup {Never}]      \* time.time() - _last_failure_time

\* __init__, and what reset goes back to.
New == [state |-> "closed", failures |-> 0, successes |-> 0, failedAgo |-> Never]

\* Mutant of TransitionTo: _success_count survives from the last half-open phase.
TransitionToCounting(b, s) ==
    IF b.state = s THEN b
    ELSE [b EXCEPT !.state = s, !.failures = IF s = "closed" THEN 0 ELSE @]

TransitionTo(b, s) ==
    IF b.state = s THEN b
    ELSE [b EXCEPT !.state = s,
                   !.successes = 0,
                   !.failures = IF s = "closed" THEN 0 ELSE @]

\* Mutant of RecordSuccess: a success in the closed state forgives no failure.
RecordSuccessUnforgiving(b) ==
    LET counted == [b EXCEPT !.successes = @ + 1] IN
    IF b.state # "half_open" THEN b
    ELSE IF counted.successes >= SuccessThreshold THEN TransitionTo(counted, "closed")
    ELSE counted

RecordSuccess(b) ==
    LET counted == [b EXCEPT !.successes = @ + 1] IN
    CASE b.state = "closed" -> [b EXCEPT !.failures = 0]
      [] b.state = "open" -> b
      [] b.state = "half_open" ->
           IF counted.successes >= SuccessThreshold THEN TransitionTo(counted, "closed")
           ELSE counted

\* Mutant of RecordFailure: only a closed breaker notes when it failed last.
RecordFailureUntimed(b) ==
    LET count == IF b.failures < FailureThreshold THEN b.failures + 1 ELSE b.failures
        failed == [b EXCEPT !.failures = count,
                            !.failedAgo = IF b.state = "closed" THEN 0 ELSE @]
    IN  IF \/ b.state = "half_open"
           \/ b.state = "closed" /\ count >= FailureThreshold
        THEN TransitionTo(failed, "open")
        ELSE failed

RecordFailure(b) ==
    LET count == IF b.failures < FailureThreshold THEN b.failures + 1 ELSE b.failures
        failed == [b EXCEPT !.failures = count, !.failedAgo = 0]
    IN  IF \/ b.state = "half_open"
           \/ b.state = "closed" /\ count >= FailureThreshold
        THEN TransitionTo(failed, "open")
        ELSE failed

\* _maybe_transition_from_open
MaybeHalfOpen(b) ==
    IF b.state = "open" /\ (b.failedAgo = Never \/ b.failedAgo = Timeout)
    THEN TransitionTo(b, "half_open")
    ELSE b

\* A unit of time passes.
NextAge(age) == IF age \in Nat /\ age < Timeout THEN age + 1 ELSE age

Elapse(b) == [b EXCEPT !.failedAgo = NextAge(@)]
=============================================================================
