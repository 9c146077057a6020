--------------------------- MODULE CircuitBreaker ---------------------------
(***************************************************************************)
(* The methods of the class CircuitBreaker                                 *)
(* (aiohomematic/client/circuit_breaker.py) as operators on a record: what *)
(* each method returns and the record it leaves behind.  The class runs on *)
(* one event loop and none of its methods awaits, so a method is atomic.   *)
(*                                                                         *)
(* Two fields are abstracted without changing any branch of the code:      *)
(*   - _failure_count is only compared with failure_threshold, so it       *)
(*     saturates there;                                                    *)
(*   - _last_failure_time is only compared with now, so it becomes the age *)
(*     of the last failure in ticks, saturating at RecoveryTimeout.        *)
(***************************************************************************)
EXTENDS Naturals

CONSTANTS FailureThreshold,  \* CircuitBreakerConfig.failure_threshold
          SuccessThreshold,  \* CircuitBreakerConfig.success_threshold
          RecoveryTimeout,   \* CircuitBreakerConfig.recovery_timeout, in ticks
          NoFailure          \* _last_failure_time is None

ASSUME BreakerAssumption ==
    /\ FailureThreshold \in Nat \ {0}
    /\ SuccessThreshold \in Nat \ {0}
    /\ RecoveryTimeout \in Nat \ {0}
    /\ NoFailure \notin Nat

CircuitState == {"closed", "open", "half_open"}

Breaker == [state     : CircuitState,
            failures  : 0 .. FailureThreshold,
            successes : 0 .. SuccessThreshold,
            age       : (0 .. RecoveryTimeout) \cup {NoFailure}]

\* __init__ and reset(): reset() assigns _state without _transition_to.
Reset == [state |-> "closed", failures |-> 0, successes |-> 0, age |-> NoFailure]

\* The counters agree with the state: closed is below the failure threshold, a
\* tripped breaker knows the time of its last failure (without it is_available
\* would be False for ever), and only HALF_OPEN counts successes.
Consistent(b) ==
    /\ b.state = "closed" => b.failures < FailureThreshold
    /\ b.state # "closed" => b.age # NoFailure
    /\ b.successes < SuccessThreshold
    /\ b.state # "half_open" => b.successes = 0

-----------------------------------------------------------------------------
\* _transition_to
TransitionTo(b, new) ==
    IF b.state = new
      THEN b
      ELSE [state |-> new,
            failures |-> IF new = "closed" THEN 0 ELSE b.failures,
            successes |-> 0,
            age |-> b.age]

\* What _transition_to does to the interface's entry in CentralConnectionState
\* when the breaker goes from b to c.
IssueAfter(b, c, issue) ==
    IF b.state = c.state \/ c.state = "half_open" THEN issue ELSE c.state = "open"

\* Mutant: the cooldown is one tick short.
TimeoutElapsedEarly(b) ==
    b.state = "open" /\ b.age # NoFailure /\ b.age + 1 >= RecoveryTimeout

\* OPEN and recovery_timeout seconds have passed since the last failure.
TimeoutElapsed(b) ==
    b.state = "open" /\ b.age # NoFailure /\ b.age >= RecoveryTimeout

\* is_available: the value read ...
IsAvailable(b) == b.state # "open" \/ TimeoutElapsed(b)

\* ... and the breaker after the read, which itself moves OPEN to HALF_OPEN.
Probed(b) == IF TimeoutElapsed(b) THEN TransitionTo(b, "half_open") ELSE b

RecordFailure(b) ==
    LET count == IF b.failures < FailureThreshold THEN b.failures + 1 ELSE b.failures
        c == [state |-> b.state, failures |-> count, successes |-> b.successes, age |-> 0]
        trips == \/ c.state = "closed" /\ c.failures >= FailureThreshold
                 \/ c.state = "half_open"
    IN  IF trips THEN TransitionTo(c, "open") ELSE c

\* Mutant: the comparison with the threshold is strict.
RecordSuccessStrict(b) ==
    IF b.state # "half_open" THEN b
    ELSE LET c == [b EXCEPT !.successes = @ + 1]
         IN  IF c.successes > SuccessThreshold THEN TransitionTo(c, "closed") ELSE c

RecordSuccess(b) ==
    IF b.state = "closed" THEN [b EXCEPT !.failures = 0]
    ELSE IF b.state = "open" THEN b
    ELSE LET c == [b EXCEPT !.successes = @ + 1]
         IN  IF c.successes >= SuccessThreshold THEN TransitionTo(c, "closed") ELSE c

\* The clock of _last_failure_time.
Aged(b) ==
    [b EXCEPT !.age = IF @ = NoFailure THEN @
                      ELSE IF @ < RecoveryTimeout THEN @ + 1 ELSE @]
=============================================================================
