--------------------------- MODULE CircuitBreaker ---------------------------
(***************************************************************************)
(* The circuit breaker of one skill (skillgateway/circuit_breaker.go).      *)
(*                                                                         *)
(* Every method of CircuitBreakerManager runs under the mutex of one       *)
(* breaker, so each is one atomic function on the breaker's record.        *)
(* `elapsed' stands for time.Since(lastFailureAt), counted in clock ticks   *)
(* and saturating at RecoveryTimeout: Allow only compares it with that     *)
(* bound.  A breaker whose lastFailureAt was never set has the zero time,  *)
(* that is, a saturated `elapsed'.                                         *)
(***************************************************************************)
EXTENDS Integers

CONSTANTS
    FailureThreshold,   \* CircuitBreakerConfig.FailureThreshold, 5 by default
    RecoveryTimeout     \* CircuitBreakerConfig.RecoveryTimeout, in clock ticks

ASSUME ThresholdAssumption == FailureThreshold \in Nat \ {0}
ASSUME TimeoutAssumption   == RecoveryTimeout \in Nat

CBState == {"closed", "open", "half_open"}

Breaker == [state    : CBState,
            failures : Nat,
            elapsed  : 0 .. RecoveryTimeout,
            probing  : BOOLEAN]

\* getOrCreate: a skill without an entry gets a closed breaker.
NewBreaker == [state    |-> "closed",
               failures |-> 0,
               elapsed  |-> RecoveryTimeout,
               probing  |-> FALSE]

\* Mutant of RecoveryElapsed: the period ends one tick early.
RecoveryElapsedEarly(b) == b.elapsed + 1 >= RecoveryTimeout

\* The verdict of Allow.  A call that finds the breaker open for at least
\* RecoveryTimeout, or half-open with no probe under way, is a probe.
RecoveryElapsed(b) == b.elapsed >= RecoveryTimeout

Allowed(b) == CASE b.state = "closed"    -> TRUE
                [] b.state = "open"      -> RecoveryElapsed(b)
                [] b.state = "half_open" -> ~ b.probing

\* Mutant of AfterAllow: the probe is let through without claiming the slot.
AfterAllowNoClaim(b) ==
    IF Allowed(b) /\ b.state # "closed"
    THEN [b EXCEPT !.state = "half_open"]
    ELSE b

\* What Allow leaves behind.
AfterAllow(b) ==
    IF Allowed(b) /\ b.state # "closed"
    THEN [b EXCEPT !.state = "half_open", !.probing = TRUE]
    ELSE b

\* RecordSuccess closes the breaker whatever state it is in.
AfterSuccess(b) ==
    [b EXCEPT !.state = "closed", !.failures = 0, !.probing = FALSE]

\* RecordFailure: the probe slot is given back in every state; a closed
\* breaker counts and trips at the threshold, a half-open one reopens, an open
\* one is left alone (lastFailureAt is not refreshed).
Trip(b) == [b EXCEPT !.state = "open", !.elapsed = 0, !.probing = FALSE]

CountFailure(b) == [b EXCEPT !.failures = @ + 1, !.probing = FALSE]

\* Mutant of AfterFailure: the failure of a probe leaves the breaker half-open.
AfterFailureStaysHalfOpen(b) ==
    CASE b.state = "closed" ->
            IF b.failures + 1 >= FailureThreshold
            THEN Trip(CountFailure(b)) ELSE CountFailure(b)
      [] OTHER -> b

\* Mutant of AfterFailure: the threshold is compared with > instead of >=.
AfterFailureLate(b) ==
    CASE b.state = "closed" ->
            IF b.failures + 1 > FailureThreshold
            THEN Trip(CountFailure(b)) ELSE CountFailure(b)
      [] b.state = "half_open" -> Trip(b)
      [] b.state = "open"      -> [b EXCEPT !.probing = FALSE]

AfterFailure(b) ==
    CASE b.state = "closed" ->
            IF b.failures + 1 >= FailureThreshold
            THEN Trip(CountFailure(b)) ELSE CountFailure(b)
      [] b.state = "half_open" -> Trip(b)
      [] b.state = "open"      -> [b EXCEPT !.probing = FALSE]

\* One tick of the clock.
AfterTick(b) ==
    [b EXCEPT !.elapsed = IF @ < RecoveryTimeout THEN @ + 1 ELSE @]
=============================================================================
