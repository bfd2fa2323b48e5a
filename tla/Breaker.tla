------------------------------ MODULE Breaker ------------------------------
(***************************************************************************)
(* internal/circuit/breaker.go: one circuit breaker as a value and its     *)
(* four methods as functions of that value.  Each method runs under the    *)
(* breaker's mutex, so each is one atomic step of a module that uses it.   *)
(*                                                                         *)
(* The code keeps lastFailTime and only ever compares time.Since of it     *)
(* with ResetTimeout.  sinceFail is that age in ticks, and it stops        *)
(* growing at ResetTimeout, past which the comparison no longer changes.   *)
(***************************************************************************)
EXTENDS Integers

CONSTANTS MaxFailures,       \* consecutive failures that open the circuit
          ResetTimeout,      \* ticks the circuit stays open
          HalfOpenRequests   \* calls admitted by one half-open period

\* withDefaults replaces every value that is not positive.
ASSUME BreakerConfig ==
    /\ MaxFailures \in Nat \ {0}
    /\ ResetTimeout \in Nat \ {0}
    /\ HalfOpenRequests \in Nat \ {0}

State == {"closed", "open", "half-open"}

BreakerType == [state : State,
                failures : Nat,
                halfOpenSent : Nat,
                sinceFail : 0..ResetTimeout]

\* New: a zero lastFailTime is older than any timeout.
New == [state |-> "closed", failures |-> 0, halfOpenSent |-> 0, sinceFail |-> ResetTimeout]

\* Mutant of Probing: the count of the last half-open period is kept.
ProbingKeepsCount(b) ==
    IF b.state = "open" /\ b.sinceFail >= ResetTimeout
    THEN [b EXCEPT !.state = "half-open"]
    ELSE b

\* The first half of Allow: an open circuit whose timeout has elapsed starts
\* a half-open period.
Probing(b) ==
    IF b.state = "open" /\ b.sinceFail >= ResetTimeout
    THEN [b EXCEPT !.state = "half-open", !.halfOpenSent = 0]
    ELSE b

\* Allow returns nil.
Admits(b) ==
    \/ b.state = "closed"
    \/ /\ Probing(b).state = "half-open"
       /\ Probing(b).halfOpenSent < HalfOpenRequests

\* What Allow leaves behind, whether it admits or returns ErrOpen.
Allow(b) ==
    IF Probing(b).state = "half-open" /\ Admits(b)
    THEN [Probing(b) EXCEPT !.halfOpenSent = @ + 1]
    ELSE Probing(b)

\* Mutants of RecordSuccess: it does not close a half-open circuit; it does
\* not end the run of failures.
RecordSuccessKeepsState(b) == [b EXCEPT !.failures = 0]
RecordSuccessKeepsFailures(b) == [b EXCEPT !.state = IF @ = "half-open" THEN "closed" ELSE @]

RecordSuccess(b) ==
    [b EXCEPT !.failures = 0,
              !.state = IF @ = "half-open" THEN "closed" ELSE @]

RecordFailure(b) ==
    LET trips == b.state = "half-open" \/ b.failures + 1 >= MaxFailures
    IN  [b EXCEPT !.sinceFail = 0,
                  !.failures = IF trips THEN 0 ELSE @ + 1,
                  !.state = IF trips THEN "open" ELSE @]

\* One tick of time.Since(lastFailTime).
Older(b) == [b EXCEPT !.sinceFail = IF @ < ResetTimeout THEN @ + 1 ELSE @]
=============================================================================
