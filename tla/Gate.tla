-------------------------------- MODULE Gate --------------------------------
(***************************************************************************)
(* What a circuit breaker promises, without its counters: a gate before a  *)
(* provider (README "Closed -> Open -> Half-open state machine").  It      *)
(* shuts after MaxFailures failures in a row, lets callers probe once no   *)
(* failure has been seen for ResetTimeout, no more than HalfOpenRequests   *)
(* of them, and the first outcome that arrives then opens or shuts it.     *)
(***************************************************************************)
EXTENDS Integers, FiniteSets

CONSTANTS Callers, MaxFailures, ResetTimeout, HalfOpenRequests

VARIABLES mode,     \* "closed" (calls pass), "open" (none does), "half-open"
          run,      \* failures in a row, up to MaxFailures
          quiet,    \* ticks since the last failure, up to ResetTimeout
          probing   \* callers let through by the half-open period

vars == <<mode, run, quiet, probing>>

Init == mode = "closed" /\ run = 0 /\ quiet = ResetTimeout /\ probing = {}

\* A caller passes a closed gate and leaves no trace.
Probe(c) ==
    /\ \/ mode = "half-open" /\ c \notin probing /\ Cardinality(probing) < HalfOpenRequests
       \/ mode = "open" /\ quiet = ResetTimeout
    /\ mode' = "half-open"
    /\ probing' = probing \cup {c}
    /\ UNCHANGED <<run, quiet>>

Succeed ==
    /\ mode' = IF mode = "half-open" THEN "closed" ELSE mode
    /\ run' = 0 /\ probing' = {}
    /\ UNCHANGED quiet

Fail ==
    /\ run' = IF run < MaxFailures THEN run + 1 ELSE run
    /\ mode' = IF mode = "half-open" \/ run' = MaxFailures THEN "open" ELSE mode
    /\ quiet' = 0 /\ probing' = {}

Tick ==
    /\ quiet' = IF quiet < ResetTimeout THEN quiet + 1 ELSE quiet
    /\ UNCHANGED <<mode, run, probing>>

Next == (\E c \in Callers : Probe(c)) \/ Succeed \/ Fail \/ Tick

Spec == Init /\ [][Next]_vars
=============================================================================
