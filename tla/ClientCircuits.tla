--------------------------- MODULE ClientCircuits ---------------------------
(***************************************************************************)
(* Client seen from the circuits of its providers: middleware/circuit.go   *)
(* as the layer that buildProvider puts around retries and rate limiter.   *)
(*                                                                         *)
(* Client says which steps a call takes below its breaker and between the  *)
(* providers; CircuitBreaker says what callers of one protected provider   *)
(* do.  Client extended with the histories that CircuitBreaker keeps is a  *)
(* CircuitBreaker for every provider at once.                              *)
(***************************************************************************)
EXTENDS Client

VARIABLES probes,   \* history: probes[p]: the calls let through by the
                    \* half-open period of p that is running
          streak,   \* history: streak[p]: failures recorded since the last
                    \* success, counted up to MaxFailures
          openAge   \* history: openAge[p]: ticks since the circuit last
                    \* opened, up to ResetTimeout

histories == <<probes, streak, openAge>>
circuitVars == <<breaker, call, calm, probes, streak, openAge>>

CircuitInit ==
    /\ Init
    /\ probes = [p \in Configured |-> {}]
    /\ streak = [p \in Configured |-> 0]
    /\ openAge = [p \in Configured |-> ResetTimeout]

\* A call at a breaker that admits it or turns it away.
AtBreaker(c) ==
    /\ Allowed(c)
    /\ LET p == Provider(c)
           isProbe == Admits(breaker[p]) /\ Allow(breaker[p]).state = "half-open"
       IN  probes' = [probes EXCEPT ![p] = IF isProbe THEN @ \cup {c} ELSE @]
    /\ UNCHANGED <<streak, openAge>>

\* A call whose outcome the breaker records: if that ends a half-open period,
\* what it has let through are probes no more.
Recorded(c) ==
    /\ Record(c)
    /\ LET p == Provider(c)
           err == call[c].err
           opens == breaker[p].state # "open" /\ breaker'[p].state = "open"
       IN  /\ probes' = [probes EXCEPT ![p] = IF breaker'[p].state = "half-open" THEN @ \ {c} ELSE {}]
           /\ streak' = [streak EXCEPT ![p] = IF err = NoError \/ ~ tripsBreaker(err) THEN 0
                                              ELSE IF @ < MaxFailures THEN @ + 1 ELSE @]
           /\ openAge' = [openAge EXCEPT ![p] = IF opens THEN 0 ELSE @]

TimePasses ==
    /\ Tick
    /\ openAge' = [p \in Configured |-> IF openAge[p] < ResetTimeout THEN openAge[p] + 1 ELSE openAge[p]]
    /\ UNCHANGED <<probes, streak>>

\* Every other step of a call, above its breaker or below it.
Elsewhere(c) ==
    /\ \/ Start(c) \/ Cancel(c)
       \/ PolicyFails(c) \/ SkipUnconfigured(c) \/ Incapable(c)
       \/ Send(c) \/ SendCancelled(c) \/ Answer(c) \/ Abort(c)
       \/ Retry(c) \/ RetryCancelled(c)
    /\ UNCHANGED histories

CircuitNext == TimePasses \/ \E c \in Callers : AtBreaker(c) \/ Recorded(c) \/ Elsewhere(c)

CircuitSpec == CircuitInit /\ [][CircuitNext]_circuitVars
-----------------------------------------------------------------------------
\* What a call is to the breaker of p, from allow to record.
CallAt(p) ==
    [c \in Callers |-> IF ~ Admitted(c, p) THEN "idle"
                       ELSE IF c \in probes[p] THEN "probe" ELSE "ordinary"]

Circuit(p) == INSTANCE CircuitBreaker
    WITH b <- breaker[p], call <- CallAt(p), healthy <- FALSE,
         streak <- streak[p], openAge <- openAge[p],
         Outcomes <- Answers \cup ErrorOver({})

\* What a step is to the circuits: none, or one of theirs.
CircuitsStep == \A p \in Configured : UNCHANGED Circuit(p)!vars \/ Circuit(p)!Next

\* However calls interleave, retry, fall back, lack a capability or are
\* cancelled, each provider's circuit sees callers that ask it once, go on if
\* admitted and then report exactly one outcome: no layer below it loses a
\* trial, and none reports twice (circuit.go:32-66, client.go:330-363).
\* It is \A p \in Configured : Circuit(p)!Spec as one initial predicate and one
\* action, the form in which TLC checks it.
CircuitsAreCircuits == (\A p \in Configured : Circuit(p)!Init) /\ [][CircuitsStep]_circuitVars
=============================================================================
