--------------------------- MODULE CircuitBreaker ---------------------------
(***************************************************************************)
(* middleware/circuit.go over internal/circuit: concurrent callers of one  *)
(* protected provider.                                                     *)
(*                                                                         *)
(* Every protected method (Complete, Stream, Embed, ListModels and the     *)
(* cache, media, operation and batch methods) has the same shape: allow,   *)
(* call the wrapped provider with no lock held, record the error it        *)
(* returned.  Other callers run between the two, so an outcome is applied  *)
(* to whatever state the circuit has reached meanwhile.                    *)
(***************************************************************************)
EXTENDS Breaker, Errors, FiniteSets

CONSTANTS Callers,   \* goroutines that use the client
          Outcomes   \* what the wrapped provider may return: errors and NoError

ASSUME CallersFinite == IsFiniteSet(Callers)
ASSUME OutcomesHaveSuccess == NoError \in Outcomes

VARIABLES b,         \* the breaker
          call,      \* call[c]: "idle", or in flight as an ordinary call or
                     \* as a probe of the half-open period now running
          healthy,   \* the provider has recovered for good (environment)
          streak,    \* history: failures recorded since the last success,
                     \* counted up to MaxFailures
          openAge    \* history: ticks since the circuit last opened, up to
                     \* ResetTimeout

vars == <<b, call, healthy, streak, openAge>>

Probes == {c \in Callers : call[c] = "probe"}

TypeOK ==
    /\ b \in BreakerType
    /\ call \in [Callers -> {"idle", "ordinary", "probe"}]
    /\ healthy \in BOOLEAN
    /\ streak \in 0..MaxFailures
    /\ openAge \in 0..ResetTimeout
-----------------------------------------------------------------------------
Init ==
    /\ b = New
    /\ call = [c \in Callers |-> "idle"]
    /\ healthy = FALSE
    /\ streak = 0
    /\ openAge = ResetTimeout

\* allow returns nil and the caller goes on to the provider.
Admit(c) ==
    /\ call[c] = "idle"
    /\ Admits(b)
    /\ b' = Allow(b)
    /\ call' = [call EXCEPT ![c] = IF Allow(b).state = "half-open" THEN "probe" ELSE "ordinary"]
    /\ UNCHANGED <<healthy, streak, openAge>>

\* allow returns the circuit-open error: the call is over, nothing is recorded.
Reject(c) ==
    /\ call[c] = "idle"
    /\ ~ Admits(b)
    /\ b' = Allow(b)
    /\ UNCHANGED <<call, healthy, streak, openAge>>

\* record(err): a nil error and the errors that do not trip the breaker
\* both count as a success.
recorded(err) == IF err = NoError \/ ~ tripsBreaker(err) THEN RecordSuccess(b) ELSE RecordFailure(b)

\* The provider returns err to caller c, which records it.  A step that ends
\* a half-open period turns the probes still in flight into ordinary calls.
Record(c, err) ==
    /\ call[c] # "idle"
    /\ healthy => err = NoError
    /\ b' = recorded(err)
    /\ call' = [d \in Callers |-> IF d = c THEN "idle"
                                  ELSE IF b'.state # "half-open" /\ call[d] = "probe" THEN "ordinary"
                                  ELSE call[d]]
    /\ streak' = IF err = NoError \/ ~ tripsBreaker(err) THEN 0
                 ELSE IF streak < MaxFailures THEN streak + 1 ELSE streak
    /\ openAge' = IF b.state # "open" /\ b'.state = "open" THEN 0 ELSE openAge
    /\ UNCHANGED healthy

Tick ==
    /\ b' = Older(b)
    /\ openAge' = IF openAge < ResetTimeout THEN openAge + 1 ELSE openAge
    /\ UNCHANGED <<call, healthy, streak>>

\* Environment: from some moment on the provider answers every call.
Recover ==
    /\ ~ healthy
    /\ healthy' = TRUE
    /\ UNCHANGED <<b, call, streak, openAge>>

Next ==
    \/ \E c \in Callers : Admit(c) \/ Reject(c)
    \/ \E c \in Callers, err \in Outcomes : Record(c, err)
    \/ Tick
    \/ Recover

Spec == Init /\ [][Next]_vars

\* Time passes and every call in flight returns: each request has the HTTP
\* client's timeout.  Nothing is assumed of new callers.
CallsReturn ==
    /\ WF_vars(Tick)
    /\ \A c \in Callers : WF_vars(\E err \in Outcomes : Record(c, err))

FairSpec == Spec /\ CallsReturn

\* Callers keep coming: assumed only where a property says so.
CallersKeepComing == WF_vars(\E c \in Callers : Admit(c))
-----------------------------------------------------------------------------
(* Safety *)

\* A half-open circuit has a probe in flight.  Only a recorded outcome leaves
\* half-open, so without this the breaker could refuse every caller forever
\* (breaker.go:98-103, circuit.go:32-39).
HalfOpenHasProbe == b.state = "half-open" => Probes # {}

\* halfOpenSent counts exactly the probes in flight, never more than
\* HalfOpenRequests of them, and no probe outlives its period as a probe
\* (breaker.go:48, "maximum number of requests allowed through").
ProbesCounted ==
    /\ b.state = "half-open" => Cardinality(Probes) = b.halfOpenSent
    /\ b.state # "half-open" => Probes = {}
    /\ Cardinality(Probes) <= HalfOpenRequests

\* While the circuit is half-open no failure was recorded during the last
\* ResetTimeout: a late failure of an earlier call re-opens the circuit
\* instead of being lost (breaker.go:89, 124-128).
HalfOpenIsQuiet == b.state = "half-open" => b.sinceFail >= ResetTimeout

\* A closed circuit's counter is the true run of consecutive failures, and
\* that run is too short to open it, whatever calls of earlier periods
\* reported (breaker.go:114, 124, 128; README "consecutive failures").
ClosedCountsStreak ==
    b.state = "closed" => b.failures = streak /\ streak < MaxFailures

\* The circuit opens from closed only when the last MaxFailures outcomes were
\* all failures, and a late success never closes an open circuit: the way
\* back to closed is through half-open (breaker.go:111-129).
OpenAndCloseByTheBook ==
    [][/\ b.state = "closed" /\ b'.state = "open" => streak' = MaxFailures
       /\ b.state = "open" => b'.state # "closed"]_vars

\* The breaker implements the gate: its counters, its clock and outcomes that
\* are recorded in another period than their call was admitted in amount to
\* runs of failures, quiet time and a set of probes (breaker.go:80-130).
G == INSTANCE Gate WITH mode <- b.state, run <- streak, quiet <- b.sinceFail, probing <- Probes
ImplementsGate == G!Spec

-----------------------------------------------------------------------------
(* Liveness *)

\* The breaker never locks its callers out for good: always, at some later
\* time, it would admit a call, even if every outcome is a failure and late
\* failures keep postponing the half-open period (breaker.go:81-108).
NeverLockedOut == []<>Admits(b)

\* Once the provider has recovered and callers keep coming, the circuit
\* closes (README "Closed -> Open -> Half-open state machine").
ClosesAfterRecovery == CallersKeepComing => (healthy ~> (b.state = "closed"))

-----------------------------------------------------------------------------
(* What the documentation says and the code does not do *)

\* "ResetTimeout is how long the circuit stays open before moving to
\* half-open" (breaker.go:42): an open circuit that has been open that long
\* admits the next call.  A failure recorded while the circuit is open moves
\* lastFailTime, so it does not (breaker.go:125).
OpenForResetTimeout == b.state = "open" /\ openAge >= ResetTimeout => Admits(b)
=============================================================================
