------------------------ MODULE CircuitBreaker_proofs ------------------------
(***************************************************************************)
(* The safety properties of CircuitBreaker, for every finite set of        *)
(* callers, every set of outcomes and every configuration of the breaker.  *)
(***************************************************************************)
EXTENDS CircuitBreaker, FiniteSetTheorems, TLAPS

\* HalfOpenHasProbe and ProbesCounted are not inductive alone: they need that
\* a half-open period starts by admitting a probe.
HalfOpenStarted == b.state = "half-open" => b.halfOpenSent \in 1..HalfOpenRequests

IInv ==
    /\ TypeOK
    /\ ProbesCounted
    /\ HalfOpenStarted
    /\ HalfOpenIsQuiet
    /\ ClosedCountsStreak

-----------------------------------------------------------------------------
(* The functions of a breaker *)

\* Every method returns a breaker (breaker.go:81-130).
LEMMA BreakerTyping ==
    ASSUME NEW x \in BreakerType
    PROVE  /\ Probing(x) \in BreakerType
           /\ Allow(x) \in BreakerType
           /\ RecordSuccess(x) \in BreakerType
           /\ RecordFailure(x) \in BreakerType
           /\ Older(x) \in BreakerType
<1>1. Probing(x) \in BreakerType
  BY BreakerConfig DEF Probing, BreakerType, State
<1>2. Allow(x) \in BreakerType
  BY <1>1 DEF Allow, BreakerType, State
<1>3. RecordSuccess(x) \in BreakerType
  BY DEF RecordSuccess, BreakerType, State
<1>4. RecordFailure(x) \in BreakerType
  <2>1. x.failures + 1 \in Nat /\ x.state \in State /\ 0 \in 0..ResetTimeout
    BY BreakerConfig DEF BreakerType
  <2>2. CASE x.state = "half-open" \/ x.failures + 1 >= MaxFailures
    BY <2>1, <2>2 DEF RecordFailure, BreakerType, State
  <2>3. CASE ~ (x.state = "half-open" \/ x.failures + 1 >= MaxFailures)
    BY <2>1, <2>3 DEF RecordFailure, BreakerType, State
  <2> QED
    BY <2>2, <2>3
<1>5. Older(x) \in BreakerType
  BY BreakerConfig DEF Older, BreakerType, State
<1> QED
  BY <1>1, <1>2, <1>3, <1>4, <1>5

\* An admission either passes through a closed circuit unchanged, or is a
\* probe: the next of a running period or the first of a new one
\* (breaker.go:85-105).
LEMMA AdmissionCases ==
    ASSUME NEW x \in BreakerType, Admits(x)
    PROVE  \/ x.state = "closed" /\ Allow(x) = x
           \/ /\ x.state = "half-open"
              /\ x.halfOpenSent < HalfOpenRequests
              /\ Allow(x) = [x EXCEPT !.halfOpenSent = @ + 1]
           \/ /\ x.state = "open"
              /\ x.sinceFail >= ResetTimeout
              /\ Allow(x) = [x EXCEPT !.state = "half-open", !.halfOpenSent = 1]
<1>1. x.state \in {"closed", "open", "half-open"}
  BY DEF BreakerType, State
<1>2. CASE x.state = "closed"
  BY <1>2 DEF Allow, Probing, BreakerType
<1>3. CASE x.state = "half-open"
  BY <1>3 DEF Admits, Allow, Probing, BreakerType
<1>4. CASE x.state = "open"
  <2>1. x.sinceFail >= ResetTimeout
    BY <1>4 DEF Admits, Probing, BreakerType
  <2>2. Probing(x) = [x EXCEPT !.state = "half-open", !.halfOpenSent = 0]
    BY <1>4, <2>1 DEF Probing
  <2>3. Probing(x).state = "half-open"
    BY <2>2 DEF BreakerType
  <2>4. Allow(x) = [Probing(x) EXCEPT !.halfOpenSent = @ + 1]
    BY <2>3 DEF Allow
  <2>5. Allow(x) = [x EXCEPT !.state = "half-open", !.halfOpenSent = 1]
    <3>1. Probing(x).halfOpenSent + 1 = 1
      BY <2>2 DEF BreakerType
    <3>2. Allow(x) = [Probing(x) EXCEPT !.halfOpenSent = 1]
      BY <2>4, <3>1
    <3> QED
      BY <2>2, <3>2 DEF BreakerType
  <2> QED
    BY <1>4, <2>1, <2>5
<1> QED
  BY <1>1, <1>2, <1>3, <1>4

\* A rejection leaves the circuit as it found it: with at least one probe
\* per period, an open circuit whose timeout has elapsed is never refused.
LEMMA RejectionIsSilent ==
    ASSUME NEW x \in BreakerType, ~ Admits(x)
    PROVE  Allow(x) = x /\ x.state # "closed"
<1>1. x.state \in {"open", "half-open"}
  BY DEF BreakerType, State, Admits
<1>2. CASE x.state = "half-open"
  BY <1>2 DEF Admits, Allow, Probing
<1>3. CASE x.state = "open"
  <2>1. ~ (x.sinceFail >= ResetTimeout)
    <3> SUFFICES ASSUME x.sinceFail >= ResetTimeout PROVE FALSE
      OBVIOUS
    <3>1. Probing(x) = [x EXCEPT !.state = "half-open", !.halfOpenSent = 0]
      BY <1>3 DEF Probing
    <3>2. Probing(x).state = "half-open" /\ Probing(x).halfOpenSent = 0
      BY <3>1 DEF BreakerType
    <3> QED
      BY <3>2, BreakerConfig DEF Admits
  <2> QED
    BY <1>3, <2>1 DEF Allow, Probing
<1> QED
  BY <1>1, <1>2, <1>3

-----------------------------------------------------------------------------
(* The inductive invariant *)

\* The invariant holds of a new breaker with every caller idle.
LEMMA InitIInv == Init => IInv
<1> SUFFICES ASSUME Init PROVE IInv
  OBVIOUS
<1>1. Probes = {}
  BY DEF Init, Probes
<1>2. Cardinality(Probes) = 0
  BY <1>1, FS_EmptySet
<1>3. TypeOK
  <2>1. New \in BreakerType
    BY BreakerConfig DEF New, BreakerType, State
  <2>2. 0 \in 0..MaxFailures /\ ResetTimeout \in 0..ResetTimeout
    BY BreakerConfig
  <2> QED
    BY <2>1, <2>2 DEF Init, TypeOK
<1> QED
  BY <1>1, <1>2, <1>3, BreakerConfig
  DEF Init, IInv, New, ProbesCounted, HalfOpenStarted, HalfOpenIsQuiet, ClosedCountsStreak

\* The set of probes is finite, so counting it means something.
LEMMA ProbesFinite == IsFiniteSet(Probes)
  BY CallersFinite, FS_Subset DEF Probes

\* Admitting a caller keeps the invariant.
LEMMA AdmitStep ==
    ASSUME IInv, NEW c \in Callers, Admit(c)
    PROVE  IInv'
<1> USE DEF IInv
<1>0. b \in BreakerType /\ b' = Allow(b) /\ Admits(b) /\ call \in [Callers -> {"idle", "ordinary", "probe"}]
  BY DEF Admit, TypeOK
<1>1. TypeOK'
  BY <1>0, BreakerTyping DEF Admit, TypeOK
<1>2. c \notin Probes
  BY DEF Admit, Probes
<1>3. CASE b.state = "closed" /\ Allow(b) = b
  <2>1. b' = b /\ call' = [call EXCEPT ![c] = "ordinary"] /\ streak' = streak
    BY <1>0, <1>3 DEF Admit
  <2>2. Probes' = Probes
    BY <2>1, <1>0, <1>2 DEF Probes
  <2> QED
    BY <1>1, <2>1, <2>2
    DEF ProbesCounted, HalfOpenStarted, HalfOpenIsQuiet, ClosedCountsStreak
<1>4. CASE /\ b.state = "half-open"
           /\ b.halfOpenSent < HalfOpenRequests
           /\ Allow(b) = [b EXCEPT !.halfOpenSent = @ + 1]
  <2>1. /\ b'.state = "half-open" /\ b'.halfOpenSent = b.halfOpenSent + 1
        /\ b'.sinceFail = b.sinceFail
        /\ call' = [call EXCEPT ![c] = "probe"]
    BY <1>0, <1>4 DEF Admit, BreakerType
  <2>2. Probes' = Probes \cup {c}
    BY <2>1, <1>0 DEF Probes
  <2>3. Cardinality(Probes') = Cardinality(Probes) + 1
    BY <2>2, <1>2, ProbesFinite, FS_AddElement
  <2>4. b.halfOpenSent \in Nat
    BY <1>0 DEF BreakerType
  <2> QED
    BY <1>1, <1>4, <2>1, <2>3, <2>4, BreakerConfig
    DEF ProbesCounted, HalfOpenStarted, HalfOpenIsQuiet, ClosedCountsStreak
<1>5. CASE /\ b.state = "open"
           /\ b.sinceFail >= ResetTimeout
           /\ Allow(b) = [b EXCEPT !.state = "half-open", !.halfOpenSent = 1]
  <2>1. /\ b'.state = "half-open" /\ b'.halfOpenSent = 1 /\ b'.sinceFail = b.sinceFail
        /\ call' = [call EXCEPT ![c] = "probe"]
    BY <1>0, <1>5 DEF Admit, BreakerType
  <2>2. Probes = {} /\ Cardinality(Probes) = 0
    BY <1>5, FS_EmptySet DEF ProbesCounted
  <2>3. Probes' = Probes \cup {c}
    BY <2>1, <1>0 DEF Probes
  <2>4. Cardinality(Probes') = 1
    BY <2>2, <2>3, <1>2, ProbesFinite, FS_AddElement
  <2> QED
    BY <1>1, <1>5, <2>1, <2>4, BreakerConfig
    DEF ProbesCounted, HalfOpenStarted, HalfOpenIsQuiet, ClosedCountsStreak
<1> QED
  BY <1>0, <1>3, <1>4, <1>5, AdmissionCases

\* Recording an outcome ends a half-open period, whichever call it belongs to.
LEMMA RecordStep ==
    ASSUME IInv, NEW c \in Callers, NEW err \in Outcomes, Record(c, err)
    PROVE  IInv'
<1> USE DEF IInv
<1> DEFINE good == err = NoError \/ ~ tripsBreaker(err)
<1>0. /\ b \in BreakerType
      /\ call \in [Callers -> {"idle", "ordinary", "probe"}]
      /\ streak \in 0..MaxFailures
      /\ b' = IF good THEN RecordSuccess(b) ELSE RecordFailure(b)
      /\ streak' = IF good THEN 0 ELSE IF streak < MaxFailures THEN streak + 1 ELSE streak
  BY DEF Record, recorded, TypeOK
<1>1. b' \in BreakerType
  BY <1>0, BreakerTyping
<1>2. b'.state # "half-open"
  BY <1>0 DEF RecordSuccess, RecordFailure, BreakerType, State
<1>3. TypeOK'
  <2>1. call' \in [Callers -> {"idle", "ordinary", "probe"}]
    BY <1>0 DEF Record
  <2>2. streak' \in 0..MaxFailures
    BY <1>0, BreakerConfig
  <2> QED
    BY <1>1, <2>1, <2>2, BreakerConfig DEF Record, TypeOK
<1>4. Probes' = {}
  BY <1>2 DEF Record, Probes
<1>5. Cardinality(Probes') = 0
  BY <1>4, FS_EmptySet
<1>6. ClosedCountsStreak'
  <2>1. CASE good
    <3>1. b'.failures = 0 /\ streak' = 0
      BY <1>0, <2>1 DEF RecordSuccess, BreakerType
    <3> QED
      BY <3>1, BreakerConfig DEF ClosedCountsStreak
  <2>2. CASE ~ good
    <3> SUFFICES ASSUME b'.state = "closed"
                 PROVE  b'.failures = streak' /\ streak' < MaxFailures
      BY DEF ClosedCountsStreak
    <3>1. b' = RecordFailure(b) /\ b.state \in State /\ b.failures \in Nat
      BY <1>0, <2>2 DEF BreakerType
    <3>2. b.state = "closed" /\ ~ (b.failures + 1 >= MaxFailures)
      BY <1>0, <3>1 DEF RecordFailure, BreakerType, State
    <3>3. b'.failures = b.failures + 1
      BY <1>0, <3>1, <3>2 DEF RecordFailure, BreakerType
    <3>4. b.failures = streak /\ streak' = streak + 1
      BY <1>0, <2>2, <3>2 DEF ClosedCountsStreak
    <3> QED
      BY <1>0, <3>2, <3>3, <3>4, BreakerConfig
  <2> QED
    BY <2>1, <2>2
<1> QED
  BY <1>2, <1>3, <1>4, <1>5, <1>6, BreakerConfig
  DEF ProbesCounted, HalfOpenStarted, HalfOpenIsQuiet

\* The passing of time keeps the invariant.
LEMMA TickStep == ASSUME IInv, Tick PROVE IInv'
<1> USE DEF IInv
<1>0. b \in BreakerType /\ b' = Older(b) /\ UNCHANGED <<call, healthy, streak>>
  BY DEF Tick, TypeOK
<1>1. TypeOK'
  BY <1>0, BreakerTyping, BreakerConfig DEF Tick, TypeOK
<1>2. /\ b'.state = b.state /\ b'.failures = b.failures /\ b'.halfOpenSent = b.halfOpenSent
      /\ b'.sinceFail >= b.sinceFail
  BY <1>0, BreakerConfig DEF Older, BreakerType
<1>3. Probes' = Probes
  BY <1>0 DEF Probes
<1>4. HalfOpenIsQuiet'
  BY <1>0, <1>1, <1>2, BreakerConfig DEF HalfOpenIsQuiet, TypeOK, BreakerType
<1> QED
  BY <1>0, <1>1, <1>2, <1>3, <1>4 DEF ProbesCounted, HalfOpenStarted, ClosedCountsStreak

\* Every step keeps the invariant.
LEMMA NextIInv == IInv /\ [Next]_vars => IInv'
<1> SUFFICES ASSUME IInv, [Next]_vars PROVE IInv'
  OBVIOUS
<1>1. ASSUME NEW c \in Callers, Admit(c) PROVE IInv'
  BY <1>1, AdmitStep
<1>2. ASSUME NEW c \in Callers, Reject(c) PROVE IInv'
  <2>1. UNCHANGED vars
    BY <1>2, RejectionIsSilent DEF Reject, vars, IInv, TypeOK
  <2> QED
    BY <2>1 DEF vars, IInv, TypeOK, ProbesCounted, Probes, HalfOpenStarted,
                HalfOpenIsQuiet, ClosedCountsStreak
<1>3. ASSUME NEW c \in Callers, NEW err \in Outcomes, Record(c, err) PROVE IInv'
  BY <1>3, RecordStep
<1>4. CASE Tick
  BY <1>4, TickStep
<1>5. CASE Recover
  BY <1>5 DEF Recover, IInv, TypeOK, ProbesCounted, Probes, HalfOpenStarted,
              HalfOpenIsQuiet, ClosedCountsStreak
<1>6. CASE UNCHANGED vars
  BY <1>6 DEF vars, IInv, TypeOK, ProbesCounted, Probes, HalfOpenStarted,
              HalfOpenIsQuiet, ClosedCountsStreak
<1> QED
  BY <1>1, <1>2, <1>3, <1>4, <1>5, <1>6 DEF Next

\* The invariant holds in every reachable state.
LEMMA SpecIInv == Spec => []IInv
  BY InitIInv, NextIInv, PTL DEF Spec

-----------------------------------------------------------------------------
(* The theorems *)

\* Type correctness of the breaker and its callers.
THEOREM TypeCorrect == Spec => []TypeOK
<1>1. IInv => TypeOK
  BY DEF IInv
<1> QED
  BY <1>1, SpecIInv, PTL

\* A half-open circuit always has a probe in flight whose outcome will move
\* it: no configuration and no interleaving leaves it half-open with nobody
\* to leave it (breaker.go:81-130).
THEOREM HalfOpenNeverOrphaned == Spec => []HalfOpenHasProbe
<1>1. IInv => HalfOpenHasProbe
  <2> SUFFICES ASSUME IInv, b.state = "half-open", Probes = {} PROVE FALSE
    BY DEF HalfOpenHasProbe
  <2>1. Cardinality(Probes) = 0
    BY FS_EmptySet
  <2> QED
    BY <2>1 DEF IInv, ProbesCounted, HalfOpenStarted
<1> QED
  BY <1>1, SpecIInv, PTL

\* halfOpenSent is the number of probes in flight, at most HalfOpenRequests.
THEOREM HalfOpenBudget == Spec => []ProbesCounted
<1>1. IInv => ProbesCounted
  BY DEF IInv
<1> QED
  BY <1>1, SpecIInv, PTL

\* No failure was recorded during the last ResetTimeout of a half-open period.
THEOREM HalfOpenAfterQuiet == Spec => []HalfOpenIsQuiet
<1>1. IInv => HalfOpenIsQuiet
  BY DEF IInv
<1> QED
  BY <1>1, SpecIInv, PTL

\* The counter of a closed circuit is the run of consecutive failures.
THEOREM ClosedCounts == Spec => []ClosedCountsStreak
<1>1. IInv => ClosedCountsStreak
  BY DEF IInv
<1> QED
  BY <1>1, SpecIInv, PTL

\* The circuit opens only on MaxFailures failures in a row, and closes only
\* from half-open.
THEOREM OpensAndCloses == Spec => OpenAndCloseByTheBook
<1> DEFINE A == /\ b.state = "closed" /\ b'.state = "open" => streak' = MaxFailures
                /\ b.state = "open" => b'.state # "closed"
<1>1. IInv /\ [Next]_vars => [A]_vars
  <2> SUFFICES ASSUME IInv, Next PROVE A
    OBVIOUS
  <2>0. b \in BreakerType /\ streak \in 0..MaxFailures
    BY DEF IInv, TypeOK
  <2>1. ASSUME NEW c \in Callers, Admit(c) PROVE A
    <3>1. b' = Allow(b) /\ Admits(b)
      BY <2>1 DEF Admit
    <3> QED
      BY <2>0, <3>1, AdmissionCases DEF BreakerType
  <2>2. ASSUME NEW c \in Callers, Reject(c) PROVE A
    BY <2>0, <2>2, RejectionIsSilent DEF Reject
  <2>3. ASSUME NEW c \in Callers, NEW err \in Outcomes, Record(c, err) PROVE A
    <3> DEFINE good == err = NoError \/ ~ tripsBreaker(err)
    <3>1. /\ b' = IF good THEN RecordSuccess(b) ELSE RecordFailure(b)
          /\ streak' = IF good THEN 0 ELSE IF streak < MaxFailures THEN streak + 1 ELSE streak
      BY <2>3 DEF Record, recorded
    <3>2. b.state = "open" => b'.state # "closed"
      BY <2>0, <3>1 DEF RecordSuccess, RecordFailure, BreakerType, State
    <3>3. ASSUME b.state = "closed", b'.state = "open" PROVE streak' = MaxFailures
      <4>1. ~ good
        BY <2>0, <3>1, <3>3 DEF RecordSuccess, BreakerType, State
      <4>2. b' = RecordFailure(b)
        BY <3>1, <4>1
      <4>3. b.failures + 1 >= MaxFailures
        BY <2>0, <3>3, <4>2 DEF RecordFailure, BreakerType
      <4>4. b.failures = streak /\ streak < MaxFailures
        BY <3>3 DEF IInv, ClosedCountsStreak
      <4> QED
        BY <2>0, <3>1, <4>1, <4>3, <4>4, BreakerConfig
    <3> QED
      BY <3>2, <3>3
  <2>4. CASE Tick
    BY <2>0, <2>4 DEF Tick, Older, BreakerType
  <2>5. CASE Recover
    BY <2>5 DEF Recover
  <2> QED
    BY <2>1, <2>2, <2>3, <2>4, <2>5 DEF Next
<1> QED
  BY <1>1, SpecIInv, PTL DEF Spec, OpenAndCloseByTheBook

\* The breaker implements the gate: what its counters, its clock and late
\* outcomes do to it is what the gate does with runs of failures, quiet time
\* and a set of probes.
THEOREM GateImplemented == Spec => ImplementsGate
<1>1. Init => G!Init
  <2> SUFFICES ASSUME Init PROVE G!Init
    OBVIOUS
  <2>1. Probes = {}
    BY DEF Init, Probes
  <2> QED
    BY <2>1 DEF Init, New, G!Init
<1>2. IInv /\ IInv' /\ [Next]_vars => [G!Next]_(G!vars)
  <2> SUFFICES ASSUME IInv, IInv', [Next]_vars PROVE G!Next \/ UNCHANGED G!vars
    OBVIOUS
  <2>0. /\ b \in BreakerType /\ streak \in 0..MaxFailures
        /\ call \in [Callers -> {"idle", "ordinary", "probe"}]
    BY DEF IInv, TypeOK
  <2>1. ASSUME NEW c \in Callers, Admit(c) PROVE G!Next \/ UNCHANGED G!vars
    <3>0. b' = Allow(b) /\ Admits(b) /\ streak' = streak /\ c \notin Probes
      BY <2>1 DEF Admit, Probes
    <3>1. CASE b.state = "closed" /\ Allow(b) = b
      <4>1. b' = b /\ call' = [call EXCEPT ![c] = "ordinary"]
        BY <2>1, <3>0, <3>1 DEF Admit
      <4>2. Probes' = Probes
        BY <4>1, <2>0, <3>0 DEF Probes
      <4> QED
        BY <3>0, <4>1, <4>2 DEF G!vars
    <3>2. CASE /\ b.state = "half-open"
               /\ b.halfOpenSent < HalfOpenRequests
               /\ Allow(b) = [b EXCEPT !.halfOpenSent = @ + 1]
      <4>1. /\ b'.state = "half-open" /\ b'.sinceFail = b.sinceFail
            /\ call' = [call EXCEPT ![c] = "probe"]
        BY <2>0, <2>1, <3>0, <3>2 DEF Admit, BreakerType
      <4>2. Probes' = Probes \cup {c}
        BY <4>1, <2>0 DEF Probes
      <4>3. G!Cardinality(Probes) < HalfOpenRequests
        <5>1. G!Cardinality(Probes) = Cardinality(Probes)
          BY DEF G!Cardinality, Cardinality
        <5> QED
          BY <3>2, <5>1 DEF IInv, ProbesCounted
      <4>4. G!Probe(c)
        BY <3>0, <3>2, <4>1, <4>2, <4>3 DEF G!Probe
      <4> QED
        BY <4>4 DEF G!Next
    <3>3. CASE /\ b.state = "open"
               /\ b.sinceFail >= ResetTimeout
               /\ Allow(b) = [b EXCEPT !.state = "half-open", !.halfOpenSent = 1]
      <4>1. /\ b'.state = "half-open" /\ b'.sinceFail = b.sinceFail
            /\ call' = [call EXCEPT ![c] = "probe"]
        BY <2>0, <2>1, <3>0, <3>3 DEF Admit, BreakerType
      <4>2. Probes' = Probes \cup {c}
        BY <4>1, <2>0 DEF Probes
      <4>3. b.sinceFail = ResetTimeout
        BY <2>0, <3>3, BreakerConfig DEF BreakerType
      <4>4. G!Probe(c)
        BY <3>0, <3>3, <4>1, <4>2, <4>3 DEF G!Probe
      <4> QED
        BY <4>4 DEF G!Next
    <3> QED
      BY <2>0, <3>0, <3>1, <3>2, <3>3, AdmissionCases
  <2>2. ASSUME NEW c \in Callers, Reject(c) PROVE UNCHANGED G!vars
    BY <2>0, <2>2, RejectionIsSilent DEF Reject, Probes, G!vars
  <2>3. ASSUME NEW c \in Callers, NEW err \in Outcomes, Record(c, err) PROVE G!Next
    <3> DEFINE good == err = NoError \/ ~ tripsBreaker(err)
    <3>1. /\ b' = IF good THEN RecordSuccess(b) ELSE RecordFailure(b)
          /\ streak' = IF good THEN 0 ELSE IF streak < MaxFailures THEN streak + 1 ELSE streak
      BY <2>3 DEF Record, recorded
    <3>2. Probes' = {}
      <4>1. b'.state # "half-open"
        BY <2>0, <3>1 DEF RecordSuccess, RecordFailure, BreakerType, State
      <4> QED
        BY <4>1, <2>3 DEF Record, Probes
    <3>3. CASE good
      <4>1. /\ b'.state = IF b.state = "half-open" THEN "closed" ELSE b.state
            /\ b'.sinceFail = b.sinceFail
        BY <2>0, <3>1, <3>3 DEF RecordSuccess, BreakerType
      <4> QED
        BY <3>1, <3>2, <3>3, <4>1 DEF G!Next, G!Succeed
    <3>4. CASE ~ good
      <4>1. b' = RecordFailure(b) /\ b'.sinceFail = 0
        BY <2>0, <3>1, <3>4 DEF RecordFailure, BreakerType
      <4>2. b'.state = IF b.state = "half-open" \/ streak' = MaxFailures THEN "open" ELSE b.state
        <5>1. CASE b.state = "closed"
          <6>1. b.failures = streak /\ streak < MaxFailures
            BY <5>1 DEF IInv, ClosedCountsStreak
          <6>2. streak' = streak + 1
            BY <3>1, <3>4, <6>1
          <6>3. b.failures + 1 >= MaxFailures <=> streak' = MaxFailures
            BY <2>0, <6>1, <6>2, BreakerConfig
          <6> QED
            BY <2>0, <4>1, <5>1, <6>3 DEF RecordFailure, BreakerType
        <5>2. CASE b.state = "open"
          BY <2>0, <4>1, <5>2 DEF RecordFailure, BreakerType
        <5>3. CASE b.state = "half-open"
          BY <2>0, <4>1, <5>3 DEF RecordFailure, BreakerType
        <5> QED
          BY <2>0, <5>1, <5>2, <5>3 DEF BreakerType, State
      <4> QED
        BY <3>1, <3>2, <3>4, <4>1, <4>2 DEF G!Next, G!Fail
    <3> QED
      BY <3>3, <3>4
  <2>4. ASSUME Tick PROVE G!Next
    <3>1. /\ b'.state = b.state /\ streak' = streak /\ Probes' = Probes
          /\ b'.sinceFail = IF b.sinceFail < ResetTimeout THEN b.sinceFail + 1 ELSE b.sinceFail
      BY <2>0, <2>4 DEF Tick, Older, BreakerType, Probes
    <3> QED
      BY <3>1 DEF G!Next, G!Tick
  <2>5. ASSUME Recover PROVE UNCHANGED G!vars
    BY <2>5 DEF Recover, Probes, G!vars
  <2>6. ASSUME UNCHANGED vars PROVE UNCHANGED G!vars
    BY <2>6 DEF vars, Probes, G!vars
  <2> QED
    BY <2>1, <2>2, <2>3, <2>4, <2>5, <2>6 DEF Next
<1> QED
  BY <1>1, <1>2, SpecIInv, PTL DEF Spec, ImplementsGate, G!Spec
=============================================================================
