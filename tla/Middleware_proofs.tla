-------------------------- MODULE Middleware_proofs -------------------------
(***************************************************************************)
(* The rate limiter for every number of callers and every rate, and the    *)
(* retry loop for every number of retries, set of outcomes and hint.       *)
(*                                                                         *)
(* Conservation of the tokens, and with it the rate cap, needs that the    *)
(* rate divides the clock: otherwise the wait truncates to zero and a      *)
(* caller passes without a token, which the run RateLimit_truncation       *)
(* shows.                                                                  *)
(***************************************************************************)
EXTENDS RateLimit, Retry, TLAPS

-----------------------------------------------------------------------------
(* Arithmetic of the bucket *)

\* The products the bucket is made of are natural numbers, and a token fits.
LEMMA Products ==
    /\ Capacity \in Nat
    /\ Second <= Capacity
    /\ \A i \in Nat : i * Rate \in Nat /\ (i + 1) * Rate = i * Rate + Rate
    /\ \A i \in Nat : i >= 1 => i * Rate >= Rate
<1>1. Rate \in Nat /\ Second \in Nat /\ Rate >= 1 /\ Second >= 1
  BY RateAssumption
<1>2. Capacity \in Nat /\ Second <= Capacity
  BY <1>1, SMT DEF Capacity
<1>3. \A i \in Nat : i * Rate \in Nat /\ (i + 1) * Rate = i * Rate + Rate
  BY <1>1, SMT
<1>4. \A i \in Nat : i >= 1 => i * Rate >= Rate
  BY <1>1, SMT
<1> QED
  BY <1>2, <1>3, <1>4

\* The wait for t units is the number of whole ticks of refill that the
\* missing units take (ratelimit.go:167).
LEMMA WaitBounds ==
    ASSUME NEW t \in Nat, t < Second
    PROVE  /\ Wait(t) \in 0..Second
           /\ t + Wait(t) * Rate <= Second
           /\ Second < t + Wait(t) * Rate + Rate
<1>1. Rate \in Nat /\ Rate >= 1 /\ Second - t \in Nat
  BY RateAssumption
<1> DEFINE d == Second - t
           w == d \div Rate
<1>2. w \in Int /\ w * Rate <= d /\ d < w * Rate + Rate
  <2>1. \A x \in Nat, r \in Nat : r >= 1 =>
           x \div r \in Int /\ (x \div r) * r <= x /\ x < (x \div r) * r + r
    BY SMT
  <2> QED
    BY <1>1, <2>1
<1>3. w >= 0
  <2>1. SUFFICES ASSUME w <= -1 PROVE FALSE
    BY <1>2
  <2>2. w * Rate <= -Rate
    BY <1>1, <1>2, <2>1, SMT
  <2> QED
    BY <1>1, <1>2, <2>2
<1>4. w <= w * Rate
  BY <1>1, <1>2, <1>3, SMT
<1>5. w <= Second
  BY <1>1, <1>2, <1>4, RateAssumption
<1> QED
  BY <1>1, <1>2, <1>3, <1>5, RateAssumption DEF Wait

-----------------------------------------------------------------------------
(* Type correctness, and that nobody sleeps on a token *)

\* A running timer ends no later than the moment the bucket holds a token.
TimersInTime == \A c \in Callers : timer[c] > 0 => Refilled + timer[c] * Rate <= Second

TInv == TypeOK /\ TimersInTime

\* The credited bucket stays within its capacity.
LEMMA RefilledRange == TypeOK => Refilled \in 0..Capacity
  BY Products DEF TypeOK, Refilled

\* A tick credits one tick of refill.
LEMMA RefillOfTick ==
    ASSUME TypeOK, Tick
    PROVE  Refilled' = IF Refilled + Rate > Capacity THEN Capacity ELSE Refilled + Rate
<1>0. /\ tokens \in Nat /\ tokens' = tokens /\ idle \in Nat /\ Rate \in Nat
      /\ idle * Rate \in Nat /\ (idle + 1) * Rate = idle * Rate + Rate /\ Capacity \in Nat
  BY Products, RateAssumption DEF TypeOK, Tick
<1>1. CASE idle < Second
  <2>1. idle' = idle + 1
    BY <1>1 DEF Tick
  <2> QED
    BY <1>0, <2>1 DEF Refilled
<1>2. CASE ~ (idle < Second)
  <2>1. idle = Second /\ idle' = Second
    BY <1>2, RateAssumption DEF TypeOK, Tick
  <2>2. idle * Rate = Capacity
    BY <2>1, RateAssumption DEF Capacity
  <2> QED
    BY <1>0, <2>1, <2>2 DEF Refilled
<1> QED
  BY <1>1, <1>2

\* A failed or successful check leaves in the bucket what it stored.
LEMMA RefillOfCheck ==
    ASSUME TypeOK, NEW c \in Callers, TryAcquire(c)
    PROVE  /\ Refilled' = tokens'
           /\ tokens' \in 0..Capacity
           /\ tokens' <= Refilled
<1>1. Refilled \in 0..Capacity /\ Capacity \in Nat /\ Second \in Nat
  BY RefilledRange, Products, RateAssumption
<1>2. tokens' \in 0..Capacity /\ tokens' <= Refilled
  BY <1>1 DEF TryAcquire
<1>3. idle' * Rate = 0
  BY RateAssumption DEF TryAcquire
<1> QED
  BY <1>1, <1>2, <1>3 DEF Refilled

\* Every step preserves the types and the timers.
LEMMA NextTInv == TInv /\ [Next]_vars => TInv'
<1> SUFFICES ASSUME TInv, [Next]_vars PROVE TInv'
  OBVIOUS
<1>0. /\ TypeOK /\ Rate \in Nat /\ Second \in Nat /\ Capacity \in Nat
      /\ Refilled \in Nat /\ Rate >= 1
  BY RefilledRange, Products, RateAssumption DEF TInv
<1>1. ASSUME NEW c \in Callers, TryAcquire(c) PROVE TInv'
  <2>1. Refilled' = tokens' /\ tokens' \in 0..Capacity /\ tokens' <= Refilled
    BY <1>0, <1>1, RefillOfCheck
  <2>2. CASE Grant(c)
    <3>1. TypeOK'
      BY <1>0, <1>1, <2>1, <2>2 DEF TypeOK, TryAcquire, Grant
    <3>2. ASSUME NEW d \in Callers, timer'[d] > 0
          PROVE  Refilled' + timer'[d] * Rate <= Second
      <4>1. d # c /\ timer'[d] = timer[d]
        BY <2>2, <3>2 DEF Grant, TypeOK, TInv
      <4>2. Refilled + timer[d] * Rate <= Second
        BY <3>2, <4>1 DEF TInv, TimersInTime
      <4>3. timer[d] * Rate \in Nat
        BY Products, <1>0 DEF TypeOK
      <4> QED
        BY <1>0, <2>1, <4>1, <4>2, <4>3
    <3> QED
      BY <3>1, <3>2 DEF TInv, TimersInTime
  <2>3. CASE Refilled < Second /\ tokens' = Refilled /\ Sleep(c, Wait(Refilled))
    <3>1. Wait(Refilled) \in 0..Second /\ Refilled + Wait(Refilled) * Rate <= Second
      BY <1>0, <2>3, WaitBounds
    <3>2. TypeOK'
      <4>1. idle' \in 0..Second
        BY <1>0, <1>1 DEF TryAcquire
      <4>2. timer' \in [Callers -> 0..Second] /\ pc' \in [Callers -> {"idle", "waiting"}]
        BY <1>0, <2>3, <3>1 DEF TypeOK, Sleep
      <4>3. debt' \in Nat /\ granted' \in BOOLEAN
        BY <1>0, <2>3 DEF TypeOK, Sleep
      <4>4. Capacity' = Capacity
        BY DEF Capacity
      <4> QED
        BY <2>1, <4>1, <4>2, <4>3, <4>4 DEF TypeOK
    <3>3. ASSUME NEW d \in Callers, timer'[d] > 0
          PROVE  Refilled' + timer'[d] * Rate <= Second
      <4>1. CASE d = c
        BY <2>1, <2>3, <3>1, <4>1 DEF Sleep, TInv, TypeOK
      <4>2. CASE d # c
        <5>1. timer'[d] = timer[d]
          BY <2>3, <4>2 DEF Sleep, TInv, TypeOK
        <5> QED
          BY <2>1, <2>3, <3>3, <5>1 DEF TInv, TimersInTime
      <4> QED
        BY <4>1, <4>2
    <3> QED
      BY <3>2, <3>3 DEF TInv, TimersInTime
  <2> QED
    BY <1>1, <2>2, <2>3 DEF TryAcquire
<1>2. ASSUME NEW c \in Callers, Cancel(c) PROVE TInv'
  <2>1. Capacity' = Capacity /\ Refilled' = Refilled
    BY <1>2 DEF Cancel, Refilled, Capacity
  <2>3. TypeOK'
    <3>1. timer' \in [Callers -> 0..Second] /\ pc' \in [Callers -> {"idle", "waiting"}]
      BY <1>0, <1>2 DEF TypeOK, Cancel
    <3> QED
      BY <1>0, <1>2, <2>1, <3>1 DEF TypeOK, Cancel
  <2>2. \A d \in Callers : timer'[d] > 0 => timer'[d] = timer[d]
    BY <1>0, <1>2 DEF Cancel, TypeOK
  <2> QED
    BY <2>1, <2>2, <2>3 DEF TInv, TimersInTime
<1>3. CASE Tick
  <2>1. TypeOK'
    <3>1. idle' \in 0..Second /\ timer' \in [Callers -> 0..Second]
      BY <1>0, <1>3 DEF Tick, TypeOK
    <3>2. debt' \in Nat
      BY <1>0, <1>3 DEF Tick, TypeOK
    <3> QED
      BY <1>0, <1>3, <3>1, <3>2 DEF Tick, TypeOK
  <2>2. Refilled' <= Refilled + Rate
    BY <1>0, <1>3, RefillOfTick
  <2>3. ASSUME NEW d \in Callers, timer'[d] > 0
        PROVE  Refilled' + timer'[d] * Rate <= Second
    <3>1. timer[d] \in Nat /\ timer[d] > 0 /\ timer'[d] = timer[d] - 1
      BY <1>0, <1>3, <2>3 DEF Tick, TypeOK
    <3>2. Refilled + timer[d] * Rate <= Second
      BY <3>1 DEF TInv, TimersInTime
    <3>3. timer'[d] \in Nat /\ timer[d] = timer'[d] + 1
      BY <3>1
    <3>4. timer[d] * Rate = timer'[d] * Rate + Rate /\ timer'[d] * Rate \in Nat
      BY <3>3, Products
    <3>5. Refilled' \in Nat
      BY <2>1, RefilledRange, <1>0, <1>3, RefillOfTick
    <3> QED
      BY <1>0, <2>2, <3>2, <3>4, <3>5
  <2> QED
    BY <2>1, <2>3 DEF TInv, TimersInTime
<1>4. CASE UNCHANGED vars
  BY <1>4 DEF vars, TInv, TypeOK, TimersInTime, Refilled
<1> QED
  BY <1>1, <1>2, <1>3, <1>4 DEF Next, Call, Wake

\* The invariant holds of a full bucket.
LEMMA InitTInv == Init => TInv
<1> SUFFICES ASSUME Init PROVE TInv
  OBVIOUS
<1>1. Capacity \in 0..Capacity /\ 0 \in 0..Second
  BY Products, RateAssumption
<1>2. TypeOK
  BY <1>1 DEF Init, TypeOK
<1>3. TimersInTime
  BY DEF Init, TimersInTime
<1> QED
  BY <1>2, <1>3 DEF TInv

\* The invariant holds in every reachable state.

LEMMA SpecTInv == Spec => []TInv
  BY InitTInv, NextTInv, PTL DEF Spec

\* Type correctness of the limiter, for every rate and set of callers.
THEOREM TypeCorrect == Spec => []TypeOK
<1>1. TInv => TypeOK
  BY DEF TInv
<1> QED
  BY <1>1, SpecTInv, PTL

\* No caller sleeps while the bucket holds a token (ratelimit.go:132-143):
\* this needs no relation between the rate and the clock.
THEOREM NobodySleepsOnAToken == Spec => []NoSleepOnToken
<1>1. TInv => NoSleepOnToken
  <2> SUFFICES ASSUME TInv, NEW c \in Callers, timer[c] > 0 PROVE Refilled < Second
    BY DEF NoSleepOnToken
  <2>1. timer[c] \in Nat /\ timer[c] * Rate >= Rate /\ timer[c] * Rate \in Nat
    BY Products DEF TInv, TypeOK
  <2>2. Refilled \in Nat /\ Rate \in Nat /\ Rate >= 1 /\ Second \in Nat
    BY RefilledRange, Products, RateAssumption DEF TInv
  <2>3. Refilled + timer[c] * Rate <= Second
    BY DEF TInv, TimersInTime
  <2> QED
    BY <2>1, <2>2, <2>3
<1> QED
  BY <1>1, SpecTInv, PTL

-----------------------------------------------------------------------------
(* Conservation of tokens *)

\* The rate divides the clock: every wait is a whole number of ticks.
RateDividesClock == \E n \in Nat : Second = n * Rate

\* The bucket holds a whole number of ticks of refill.
WholeTicks == \E k \in Nat : tokens = k * Rate

CInv == TInv /\ WholeTicks /\ TokensConserved

\* With a whole number of ticks in the bucket, a caller that finds no token
\* waits for at least one tick, so it cannot mistake the wait for a token.
LEMMA NoZeroWait ==
    ASSUME RateDividesClock, NEW m \in Nat, m * Rate < Second
    PROVE  Wait(m * Rate) # 0
<1>1. PICK n \in Nat : Second = n * Rate
  BY DEF RateDividesClock
<1>2. Rate \in Nat /\ Rate >= 1
  BY RateAssumption
<1>3. m * Rate \in Nat
  BY Products
<1>4. m < n
  <2> SUFFICES ASSUME m >= n PROVE FALSE
    OBVIOUS
  <2>1. m * Rate >= n * Rate
    BY <1>2, SMT
  <2> QED
    BY <1>1, <1>3, <2>1, RateAssumption
<1>5. Second - m * Rate >= Rate
  <2>1. (m + 1) * Rate <= n * Rate
    BY <1>2, <1>4, SMT
  <2> QED
    BY <1>1, <1>3, <2>1, Products, RateAssumption
<1> SUFFICES ASSUME Wait(m * Rate) = 0 PROVE FALSE
  OBVIOUS
<1>6. Second < m * Rate + Wait(m * Rate) * Rate + Rate
  BY <1>3, WaitBounds
<1> QED
  BY <1>2, <1>3, <1>5, <1>6, RateAssumption

\* The credited bucket too holds a whole number of ticks of refill.
LEMMA RefilledWhole ==
    ASSUME TypeOK, WholeTicks, RateDividesClock
    PROVE  \E m \in Nat : Refilled = m * Rate
<1>1. PICK k \in Nat : tokens = k * Rate
  BY DEF WholeTicks
<1>2. idle \in Nat /\ Rate \in Nat /\ Second \in Nat
  BY RateAssumption DEF TypeOK
<1>3. tokens + idle * Rate = (k + idle) * Rate
  BY <1>1, <1>2, SMT
<1>4. Capacity = Second * Rate
  BY <1>2, SMT DEF Capacity
<1> QED
  BY <1>2, <1>3, <1>4 DEF Refilled

\* Every step conserves the tokens.
LEMMA NextCInv == RateDividesClock /\ CInv /\ [Next]_vars => CInv'
<1> SUFFICES ASSUME RateDividesClock, CInv, [Next]_vars PROVE CInv'
  OBVIOUS
<1>0. /\ TypeOK /\ Rate \in Nat /\ Second \in Nat /\ Capacity \in Nat
      /\ Refilled \in 0..Capacity /\ Rate >= 1 /\ debt \in Nat
      /\ debt + Refilled = Capacity
  BY RefilledRange, Products, RateAssumption DEF CInv, TInv, TypeOK, TokensConserved
<1>1. TInv'
  BY NextTInv DEF CInv
<1>2. ASSUME NEW c \in Callers, TryAcquire(c) PROVE WholeTicks' /\ TokensConserved'
  <2>1. Refilled' = tokens'
    BY <1>0, <1>2, RefillOfCheck
  <2>2. PICK m \in Nat : Refilled = m * Rate
    BY <1>0, RefilledWhole DEF CInv
  <2>3. CASE Refilled >= Second
    <3>1. tokens' = Refilled - Second /\ debt' = debt + Second
      BY <1>0, <1>2, <2>3 DEF TryAcquire, Grant
    <3>2. PICK n \in Nat : Second = n * Rate
      BY DEF RateDividesClock
    <3>3. m >= n
      <4> SUFFICES ASSUME m + 1 <= n PROVE FALSE
        OBVIOUS
      <4>1. (m + 1) * Rate <= n * Rate
        BY <1>0, SMT
      <4> QED
        BY <1>0, <2>2, <2>3, <3>2, <4>1, Products
    <3>4. tokens' = (m - n) * Rate
      BY <1>0, <2>2, <3>1, <3>2, <3>3, SMT
    <3>5. m - n \in Nat
      BY <3>3
    <3>6. Capacity' = Capacity
      BY DEF Capacity
    <3> QED
      BY <1>0, <2>1, <3>1, <3>4, <3>5, <3>6 DEF WholeTicks, TokensConserved
  <2>4. CASE Refilled < Second
    <3>1. Wait(Refilled) # 0
      BY <2>2, <2>4, NoZeroWait
    <3>2. tokens' = Refilled /\ debt' = debt
      BY <1>0, <1>2, <2>4, <3>1 DEF TryAcquire, Sleep
    <3> QED
      BY <1>0, <2>1, <2>2, <3>2 DEF WholeTicks, TokensConserved, Capacity
  <2>5. Refilled >= Second \/ Refilled < Second
    BY <1>0
  <2> QED
    BY <2>3, <2>4, <2>5
<1>3. ASSUME NEW c \in Callers, Cancel(c) PROVE WholeTicks' /\ TokensConserved'
  BY <1>3 DEF Cancel, CInv, WholeTicks, TokensConserved, Refilled, Capacity
<1>4. CASE Tick
  <2>1. Refilled' = IF Refilled + Rate > Capacity THEN Capacity ELSE Refilled + Rate
    BY <1>0, <1>4, RefillOfTick
  <2>2. debt' = IF debt > Rate THEN debt - Rate ELSE 0
    BY <1>4 DEF Tick
  <2>3. TokensConserved'
    BY <1>0, <2>1, <2>2 DEF TokensConserved, Capacity
  <2>4. WholeTicks'
    BY <1>4 DEF Tick, CInv, WholeTicks
  <2> QED
    BY <1>1, <2>3, <2>4 DEF CInv
<1>5. CASE UNCHANGED vars
  <2>1. WholeTicks' /\ TokensConserved'
    BY <1>5 DEF vars, CInv, WholeTicks, TokensConserved, Refilled, Capacity
  <2> QED
    BY <1>1, <2>1 DEF CInv
<1> QED
  BY <1>1, <1>2, <1>3, <1>4, <1>5 DEF Next, Call, Wake, CInv

\* The bucket starts full, a whole number of ticks.
LEMMA InitCInv == Init => CInv
<1> SUFFICES ASSUME Init PROVE CInv
  OBVIOUS
<1>1. TInv
  BY InitTInv
<1>2. Rate \in Nat /\ Second \in Nat /\ Capacity \in Nat /\ Capacity = Second * Rate
  BY RateAssumption, Products, SMT DEF Capacity
<1>3. WholeTicks
  BY <1>2 DEF Init, WholeTicks
<1>4. Refilled = Capacity
  BY <1>2 DEF Init, Refilled
<1> QED
  BY <1>1, <1>2, <1>3, <1>4 DEF Init, CInv, TokensConserved

\* Tokens are conserved whenever the rate divides the clock.
THEOREM TokensAreConserved == RateDividesClock /\ Spec => []TokensConserved
<1>1. CInv => TokensConserved
  BY DEF CInv
<1> SUFFICES ASSUME RateDividesClock PROVE Spec => []TokensConserved
  OBVIOUS
<1>3. CInv /\ [Next]_vars => CInv'
  BY NextCInv
<1> QED
  BY <1>1, <1>3, InitCInv, PTL DEF Spec

\* Hence, for such a rate, every window of time obeys the configured rate.
THEOREM RateIsCapped == RateDividesClock /\ Spec => []RateCapped
<1> SUFFICES ASSUME RateDividesClock PROVE Spec => []RateCapped
  OBVIOUS
<1>1. CInv => RateCapped
  BY RefilledRange, Products DEF CInv, TInv, TypeOK, TokensConserved, RateCapped
<1>2. CInv /\ [Next]_vars => CInv'
  BY NextCInv
<1> QED
  BY <1>1, <1>2, InitCInv, PTL DEF Spec

-----------------------------------------------------------------------------
(* The retry loop *)

\* Before the overflow the cap of a delay is a whole number of units, at least
\* the first one's.
LEMMA CapsArePositive ==
    ASSUME NEW a \in Nat, a < OverflowAttempt, NEW cap \in DelayCaps(a)
    PROVE  cap \in Nat /\ cap >= 2
<1>1. CASE a > 5
  BY <1>1, SMT DEF DelayCaps, OverflowAttempt, maxDelay
<1>2. CASE ~ (a > 5)
  <2>1. a + 1 \in 1..6 /\ cap = <<2, 4, 8, 16, 32, 64>>[a + 1]
    BY <1>2, SMT DEF DelayCaps, OverflowAttempt
  <2>2. a + 1 \in {1, 2, 3, 4, 5, 6}
    BY <2>1, SMT
  <2> QED
    BY <2>1, <2>2, SMT
<1> QED
  BY <1>1, <1>2

\* Equal jitter leaves at least half of a cap that is not tiny, and every wait
\* is an integer.
LEMMA JitterKeepsHalf ==
    ASSUME NEW cap \in Nat, cap >= 2, NEW w \in Jittered(cap)
    PROVE  w \in Nat /\ w >= 1
<1>1. cap \div 2 \in Nat /\ cap \div 2 >= 1
  BY SMT
<1> QED
  BY <1>1, SMT DEF Jittered

\* What backoff may return is an integer, and before the overflow a wait.
LEMMA BackoffWaits ==
    ASSUME NEW a \in Nat, NEW hint \in Hints, NEW w \in backoff(a, hint)
    PROVE  w \in Int /\ (a < OverflowAttempt => w >= 1)
<1>0. hint \in Nat
  BY RetryConfig
<1>1. CASE hint > 0
  BY <1>0, <1>1, SMT DEF backoff, maxRetryAfterWait
<1>2. CASE ~ (hint > 0)
  <2>1. PICK cap \in DelayCaps(a) : w \in Jittered(cap)
    BY <1>2 DEF backoff
  <2>2. CASE a < OverflowAttempt
    BY <2>1, <2>2, CapsArePositive, JitterKeepsHalf
  <2>3. CASE ~ (a < OverflowAttempt)
    <3>1. cap \in {-1, 120}
      BY <2>1, <2>3, SMT DEF DelayCaps, Overflowed,
          OverflowAttempt, maxDelay
    <3>2. CASE cap = -1
      <4>1. (-1) \div 2 <= 0
        BY SMT
      <4>2. w = -1
        BY <2>1, <3>2, <4>1 DEF Jittered
      <4> QED
        BY <2>3, <4>2
    <3>3. CASE cap = 120
      BY <2>1, <2>3, <3>3, JitterKeepsHalf
    <3> QED
      BY <3>1, <3>2, <3>3
  <2> QED
    BY <2>2, <2>3
<1> QED
  BY <1>1, <1>2

\* A sleep has a wait that is positive; the wait before an attempt is too; and
\* an attempt is late only after a sleep that was begun in time: the loop has
\* begun none when the context is alive or it still sleeps.
Waited ==
    /\ BeforeOverflow /\ attempt > 0 => wait >= 1
    /\ loop = "sleep" => wait >= 1 /\ attempt < MaxRetries
    /\ late <= attempt
    /\ BeforeOverflow =>
          /\ ~ cancelled => late = 0
          /\ loop = "sleep" => late = 0
          /\ late <= 1

RInv == RetryTypeOK /\ Waited

\* The loop's first state.
LEMMA InitRInv == ASSUME RetryInit PROVE RInv
<1>1. MaxRetries \in Nat
  BY RetryConfig
<1>2. RetryTypeOK
  <2>1. attempt \in 0..MaxRetries /\ late \in 0..MaxRetries /\ wait \in Int
    BY <1>1, SMT DEF RetryInit
  <2>2. cancelled \in BOOLEAN /\ loop \in {"call", "sleep", "done"}
    BY DEF RetryInit
  <2>3. err \in Outcomes \cup {NoError, PlainError}
    BY DEF RetryInit
  <2> QED
    BY <2>1, <2>2, <2>3 DEF RetryTypeOK
<1>3. Waited
  BY <1>1 DEF RetryInit, Waited
<1> QED
  BY <1>2, <1>3 DEF RInv

\* Every step of the loop preserves the types and the waits.
LEMMA NextRInv == ASSUME RInv, [RetryNext]_retryVars PROVE RInv'
<1>0. MaxRetries \in Nat /\ attempt \in Nat /\ OverflowAttempt \in Nat
  BY RetryConfig DEF RInv, RetryTypeOK, OverflowAttempt
<1>1. ASSUME NEW e \in Outcomes, Settled(e) PROVE RInv'
  BY <1>1, <1>0 DEF Settled, Return, RInv, RetryTypeOK,
      Waited, BeforeOverflow
<1>2. ASSUME NEW e \in Outcomes, Failed(e) PROVE RInv'
  <2>0. PICK hint \in (IF e.status = 429 THEN Hints ELSE {0}) :
           \E w \in backoff(attempt, hint) :
             \/ w <= 0 /\ wait' = w /\ Again
             \/ w > 0 /\ cancelled /\ Return(PlainError)
             \/ /\ w > 0 /\ ~ cancelled
                /\ loop' = "sleep"
                /\ wait' = w
                /\ UNCHANGED <<attempt, err, cancelled, late>>
    BY <1>2 DEF Failed
  <2>1. PICK w \in backoff(attempt, hint) :
           \/ w <= 0 /\ wait' = w /\ Again
           \/ w > 0 /\ cancelled /\ Return(PlainError)
           \/ /\ w > 0 /\ ~ cancelled
              /\ loop' = "sleep"
              /\ wait' = w
              /\ UNCHANGED <<attempt, err, cancelled, late>>
    BY <2>0
  <2>2. hint \in Hints
    BY <2>0, RetryConfig
  <2>3. w \in Int /\ (attempt < OverflowAttempt => w >= 1)
    BY <1>0, <2>1, <2>2, BackoffWaits
  <2>4. attempt < MaxRetries /\ loop = "call"
    BY <1>2 DEF Failed
  <2>5. CASE w <= 0 /\ wait' = w /\ Again
    BY <1>0, <2>3, <2>4, <2>5 DEF Again, RInv, RetryTypeOK, Waited, BeforeOverflow
  <2>6. CASE w > 0 /\ cancelled /\ Return(PlainError)
    BY <1>0, <2>4, <2>6 DEF Return, RInv, RetryTypeOK, Waited, BeforeOverflow
  <2>7. CASE /\ w > 0 /\ ~ cancelled
             /\ loop' = "sleep"
             /\ wait' = w
             /\ UNCHANGED <<attempt, err, cancelled, late>>
    BY <1>0, <2>3, <2>4, <2>7 DEF RInv, RetryTypeOK, Waited, BeforeOverflow
  <2> QED
    BY <2>1, <2>5, <2>6, <2>7
<1>3. CASE TimerFires
  BY <1>0, <1>3 DEF TimerFires, Again, RInv, RetryTypeOK, Waited, BeforeOverflow
<1>4. CASE WakeCancelled
  BY <1>0, <1>4 DEF WakeCancelled, Return, RInv, RetryTypeOK,
      Waited, BeforeOverflow
<1>5. CASE ContextEnds
  BY <1>0, <1>5 DEF ContextEnds, RInv, RetryTypeOK, Waited, BeforeOverflow
<1>6. CASE UNCHANGED retryVars
  BY <1>6 DEF retryVars, RInv, RetryTypeOK, Waited, BeforeOverflow
<1> QED
  BY <1>1, <1>2, <1>3, <1>4, <1>5, <1>6 DEF RetryNext

\* The strengthening holds in every state the loop reaches.
LEMMA RInvAlways == RetrySpec => []RInv
<1>1. RetryInit => RInv
  BY InitRInv
<1>2. RInv /\ [RetryNext]_retryVars => RInv'
  BY NextRInv
<1> QED
  BY <1>1, <1>2, PTL DEF RetrySpec, retryVars

\* Before the backoff overflows no attempt but the first is sent without a
\* wait, whatever the outcomes and the server's hints (retry.go:270-292).
THEOREM RetriesWait == RetrySpec => []EveryRetryWaits
<1>1. RInv => EveryRetryWaits
  BY DEF RInv, Waited, EveryRetryWaits
<1> QED
  BY <1>1, RInvAlways, PTL

\* Before the backoff overflows an ended context lets the loop begin one more
\* attempt at most (retry.go:47-51, 319-329).
THEOREM CancelIsHeard == RetrySpec => []CancelEndsLoop
<1>1. RInv => CancelEndsLoop
  BY DEF RInv, Waited, CancelEndsLoop
<1> QED
  BY <1>1, RInvAlways, PTL
=============================================================================
