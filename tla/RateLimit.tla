----------------------------- MODULE RateLimit -----------------------------
(***************************************************************************)
(* middleware/ratelimit.go: the token bucket that concurrent callers of    *)
(* one provider share.                                                     *)
(*                                                                         *)
(* Time is counted in ticks of the clock, Second of them to a second.      *)
(* Tokens are counted in units of 1/Second of a token, so that the refill  *)
(* of one tick, requestsPerSecond of those units, is a whole number; a     *)
(* token is Second units.  The code computes in float64; the model is      *)
(* exact, except for the conversion of a wait to a time.Duration, which    *)
(* drops the fraction of a tick as the code does.                          *)
(***************************************************************************)
EXTENDS Integers

CONSTANTS Callers,   \* goroutines that call through the limiter
          Rate,      \* requestsPerSecond
          Second     \* ticks in a second (10^9 in the code)

\* The limiter is built only for a positive rate (client.go:604), and a rate
\* above one request per clock tick is outside the model.
ASSUME RateAssumption ==
    /\ Rate \in Nat \ {0}
    /\ Second \in Nat \ {0}
    /\ Rate <= Second

VARIABLES tokens,   \* units in the bucket at the last check
          idle,     \* ticks since the last check, up to a second: by then
                    \* the bucket is full
          pc,       \* pc[c]: "idle" or "waiting" inside acquire
          timer,    \* timer[c]: ticks left of time.After(wait)
          debt,     \* history: units admitted and not yet earned back, a
                    \* meter that drains Rate units a tick and stops at 0
          granted   \* history: the last step let a call through

vars == <<tokens, idle, pc, timer, debt, granted>>

Capacity == Rate * Second

\* What the bucket holds once the time since the last check is credited.
Refilled ==
    IF tokens + idle * Rate > Capacity THEN Capacity ELSE tokens + idle * Rate

TypeOK ==
    /\ tokens \in 0..Capacity
    /\ idle \in 0..Second
    /\ pc \in [Callers -> {"idle", "waiting"}]
    /\ timer \in [Callers -> 0..Second]
    /\ debt \in Nat
    /\ granted \in BOOLEAN
-----------------------------------------------------------------------------
Init ==
    /\ tokens = Capacity
    /\ idle = 0
    /\ pc = [c \in Callers |-> "idle"]
    /\ timer = [c \in Callers |-> 0]
    /\ debt = 0
    /\ granted = FALSE

\* Mutant of Wait: rounded the wrong way.
WaitOneMore(t) == (Second - t) \div Rate + 1

\* The duration tryAcquire returns when there is no whole token; the
\* conversion to a Duration truncates.
Wait(t) == (Second - t) \div Rate

\* acquire returns nil to c.
Grant(c) ==
    /\ pc' = [pc EXCEPT ![c] = "idle"]
    /\ timer' = [timer EXCEPT ![c] = 0]
    /\ debt' = debt + Second
    /\ granted' = TRUE

\* c goes to sleep in the select of acquire.
Sleep(c, wait) ==
    /\ pc' = [pc EXCEPT ![c] = "waiting"]
    /\ timer' = [timer EXCEPT ![c] = wait]
    /\ granted' = FALSE
    /\ UNCHANGED debt

\* Mutant of TryAcquire: a failed attempt moves lastCheck and forgets the
\* refill it has computed.
TryAcquireLosesRefill(c) ==
    /\ idle' = 0
    /\ \/ /\ Refilled >= Second
          /\ tokens' = Refilled - Second
          /\ Grant(c)
       \/ /\ Refilled < Second
          /\ UNCHANGED tokens
          /\ IF Wait(Refilled) = 0 THEN Grant(c) ELSE Sleep(c, Wait(Refilled))

\* tryAcquire under the mutex, and what acquire does with its result: a
\* result of zero is taken for a token.
TryAcquire(c) ==
    /\ idle' = 0
    /\ \/ /\ Refilled >= Second
          /\ tokens' = Refilled - Second
          /\ Grant(c)
       \/ /\ Refilled < Second
          /\ tokens' = Refilled
          /\ IF Wait(Refilled) = 0 THEN Grant(c) ELSE Sleep(c, Wait(Refilled))

\* A new call reaches the limiter.
Call(c) == pc[c] = "idle" /\ TryAcquire(c)

\* The timer of a waiting call fires and the loop tries again.
Wake(c) == pc[c] = "waiting" /\ timer[c] = 0 /\ TryAcquire(c)

\* The context of a waiting call ends: acquire returns ctx.Err().
Cancel(c) ==
    /\ pc[c] = "waiting"
    /\ pc' = [pc EXCEPT ![c] = "idle"]
    /\ timer' = [timer EXCEPT ![c] = 0]
    /\ granted' = FALSE
    /\ UNCHANGED <<tokens, idle, debt>>

\* The clock advances.  A fired timer does not hold it back: its goroutine
\* may be scheduled late.
Tick ==
    /\ idle' = IF idle < Second THEN idle + 1 ELSE idle
    /\ timer' = [c \in Callers |-> IF timer[c] > 0 THEN timer[c] - 1 ELSE 0]
    /\ debt' = IF debt > Rate THEN debt - Rate ELSE 0
    /\ granted' = FALSE
    /\ UNCHANGED <<tokens, pc>>

Next == Tick \/ \E c \in Callers : Call(c) \/ Wake(c) \/ Cancel(c)

Spec == Init /\ [][Next]_vars

\* The clock runs and a goroutine whose timer has fired is scheduled.
FairSpec == Spec /\ WF_vars(Tick) /\ \A c \in Callers : WF_vars(Wake(c))
-----------------------------------------------------------------------------
\* Tokens are neither minted nor lost under any interleaving of callers,
\* late wake-ups and cancellations: what has been admitted and not earned
\* back is exactly what is missing from the bucket (ratelimit.go:147-168).
TokensConserved == debt + Refilled = Capacity

\* "capped at requestsPerSecond req/s" (ratelimit.go:23), for every window
\* of time: no N seconds admit more than (N + 1) * Rate calls.  The meter
\* stays within Capacity iff every window obeys that bound.
RateCapped == debt <= Capacity

\* Nobody sleeps while the bucket holds a token: the wait computed from one
\* caller's view of the bucket is never too long, although other callers
\* take tokens and reset lastCheck meanwhile (ratelimit.go:132-143, 166-167).
NoSleepOnToken == \A c \in Callers : timer[c] > 0 => Refilled < Second

\* As long as somebody waits, somebody is let through: the limiter never
\* stalls while callers keep losing the race for the token, each reset of
\* lastCheck by a failed attempt notwithstanding (ratelimit.go:132-143).
SomebodyGetsThrough ==
    (\E c \in Callers : pc[c] = "waiting")
        ~> (granted \/ \A c \in Callers : pc[c] = "idle")
=============================================================================
