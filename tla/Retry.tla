------------------------------- MODULE Retry -------------------------------
(***************************************************************************)
(* middleware/retry.go: one retry loop, with its backoff and its context.  *)
(*                                                                         *)
(* Every method of RetryMiddleware but Health is this loop around a        *)
(* different call.  Durations are in units of 250 ms, so that half of the  *)
(* smallest backoff is a whole number of them.                             *)
(***************************************************************************)
EXTENDS Errors

CONSTANTS MaxRetries,   \* additional attempts
          Outcomes,     \* what one attempt may return: errors and NoError
          Hints         \* RetryAfter values a 429 may carry, 0 for none; a
                        \* positive one is a unit or more

\* No outcome is outside the model and a hint is a duration.
ASSUME RetryConfig ==
    /\ MaxRetries \in Nat
    /\ Outcomes # {}
    /\ Hints \subseteq Nat
    /\ 0 \in Hints

maxDelay == 120            \* 30 s
maxRetryAfterWait == 480   \* 2 min

\* The first attempt whose 500 ms * 2^attempt is beyond the 2^63-1 ns of a
\* time.Duration.
OverflowAttempt == 35

\* The outcome of a float64 to int64 conversion that is out of range is left
\* to the implementation: amd64 yields the smallest integer, arm64 saturates.
Overflowed == {-1, maxDelay}

\* min(500 ms * 2^attempt, maxDelay), as the code computes it.
DelayCaps(attempt) ==
    IF attempt >= OverflowAttempt THEN Overflowed
    ELSE IF attempt > 5 THEN {maxDelay}
    ELSE {<<2, 4, 8, 16, 32, 64>>[attempt + 1]}

\* Mutant of Jittered: full jitter, from no wait at all.
JitteredFromZero(cap) == IF cap \div 2 <= 0 THEN {cap} ELSE 0..cap

\* The waits that equal jitter may choose between for one delay cap.
Jittered(cap) == IF cap \div 2 <= 0 THEN {cap} ELSE (cap \div 2)..cap

\* backoff: the server's hint, or a jittered exponential delay.
backoff(attempt, hint) ==
    IF hint > 0
    THEN {IF hint > maxRetryAfterWait THEN maxRetryAfterWait ELSE hint}
    ELSE UNION {Jittered(cap) : cap \in DelayCaps(attempt)}

VARIABLES loop,       \* "call", "sleep" or "done"
          attempt,
          wait,       \* the duration the loop sleeps for
          err,        \* the error returned, NoError for a response
          cancelled,  \* the context has ended
          late        \* history: attempts begun after the context ended

retryVars == <<loop, attempt, wait, err, cancelled, late>>

RetryTypeOK ==
    /\ loop \in {"call", "sleep", "done"}
    /\ attempt \in 0..MaxRetries
    /\ wait \in Int
    /\ err \in Outcomes \cup {NoError, PlainError}
    /\ cancelled \in BOOLEAN
    /\ late \in 0..MaxRetries

RetryInit ==
    /\ loop = "call"
    /\ attempt = 0
    /\ wait = 0
    /\ err = NoError
    /\ cancelled = FALSE
    /\ late = 0

\* The next iteration of the loop.
Again ==
    /\ attempt' = attempt + 1
    /\ loop' = "call"
    /\ late' = IF cancelled THEN late + 1 ELSE late
    /\ UNCHANGED <<err, cancelled>>

Return(e) ==
    /\ loop' = "done"
    /\ err' = e
    /\ UNCHANGED <<attempt, wait, cancelled, late>>

\* An attempt returns something that ends the loop.
Settled(e) ==
    /\ loop = "call"
    /\ e = NoError \/ ~ IsRetryable(e) \/ attempt = MaxRetries
    /\ Return(e)

\* Mutant of Failed: a sleep that does not look at the context first.
FailedBlindly(e) ==
    /\ loop = "call"
    /\ e # NoError /\ IsRetryable(e) /\ attempt < MaxRetries
    /\ \E hint \in IF e.status = 429 THEN Hints ELSE {0} :
          \E w \in backoff(attempt, hint) :
             /\ loop' = "sleep"
             /\ wait' = w
             /\ UNCHANGED <<attempt, err, cancelled, late>>

\* An attempt fails and may be repeated: sleepWithContext.  A wait that is
\* not positive is skipped without a look at the context; the select of a
\* positive one is reached before its timer can have fired.
Failed(e) ==
    /\ loop = "call"
    /\ e # NoError /\ IsRetryable(e) /\ attempt < MaxRetries
    /\ \E hint \in IF e.status = 429 THEN Hints ELSE {0} :
          \E w \in backoff(attempt, hint) :
             \/ w <= 0 /\ wait' = w /\ Again
             \/ w > 0 /\ cancelled /\ Return(PlainError)
             \/ /\ w > 0 /\ ~ cancelled
                /\ loop' = "sleep"
                /\ wait' = w
                /\ UNCHANGED <<attempt, err, cancelled, late>>

\* The timer fires.
TimerFires == loop = "sleep" /\ UNCHANGED wait /\ Again

\* The context ends the sleep.  When the timer has fired too, the select
\* takes either.
WakeCancelled == loop = "sleep" /\ cancelled /\ Return(PlainError)

\* The caller ends the context.
ContextEnds ==
    /\ loop # "done"
    /\ ~ cancelled
    /\ cancelled' = TRUE
    /\ UNCHANGED <<loop, attempt, wait, err, late>>

RetryNext ==
    \/ \E e \in Outcomes : Settled(e) \/ Failed(e)
    \/ TimerFires
    \/ WakeCancelled
    \/ ContextEnds

RetrySpec == RetryInit /\ [][RetryNext]_retryVars
-----------------------------------------------------------------------------
\* The attempt under way was waited for before the backoff overflows.
BeforeOverflow == attempt <= OverflowAttempt

\* A retry is never sent at once: every attempt but the first follows a wait,
\* of at least half the first delay where the server gave no hint
\* (retry.go:12-17, 270-292).  From the 36th retry on it may be.
EveryRetryWaits == BeforeOverflow /\ attempt > 0 => wait >= 1

\* Once the context has ended the loop begins at most one more attempt, the
\* one whose timer fired at the same time (retry.go:47-51, 319-329).  A wait
\* that has overflowed does not even look at the context.
CancelEndsLoop == BeforeOverflow => late <= 1
=============================================================================
