------------------------------- MODULE Client -------------------------------
(***************************************************************************)
(* The reliability stack: client.go, media.go and the middleware that      *)
(* buildProvider wraps around every provider.                              *)
(*                                                                         *)
(* Concurrent calls walk a route of providers.  At each provider a call    *)
(* passes the circuit breaker, then the retry loop, then the rate limiter, *)
(* then the provider itself; its final error is recorded by the breaker    *)
(* and decides whether the call ends or falls back to the next provider.   *)
(* A breaker is shared by every call and each of its methods is one atomic *)
(* step; everything between two of them interleaves.                       *)
(*                                                                         *)
(* The rate limiter's bucket is modelled in RateLimit.  Here acquire lets  *)
(* the call through after some time, or returns the context's error.       *)
(***************************************************************************)
EXTENDS Breaker, Errors, Sequences, FiniteSets

CONSTANTS
    Callers,      \* goroutines that share one Client
    Chain,        \* providers of Config.Primary and Config.Fallbacks
    Configured,   \* providers of the configuration
    Reliable,     \* those of them that always answer, and answer correctly
    Lacks,        \* Lacks[p]: the kinds of call provider p does not implement
    Operations,   \* the client methods called, out of those below
    Answers,      \* what a provider that is not reliable may answer
    MaxRetries,   \* Config.Retry
    CancelAllowed \* whether callers cancel their contexts

\* A client method, by what distinguishes it here.  Every provider implements
\* "base" calls; a missing "media" capability is reported as Unsupported, a
\* missing "task" capability as a plain error.  Stats count both outcomes,
\* failures only, or nothing.  The request policy runs before every attempt,
\* once at the start, or not at all.
Kinds == {"base", "media", "task"}
OperationType == [route : Seq(STRING), kind : Kinds, counted : {"both", "failure", "none"},
                  policy : {"attempt", "start", "none"}]
Method(route, kind, counted, policy) ==
    [route |-> route, kind |-> kind, counted |-> counted, policy |-> policy]

\* The configured chain, or the one provider a model "provider/model" names.
mediaRoutes(explicit) == IF explicit = "" THEN Chain ELSE <<explicit>>

Complete == Method(Chain, "base", "both", "attempt")
\* wrapStream counts a stream that was established, when it ends.
Stream == Method(Chain, "base", "failure", "attempt")
Embed == Method(Chain, "base", "both", "start")
ListModels(p) == Method(<<p>>, "base", "none", "none")
\* GenerateImage, SynthesizeSpeech, EditImage, Transcribe, Rerank.
Media(explicit) == Method(mediaRoutes(explicit), "media", "both", "start")
CountTokens(explicit) == Method(mediaRoutes(explicit), "media", "both", "start")
Submit(explicit) == Method(mediaRoutes(explicit), "task", "both", "start")
\* For a configured provider: any other name is refused before it counts.
SubmitBatch(p) == Method(<<p>>, "task", "both", "start")
\* Get, cancel and read an operation or a batch, and the cache methods.  Those
\* ask the layer below the breaker for the capability before they ask the
\* breaker (circuit.go:74), but a retry or rate limit layer has every method: it
\* is there, below the admission, that a missing one is found.
OperationTask(p) == Method(<<p>>, "task", "none", "none")
BatchTask(p) == Method(<<p>>, "task", "none", "none")
CacheTask(p) == Method(<<p>>, "task", "none", "none")

ASSUME ClientConfig ==
    /\ MaxRetries \in Nat
    /\ Reliable \subseteq Configured
    /\ Lacks \in [Configured -> SUBSET Kinds]
    /\ \A p \in Reliable : "base" \notin Lacks[p]
    /\ Operations # {}
    /\ \A op \in Operations : op \in OperationType /\ op.route # <<>>
    /\ NoError \in Answers
    \* An answer with HTTP status 400 is the error that parseError makes of it.
    /\ \A e \in Answers : e \in ErrorType /\ (e.status = 400 => e = parseError(400))
    /\ CancelAllowed \in BOOLEAN

VARIABLES breaker,   \* breaker[p]: the circuit breaker of provider p
          call,      \* call[c]: the call goroutine c is making
          calm       \* history: no call has been cancelled so far, nor asked
                     \* for what its provider does not implement

vars == <<breaker, call, calm>>

\* pc: "idle"      no call
\*     "route"     about to try provider route[pos]
\*     "acquire"   admitted by the breaker, in the rate limiter
\*     "provider"  request sent
\*     "backoff"   asleep between two attempts
\*     "record"    the retry loop returned err, the breaker has not recorded it
\*     "done"      the method returned result
\* sends, final, success and failed are histories of the call: the requests
\* sent at each place of the route, what they were when one was answered by a
\* success or by 400 (<<>> before that), and the calls of Stats.RecordRequest.
NewCall(op, pc) == [op |-> op, pc |-> pc, pos |-> 1,
                    attempt |-> 0, err |-> NoError, cancelled |-> FALSE, result |-> "none",
                    sends |-> [i \in DOMAIN op.route |-> 0], final |-> <<>>,
                    success |-> 0, failed |-> 0]
NoCall == NewCall(CHOOSE op \in Operations : TRUE, "idle")

Provider(c) == call[c].op.route[call[c].pos]
\* The call holds an admission of p's breaker that is not recorded yet.
Admitted(c, p) ==
    /\ call[c].pc \in {"acquire", "provider", "backoff", "record"}
    /\ Provider(c) = p

Init ==
    /\ breaker = [p \in Configured |-> New]
    /\ call = [c \in Callers |-> NoCall]
    /\ calm = TRUE
-----------------------------------------------------------------------------
(* Steps of one call *)

\* The method returns r; a counted method has recorded it in Stats.  What was
\* local to the call is gone.
Finished(cl, r) ==
    [cl EXCEPT !.pc = "done", !.result = r, !.attempt = 0, !.cancelled = FALSE,
               !.success = @ + (IF cl.op.counted = "both" /\ r = "ok" THEN 1 ELSE 0),
               !.failed = @ + (IF cl.op.counted # "none" /\ r # "ok" THEN 1 ELSE 0)]

\* Mutants of AfterProvider: it leaves the last provider out; it counts a
\* failure for every provider that fails.
AfterProviderButLast(cl, err) ==
    IF err = NoError THEN Finished([cl EXCEPT !.err = err], "ok")
    ELSE IF ~ IsFallback(err) \/ cl.pos + 1 >= Len(cl.op.route)
         THEN Finished([cl EXCEPT !.err = err], "failed")
         ELSE [cl EXCEPT !.pc = "route", !.pos = @ + 1, !.attempt = 0, !.err = NoError]
AfterProviderCountsEach(cl, err) ==
    IF err = NoError THEN Finished([cl EXCEPT !.err = err], "ok")
    ELSE IF ~ IsFallback(err) \/ cl.pos = Len(cl.op.route)
         THEN Finished([cl EXCEPT !.err = err], "failed")
         ELSE [cl EXCEPT !.pc = "route", !.pos = @ + 1, !.attempt = 0, !.err = NoError,
                         !.failed = @ + 1]

\* The fallback loop: what a call does with the error of one provider.
AfterProvider(cl, err) ==
    IF err = NoError THEN Finished([cl EXCEPT !.err = err], "ok")
    ELSE IF ~ IsFallback(err) \/ cl.pos = Len(cl.op.route)
         THEN Finished([cl EXCEPT !.err = err], "failed")
         ELSE [cl EXCEPT !.pc = "route", !.pos = @ + 1, !.attempt = 0, !.err = NoError]

\* Mutant of AfterAttempt: one retry too many.
AfterAttemptOneMore(cl, err) ==
    IF err # NoError /\ IsRetryable(err) /\ cl.attempt <= MaxRetries
    THEN [cl EXCEPT !.pc = "backoff"]
    ELSE [cl EXCEPT !.pc = "record", !.err = err]

\* The retry loop: what it does with the error of one attempt.
AfterAttempt(cl, err) ==
    IF err # NoError /\ IsRetryable(err) /\ cl.attempt < MaxRetries
    THEN [cl EXCEPT !.pc = "backoff"]
    ELSE [cl EXCEPT !.pc = "record", !.err = err]

Start(c) ==
    /\ call[c].pc \in {"idle", "done"}
    /\ \E op \in Operations : call' = [call EXCEPT ![c] = NewCall(op, "route")]
    /\ UNCHANGED <<breaker, calm>>

\* The request policy refuses the request: no fallback.
PolicyFails(c) ==
    /\ call[c].pc = "route"
    /\ call[c].op.policy = "attempt" \/ (call[c].op.policy = "start" /\ call[c].pos = 1)
    /\ call' = [call EXCEPT ![c] = Finished(@, "rejected")]
    /\ UNCHANGED <<breaker, calm>>

\* An explicit route may name a provider that is not configured.
SkipUnconfigured(c) ==
    /\ call[c].pc = "route"
    /\ Provider(c) \notin Configured
    /\ call' = [call EXCEPT ![c] = AfterProvider(@, PlainError)]
    /\ UNCHANGED <<breaker, calm>>

\* The breaker's allow.
Allowed(c) ==
    /\ call[c].pc = "route"
    /\ Provider(c) \in Configured
    /\ LET p == Provider(c)
       IN  /\ breaker' = [breaker EXCEPT ![p] = Allow(@)]
           /\ call' = [call EXCEPT ![c] = IF Admits(breaker[p])
                                          THEN [@ EXCEPT !.pc = "acquire"]
                                          ELSE AfterProvider(@, circuitOpen)]
    /\ UNCHANGED calm

\* A layer below finds that the provider does not implement the method.
Incapable(c) ==
    /\ call[c].pc = "acquire"
    /\ call[c].op.kind \in Lacks[Provider(c)]
    /\ call' = [call EXCEPT ![c] =
                  AfterAttempt(@, IF call[c].op.kind = "media" THEN Unsupported ELSE PlainError)]
    /\ calm' = FALSE
    /\ UNCHANGED breaker

\* The rate limiter lets the call through and the request goes out.
Send(c) ==
    /\ call[c].pc = "acquire"
    /\ call[c].op.kind \notin Lacks[Provider(c)]
    /\ ~ call[c].cancelled
    /\ call' = [call EXCEPT ![c].pc = "provider", ![c].sends[call[c].pos] = @ + 1]
    /\ UNCHANGED <<breaker, calm>>

\* The context ended first: the limiter returns its error if the call had to
\* wait for a token, otherwise the HTTP client refuses to send.
SendCancelled(c) ==
    /\ call[c].pc = "acquire"
    /\ call[c].op.kind \notin Lacks[Provider(c)]
    /\ call[c].cancelled
    /\ \E err \in {PlainError, networkError} :
          call' = [call EXCEPT ![c] = AfterAttempt(@, err)]
    /\ UNCHANGED <<breaker, calm>>

\* The provider answers.
Answer(c) ==
    /\ call[c].pc = "provider"
    /\ \E err \in IF Provider(c) \in Reliable THEN {NoError} ELSE Answers :
          call' = [call EXCEPT ![c] =
                     [AfterAttempt(@, err) EXCEPT
                        !.final = IF err = NoError \/ err.status = 400 THEN call[c].sends ELSE <<>>]]
    /\ UNCHANGED <<breaker, calm>>

\* The HTTP client gives up on a request whose context has ended.
Abort(c) ==
    /\ call[c].pc = "provider"
    /\ call[c].cancelled
    /\ call' = [call EXCEPT ![c] = AfterAttempt(@, networkError)]
    /\ UNCHANGED <<breaker, calm>>

\* The backoff elapses and the loop makes its next attempt.
Retry(c) ==
    /\ call[c].pc = "backoff"
    /\ call' = [call EXCEPT ![c].pc = "acquire", ![c].attempt = @ + 1]
    /\ UNCHANGED <<breaker, calm>>

\* The context ends the backoff.
RetryCancelled(c) ==
    /\ call[c].pc = "backoff"
    /\ call[c].cancelled
    /\ call' = [call EXCEPT ![c].pc = "record", ![c].err = PlainError]
    /\ UNCHANGED <<breaker, calm>>

\* Mutant of Record: a call that was cancelled leaves without a record.
RecordUnlessCancelled(c) ==
    /\ call[c].pc = "record"
    /\ LET p == Provider(c)
           err == call[c].err
       IN  breaker' = [breaker EXCEPT ![p] =
                         IF call[c].cancelled THEN @
                         ELSE IF err = NoError \/ ~ tripsBreaker(err) THEN RecordSuccess(@) ELSE RecordFailure(@)]
    /\ call' = [call EXCEPT ![c] = AfterProvider(@, call[c].err)]
    /\ UNCHANGED calm

\* The breaker's record, and the fallback decision on the same error.
Record(c) ==
    /\ call[c].pc = "record"
    /\ LET p == Provider(c)
           err == call[c].err
       IN  breaker' = [breaker EXCEPT ![p] =
                         IF err = NoError \/ ~ tripsBreaker(err) THEN RecordSuccess(@) ELSE RecordFailure(@)]
    /\ call' = [call EXCEPT ![c] = AfterProvider(@, call[c].err)]
    /\ UNCHANGED calm

\* The caller cancels its context.
Cancel(c) ==
    /\ CancelAllowed
    /\ call[c].pc \notin {"idle", "done"}
    /\ ~ call[c].cancelled
    /\ call' = [call EXCEPT ![c].cancelled = TRUE]
    /\ calm' = FALSE
    /\ UNCHANGED breaker

Tick ==
    /\ breaker' = [p \in Configured |-> Older(breaker[p])]
    /\ UNCHANGED <<call, calm>>

\* A step the call takes by itself, without its caller or the provider.
Proceed(c) ==
    \/ PolicyFails(c) \/ SkipUnconfigured(c) \/ Allowed(c) \/ Incapable(c)
    \/ Send(c) \/ SendCancelled(c) \/ Answer(c) \/ Abort(c)
    \/ Retry(c) \/ RetryCancelled(c) \/ Record(c)

Next == Tick \/ \E c \in Callers : Start(c) \/ Cancel(c) \/ Proceed(c)

Spec == Init /\ [][Next]_vars
-----------------------------------------------------------------------------
CallType == [op : Operations, pc : {"idle", "route", "acquire", "provider", "backoff", "record", "done"},
             pos : Nat \ {0}, attempt : 0..MaxRetries, err : Answers \cup ErrorOver({}),
             cancelled : BOOLEAN, result : {"none", "ok", "failed", "rejected"},
             sends : Seq(Nat), final : Seq(Nat), success : Nat, failed : Nat]

TypeOK ==
    /\ breaker \in [Configured -> BreakerType]
    /\ call \in [Callers -> CallType]
    /\ \A c \in Callers : call[c].pos <= Len(call[c].op.route)
    /\ calm \in BOOLEAN

\* However failures, retries, rejections and fallbacks interleave, one call
\* sends at most (Retry + 1) requests to each provider of its route.
SendsBounded ==
    \A c \in Callers : \A i \in DOMAIN call[c].op.route : call[c].sends[i] <= MaxRetries + 1

\* Stats count a call once, when it returns and on the side of its result,
\* however many providers it tried; a method that does not count, and a stream
\* that was established, add nothing (client.go:346-363, media.go:169-189).
CountedOnce ==
    \A c \in Callers :
        LET cl == call[c]
            ok == cl.result = "ok"
        IN  IF cl.pc = "done" /\ (cl.op.counted = "both" \/ (cl.op.counted = "failure" /\ ~ ok))
            THEN cl.success + cl.failed = 1 /\ (cl.success = 1 <=> ok)
            ELSE cl.success + cl.failed = 0

\* A half-open circuit is held by a call between allow and record, through
\* all its retries and backoffs: the trial always ends (circuit.go:32-39).
TrialIsRunning ==
    \A p \in Configured :
        breaker[p].state = "half-open" => \E c \in Callers : Admitted(c, p)

\* Faults of the other providers never close the way to a reliable one: a
\* call whose route has one does not fail, unless an answer forbids fallback,
\* whatever other calls do (client.go:330-363).  Only a call that was
\* cancelled or asked for a capability that is missing can spoil that: it
\* may have opened the circuit of the reliable provider.
ReliableProviderServes ==
    \A c \in Callers :
        /\ calm
        /\ call[c].result = "failed"
        /\ IsFallback(call[c].err)
        => \A i \in DOMAIN call[c].op.route : call[c].op.route[i] \notin Reliable

\* "HTTP 400 (bad request) is never retried or fallen back"
\* (client.go:321), nor is a success: once a provider has answered so, the
\* call sends nothing more, to that provider or to another.
NothingAfterFinalAnswer ==
    \A c \in Callers : call[c].final # <<>> => call[c].sends = call[c].final

-----------------------------------------------------------------------------
\* "When the provider fails consistently, the circuit opens"
\* (middleware/circuit.go:12): the circuit of a provider that never fails
\* stays closed.  It does not: a cancelled call counts as a failure of every
\* provider on its route (client.go:357, circuit.go:169-173), and so does a
\* task the provider does not implement (middleware/operation.go:13, 97).
BlamesOnlyFailures == \A p \in Reliable : breaker[p].state = "closed"
=============================================================================
