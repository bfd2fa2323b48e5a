---------------------------- MODULE Client_proofs ----------------------------
(***************************************************************************)
(* The safety properties of Client, for every number of concurrent calls,  *)
(* every configuration of providers, routes, retries and breakers, and     *)
(* every answer of the providers that are not reliable; and that each of   *)
(* its breakers is used the way CircuitBreaker says.                       *)
(***************************************************************************)
EXTENDS ClientCircuits, SequenceTheorems, TLAPS

Errs == Answers \cup ErrorOver({})

\* The attempts made at the current provider, the one under way included.
Made(cl) == cl.attempt + (IF cl.pc \in {"provider", "backoff", "record"} THEN 1 ELSE 0)

\* The requests of a call at place i of its route: one for each attempt at
\* most, MaxRetries + 1 of them at most, and none before it gets there.
AtPlace(cl, i) ==
    /\ cl.sends[i] \in Nat /\ cl.sends[i] <= MaxRetries + 1
    /\ i = cl.pos /\ cl.pc # "done" => cl.sends[i] <= Made(cl)
    /\ i > cl.pos => cl.sends[i] = 0

\* The call sleeps only if an attempt is left.
Within(cl) ==
    /\ Len(cl.sends) = Len(cl.op.route)
    /\ \A i \in 1..Len(cl.op.route) : AtPlace(cl, i)
    /\ cl.pc = "backoff" => cl.attempt < MaxRetries

\* What Stats has counted of the call, and that only a call that returned has
\* a result.
Counted(cl) ==
    LET ok == cl.result = "ok"
    IN  /\ cl.pc # "done" => cl.result = "none"
        /\ IF cl.pc = "done" /\ (cl.op.counted = "both" \/ (cl.op.counted = "failure" /\ ~ ok))
           THEN cl.success + cl.failed = 1 /\ (cl.success = 1 <=> ok)
           ELSE cl.success = 0 /\ cl.failed = 0

\* After a success or a 400 the call is on its way out.
OnTheWayOut(cl) ==
    cl.final # <<>> =>
        /\ cl.sends = cl.final
        /\ cl.pc \in {"record", "done"}
        /\ cl.pc = "record" => cl.err = NoError \/ ~ IsFallback(cl.err)

CallOK(cl) ==
    /\ cl \in CallType
    /\ cl.pos <= Len(cl.op.route)
    /\ Within(cl) /\ Counted(cl) /\ OnTheWayOut(cl)

\* A call that nobody disturbed has left no reliable provider behind.
Served(cl) ==
    /\ ~ cl.cancelled
    /\ \A i \in 1..cl.pos - 1 : cl.op.route[i] \notin Reliable
    /\ cl.pc = "backoff" => cl.op.route[cl.pos] \notin Reliable
    /\ cl.pc = "record" /\ cl.op.route[cl.pos] \in Reliable => cl.err = NoError
    /\ cl.result = "failed" /\ IsFallback(cl.err) =>
          \A i \in 1..Len(cl.op.route) : cl.op.route[i] \notin Reliable

IInv ==
    /\ breaker \in [Configured -> BreakerType]
    /\ calm \in BOOLEAN
    /\ call \in [Callers -> CallType]
    /\ \A c \in Callers : CallOK(call[c])
    /\ TrialIsRunning
    /\ calm => /\ \A p \in Reliable : breaker[p].state = "closed"
               /\ \A c \in Callers : Served(call[c])
-----------------------------------------------------------------------------
(* The fallback and the retry loop *)

\* Config.Retry is a number.
LEMMA RetryCount == MaxRetries \in Nat
BY ClientConfig

\* A call with the same requests, in the same place and with no fewer attempts
\* made, keeps within its bounds.
LEMMA WithinKeeps ==
    ASSUME NEW cl, NEW new, Within(cl), cl.pc # "done", new.op = cl.op, new.sends = cl.sends,
           new.pos = cl.pos, new.pc # "done", Made(cl) \in Nat, Made(new) \in Nat,
           Made(cl) <= Made(new), new.pc = "backoff" => new.attempt < MaxRetries
    PROVE  Within(new)
<1>1. ASSUME NEW i \in 1..Len(cl.op.route)
      PROVE  AtPlace(new, i)
  <2>1. AtPlace(cl, i)
    BY DEF Within
  <2>2. cl.sends[i] <= Made(cl) => cl.sends[i] <= Made(new)
    BY <2>1 DEF AtPlace
  <2> QED
    BY <2>1, <2>2 DEF AtPlace
<1> QED
  BY <1>1 DEF Within

\* What is known of the fields of a call.
LEMMA Fields ==
    ASSUME NEW cl, cl \in CallType
    PROVE  /\ cl.op \in Operations /\ cl.pos \in Nat \ {0} /\ cl.attempt \in 0..MaxRetries
           /\ cl.pc \in {"idle", "route", "acquire", "provider", "backoff", "record", "done"}
           /\ cl.err \in Errs /\ cl.cancelled \in BOOLEAN
           /\ cl.result \in {"none", "ok", "failed", "rejected"}
           /\ cl.sends \in Seq(Nat) /\ cl.final \in Seq(Nat) /\ cl.success \in Nat /\ cl.failed \in Nat
           /\ cl.op.route \in Seq(STRING) /\ Len(cl.op.route) \in Nat /\ Len(cl.op.route) # 0
           /\ cl.op.counted \in {"both", "failure", "none"}
           /\ cl.pos - 1 \in Nat /\ cl.attempt \in Nat /\ Made(cl) \in Nat
<1>1. /\ cl.op \in Operations /\ cl.pos \in Nat \ {0} /\ cl.attempt \in 0..MaxRetries
      /\ cl.pc \in {"idle", "route", "acquire", "provider", "backoff", "record", "done"}
      /\ cl.err \in Errs /\ cl.cancelled \in BOOLEAN
      /\ cl.result \in {"none", "ok", "failed", "rejected"}
      /\ cl.sends \in Seq(Nat) /\ cl.final \in Seq(Nat) /\ cl.success \in Nat /\ cl.failed \in Nat
  BY DEF CallType, Errs
<1>2. cl.op \in OperationType /\ cl.op.route # <<>>
  BY <1>1, ClientConfig
<1>3. cl.op.route \in Seq(STRING) /\ cl.op.counted \in {"both", "failure", "none"}
  BY <1>2 DEF OperationType
<1>4. cl.pos - 1 \in Nat /\ cl.attempt \in Nat
  BY <1>1, RetryCount
<1>5. Made(cl) \in Nat
  BY <1>4 DEF Made
<1> QED
  BY <1>1, <1>2, <1>3, <1>4, <1>5

\* A call that leaves a layer with another error is still in order, unless it
\* brings back the outcome of a final answer.
LEMMA ErrKeeps ==
    ASSUME NEW cl, CallOK(cl), NEW err \in Errs, cl.pc = "record" => err = cl.err
    PROVE  CallOK([cl EXCEPT !.err = err])
<1> DEFINE new == [cl EXCEPT !.err = err]
<1>1. cl \in CallType
  BY DEF CallOK
<1>2. /\ new.op = cl.op /\ new.pc = cl.pc /\ new.pos = cl.pos /\ new.attempt = cl.attempt
      /\ new.err = err /\ new.result = cl.result /\ new.sends = cl.sends
      /\ new.final = cl.final /\ new.success = cl.success /\ new.failed = cl.failed
      /\ new \in CallType
  BY <1>1 DEF CallType, Errs
<1> HIDE DEF new
<1>3. Within(new) /\ Counted(new)
  BY <1>2 DEF CallOK, Within, AtPlace, Made, Counted
<1>4. OnTheWayOut(new)
  BY <1>2 DEF CallOK, OnTheWayOut
<1> QED
  BY <1>2, <1>3, <1>4 DEF CallOK, new

\* A method that returns has counted its call once (client.go:346-363).
LEMMA FinishedKeeps ==
    ASSUME NEW cl, CallOK(cl), cl.pc \in {"route", "record"},
           NEW r \in {"ok", "failed", "rejected"}
    PROVE  CallOK(Finished(cl, r))
<1> DEFINE success == cl.success + (IF cl.op.counted = "both" /\ r = "ok" THEN 1 ELSE 0)
           failed == cl.failed + (IF cl.op.counted # "none" /\ r # "ok" THEN 1 ELSE 0)
           new == [cl EXCEPT !.pc = "done", !.result = r, !.attempt = 0, !.cancelled = FALSE,
                          !.success = success, !.failed = failed]
<1>1. cl \in CallType /\ cl.pos <= Len(cl.op.route) /\ cl.success = 0 /\ cl.failed = 0
  BY DEF CallOK, Counted
<1>2. new = Finished(cl, r)
  BY DEF Finished
<1>3. /\ success = IF cl.op.counted = "both" /\ r = "ok" THEN 1 ELSE 0
      /\ failed = IF cl.op.counted # "none" /\ r # "ok" THEN 1 ELSE 0
      /\ success \in Nat /\ failed \in Nat
  BY <1>1
<1> HIDE DEF success, failed
<1>4. /\ new.op = cl.op /\ new.pc = "done" /\ new.pos = cl.pos /\ new.attempt = 0
      /\ new.err = cl.err /\ new.result = r /\ new.sends = cl.sends /\ new.final = cl.final
      /\ new.success = success /\ new.failed = failed /\ new \in CallType
  <2>1. 0 \in 0..MaxRetries
    BY RetryCount
  <2>2. new \in CallType
    BY <1>1, <1>3, <2>1 DEF CallType
  <2> QED
    BY <1>1, <2>2 DEF CallType
<1> HIDE DEF new
<1>5. Within(new)
  BY <1>4 DEF CallOK, Within, AtPlace
<1>6. Counted(new)
  <2>1. cl.op.counted \in {"both", "failure", "none"}
    BY <1>1, Fields
  <2> QED
    BY <1>3, <1>4, <2>1 DEF Counted
<1>7. OnTheWayOut(new)
  BY <1>4 DEF CallOK, OnTheWayOut
<1> QED
  BY <1>1, <1>2, <1>4, <1>5, <1>6, <1>7 DEF CallOK

\* The fallback loop goes on to the next provider, with a fresh set of
\* attempts, or ends the call (client.go:330-363).
LEMMA AfterProviderKeeps ==
    ASSUME NEW cl, CallOK(cl), cl.pc \in {"route", "record"}, NEW err \in Errs,
           cl.pc = "record" => err = cl.err
    PROVE  CallOK(AfterProvider(cl, err))
<1>1. CallOK([cl EXCEPT !.err = err]) /\ [cl EXCEPT !.err = err].pc = cl.pc
  BY ErrKeeps DEF CallOK, CallType
<1>2. CASE err = NoError
  BY <1>1, <1>2, FinishedKeeps DEF AfterProvider
<1>3. CASE err # NoError /\ (~ IsFallback(err) \/ cl.pos = Len(cl.op.route))
  BY <1>1, <1>3, FinishedKeeps DEF AfterProvider
<1>4. CASE err # NoError /\ IsFallback(err) /\ cl.pos # Len(cl.op.route)
  <2> DEFINE new == [cl EXCEPT !.pc = "route", !.pos = cl.pos + 1, !.attempt = 0, !.err = NoError]
  <2>1. AfterProvider(cl, err) = new
    BY <1>4 DEF AfterProvider
  <2>2. /\ cl \in CallType /\ cl.pos <= Len(cl.op.route)
    BY DEF CallOK
  <2>3. /\ cl.pos \in Nat \ {0} /\ cl.attempt \in 0..MaxRetries
        /\ Len(cl.op.route) \in Nat /\ MaxRetries \in Nat
    BY <2>2, Fields, RetryCount
  <2>4. 0 \in 0..MaxRetries /\ cl.pos + 1 \in Nat \ {0} /\ NoError \in Answers
    BY <2>3, ClientConfig
  <2>5. /\ new.op = cl.op /\ new.pc = "route" /\ new.pos = cl.pos + 1 /\ new.attempt = 0
        /\ new.err = NoError /\ new.result = cl.result /\ new.sends = cl.sends
        /\ new.final = cl.final /\ new.success = cl.success /\ new.failed = cl.failed
        /\ new \in CallType
    BY <2>2, <2>4 DEF CallType
  <2> HIDE DEF new
  <2>6. Within(new)
    <3>1. ASSUME NEW i \in 1..Len(cl.op.route)
          PROVE  AtPlace(new, i)
      <4>1. AtPlace(cl, i)
        BY DEF CallOK, Within
      <4>2. i = cl.pos + 1 => cl.sends[i] = 0
        BY <2>3, <4>1 DEF AtPlace
      <4>3. i > cl.pos + 1 => i > cl.pos
        BY <2>3
      <4>4. Made(new) = 0
        BY <2>5 DEF Made
      <4> QED
        BY <2>5, <4>1, <4>2, <4>3, <4>4 DEF AtPlace
    <3> QED
      BY <2>5, <3>1 DEF CallOK, Within
  <2>7. Counted(new)
    BY <2>5 DEF CallOK, Counted
  <2>8. OnTheWayOut(new)
    <3>1. cl.final = <<>>
      BY <1>4 DEF CallOK, OnTheWayOut
    <3> QED
      BY <2>5, <3>1 DEF OnTheWayOut
  <2>9. new.pos <= Len(new.op.route)
    BY <1>4, <2>2, <2>3, <2>5
  <2> QED
    BY <2>1, <2>5, <2>6, <2>7, <2>8, <2>9 DEF CallOK
<1> QED
  BY <1>2, <1>3, <1>4

\* The retry loop sleeps only when it has attempts left (retry.go:38-58).
LEMMA AfterAttemptKeeps ==
    ASSUME NEW cl, CallOK(cl), cl.pc \in {"acquire", "provider"}, NEW err \in Errs
    PROVE  /\ CallOK(AfterAttempt(cl, err))
           /\ AfterAttempt(cl, err).pc \in {"backoff", "record"}
           /\ AfterAttempt(cl, err).pos = cl.pos /\ AfterAttempt(cl, err).op = cl.op
           /\ AfterAttempt(cl, err).cancelled = cl.cancelled
           /\ AfterAttempt(cl, err).result = cl.result
           /\ AfterAttempt(cl, err).sends = cl.sends
           /\ AfterAttempt(cl, err).pc = "record" => AfterAttempt(cl, err).err = err
           /\ AfterAttempt(cl, err).pc = "backoff" =>
                 err # NoError /\ IsRetryable(err) /\ cl.attempt < MaxRetries
<1> DEFINE retries == err # NoError /\ IsRetryable(err) /\ cl.attempt < MaxRetries
           new == AfterAttempt(cl, err)
<1>1. cl \in CallType /\ cl.pos <= Len(cl.op.route)
  BY DEF CallOK
<1>2. new = IF retries THEN [cl EXCEPT !.pc = "backoff"] ELSE [cl EXCEPT !.pc = "record", !.err = err]
  BY DEF AfterAttempt
<1>3. /\ new.op = cl.op /\ new.pos = cl.pos /\ new.attempt = cl.attempt
      /\ new.cancelled = cl.cancelled /\ new.result = cl.result /\ new.sends = cl.sends
      /\ new.final = cl.final /\ new.success = cl.success /\ new.failed = cl.failed
      /\ new.pc = IF retries THEN "backoff" ELSE "record"
      /\ new.err = IF retries THEN cl.err ELSE err
  <2> HIDE DEF retries, new
  <2> QED
    BY <1>1, <1>2 DEF CallType
<1>4. new \in CallType
  <2> HIDE DEF retries, new
  <2> QED
    BY <1>1, <1>2 DEF CallType, Errs
<1>5. /\ new.pc = "backoff" => retries
      /\ new.pc \in {"backoff", "record"} /\ (new.pc = "record" => new.err = err)
  <2> HIDE DEF retries, new
  <2> QED
    BY <1>3
<1> HIDE DEF new
<1>6. Within(new)
  <2>1. Made(cl) \in Nat /\ cl.attempt \in Nat
    BY <1>1, Fields
  <2>2. new.pc = "backoff" => cl.attempt < MaxRetries
    BY <1>5
  <2> HIDE DEF retries
  <2>3. Made(new) = cl.attempt + 1 /\ Made(cl) <= Made(new)
    BY <1>3, <1>5, <2>1 DEF Made
  <2>4. /\ Made(new) \in Nat /\ cl.pc # "done" /\ new.pc # "done"
        /\ new.op = cl.op /\ new.sends = cl.sends /\ new.pos = cl.pos
        /\ new.pc = "backoff" => new.attempt < MaxRetries
    BY <1>3, <1>5, <2>1, <2>2, <2>3
  <2>5. Within(cl)
    BY DEF CallOK
  <2> QED
    BY <2>1, <2>3, <2>4, <2>5, WithinKeeps
<1>7. Counted(new) /\ OnTheWayOut(new)
  <2>1. cl.final = <<>> /\ cl.pc # "done" /\ new.pc # "done"
    BY <1>5 DEF CallOK, OnTheWayOut
  <2> HIDE DEF retries
  <2> QED
    BY <1>3, <2>1 DEF CallOK, Counted, OnTheWayOut
<1>8. CallOK(new)
  BY <1>1, <1>3, <1>4, <1>6, <1>7 DEF CallOK
<1> QED
  BY <1>3, <1>5, <1>8 DEF new

\* The fallback leaves a reliable provider only with its answer
\* (client.go:338-360).
LEMMA AfterProviderServed ==
    ASSUME NEW cl, CallOK(cl), Served(cl), cl.pc \in {"route", "record"}, NEW err \in Errs,
           err # NoError => cl.op.route[cl.pos] \notin Reliable
    PROVE  Served(AfterProvider(cl, err))
<1>1. /\ cl \in CallType /\ cl.pos <= Len(cl.op.route) /\ cl.result = "none"
      /\ ~ cl.cancelled /\ \A i \in 1..cl.pos - 1 : cl.op.route[i] \notin Reliable
  BY DEF CallOK, Counted, Served
<1>2. cl.pos \in Nat \ {0} /\ Len(cl.op.route) \in Nat
  BY <1>1, Fields
<1>3. ASSUME NEW r \in {"ok", "failed"}, NEW new, new = Finished([cl EXCEPT !.err = err], r)
      PROVE  /\ new.pc = "done" /\ new.result = r /\ new.op = cl.op /\ new.pos = cl.pos
             /\ new.err = err /\ new.cancelled = FALSE
  BY <1>1, <1>3 DEF Finished, CallType
<1>4. CASE err = NoError
  <2> DEFINE new == Finished([cl EXCEPT !.err = err], "ok")
  <2>1. AfterProvider(cl, err) = new
    BY <1>4 DEF AfterProvider
  <2>2. /\ new.pc = "done" /\ new.result = "ok" /\ new.op = cl.op /\ new.pos = cl.pos
        /\ new.err = err /\ new.cancelled = FALSE
    BY <1>3
  <2> HIDE DEF new
  <2> QED
    BY <1>1, <2>1, <2>2 DEF Served
<1>5. CASE err # NoError /\ (~ IsFallback(err) \/ cl.pos = Len(cl.op.route))
  <2> DEFINE new == Finished([cl EXCEPT !.err = err], "failed")
  <2>1. AfterProvider(cl, err) = new
    BY <1>5 DEF AfterProvider
  <2>2. /\ new.pc = "done" /\ new.result = "failed" /\ new.op = cl.op /\ new.pos = cl.pos
        /\ new.err = err /\ new.cancelled = FALSE
    BY <1>3
  <2> HIDE DEF new
  <2>3. IsFallback(new.err) =>
           \A i \in 1..Len(cl.op.route) : cl.op.route[i] \notin Reliable
    <3> SUFFICES ASSUME IsFallback(new.err), NEW i \in 1..Len(cl.op.route)
                 PROVE  cl.op.route[i] \notin Reliable
      OBVIOUS
    <3>1. cl.pos = Len(cl.op.route) /\ cl.op.route[cl.pos] \notin Reliable
      BY <1>5, <2>2
    <3>2. i \in 1..cl.pos - 1 \/ i = cl.pos
      BY <1>2, <3>1
    <3> QED
      BY <1>1, <3>1, <3>2
  <2> QED
    BY <1>1, <2>1, <2>2, <2>3 DEF Served
<1>6. CASE err # NoError /\ IsFallback(err) /\ cl.pos # Len(cl.op.route)
  <2> DEFINE new == [cl EXCEPT !.pc = "route", !.pos = cl.pos + 1, !.attempt = 0, !.err = NoError]
  <2>1. AfterProvider(cl, err) = new
    BY <1>6 DEF AfterProvider
  <2>2. /\ new.pc = "route" /\ new.result = "none" /\ new.op = cl.op /\ new.pos = cl.pos + 1
        /\ new.cancelled = cl.cancelled
    BY <1>1 DEF CallType
  <2> HIDE DEF new
  <2>3. \A i \in 1..new.pos - 1 : cl.op.route[i] \notin Reliable
    <3>1. \A i \in 1..new.pos - 1 : i \in 1..cl.pos - 1 \/ i = cl.pos
      BY <1>2, <2>2
    <3> QED
      BY <1>1, <1>6, <3>1
  <2> QED
    BY <1>1, <2>1, <2>2, <2>3 DEF Served
<1> QED
  BY <1>4, <1>5, <1>6
-----------------------------------------------------------------------------
(* The breakers *)

\* Every method returns a breaker (breaker.go:81-130).
LEMMA BreakerTyping ==
    ASSUME NEW b \in BreakerType
    PROVE  /\ Allow(b) \in BreakerType /\ Older(b) \in BreakerType
           /\ RecordSuccess(b) \in BreakerType /\ RecordFailure(b) \in BreakerType
<1>1. Probing(b) \in BreakerType
  BY BreakerConfig DEF Probing, BreakerType, State
<1>2. Allow(b) \in BreakerType
  BY <1>1 DEF Allow, BreakerType, State
<1>3. RecordSuccess(b) \in BreakerType
  BY DEF RecordSuccess, BreakerType, State
<1>4. RecordFailure(b) \in BreakerType
  <2>1. b.failures + 1 \in Nat /\ b.state \in State /\ 0 \in 0..ResetTimeout
    BY BreakerConfig DEF BreakerType
  <2>2. CASE b.state = "half-open" \/ b.failures + 1 >= MaxFailures
    BY <2>1, <2>2 DEF RecordFailure, BreakerType, State
  <2>3. CASE ~ (b.state = "half-open" \/ b.failures + 1 >= MaxFailures)
    BY <2>1, <2>3 DEF RecordFailure, BreakerType, State
  <2> QED
    BY <2>2, <2>3
<1>5. Older(b) \in BreakerType
  BY BreakerConfig DEF Older, BreakerType, State
<1> QED
  BY <1>2, <1>3, <1>4, <1>5

\* A circuit is half-open only for a call it has admitted just now or before,
\* no recorded outcome leaves it half-open, a closed circuit admits and a
\* success leaves it closed (breaker.go:85-130).
LEMMA BreakerStates ==
    ASSUME NEW b \in BreakerType
    PROVE  /\ Allow(b).state = "half-open" => b.state = "half-open" \/ Admits(b)
           /\ b.state = "closed" => Admits(b) /\ Allow(b).state = "closed"
           /\ RecordSuccess(b).state # "half-open" /\ RecordFailure(b).state # "half-open"
           /\ b.state = "closed" => RecordSuccess(b).state = "closed"
           /\ Older(b).state = b.state
<1>1. b.state = "closed" => Probing(b) = b /\ Admits(b) /\ Allow(b) = b
  BY DEF Probing, Admits, Allow, BreakerType
<1>2. b.state = "open" /\ b.sinceFail >= ResetTimeout => Admits(b)
  BY BreakerConfig DEF Probing, Admits, BreakerType
<1>3. b.state = "open" /\ ~ (b.sinceFail >= ResetTimeout) => Allow(b).state = "open"
  BY DEF Probing, Allow, BreakerType
<1>4. /\ RecordSuccess(b).state # "half-open" /\ RecordFailure(b).state # "half-open"
      /\ b.state = "closed" => RecordSuccess(b).state = "closed"
      /\ Older(b).state = b.state
  BY DEF RecordSuccess, RecordFailure, Older, BreakerType
<1>5. b.state \in {"closed", "open", "half-open"}
  BY DEF BreakerType, State
<1> QED
  BY <1>1, <1>2, <1>3, <1>4, <1>5
-----------------------------------------------------------------------------
(* The invariant *)

\* A call that has sent nothing.
Fresh(op, pc, sends, final) ==
    [op |-> op, pc |-> pc, pos |-> 1, attempt |-> 0, err |-> NoError,
     cancelled |-> FALSE, result |-> "none", sends |-> sends, final |-> final,
     success |-> 0, failed |-> 0]

LEMMA FreshTyping ==
    ASSUME NEW op \in Operations, NEW pc \in {"idle", "route"},
           NEW sends \in Seq(Nat), NEW final \in Seq(Nat)
    PROVE  Fresh(op, pc, sends, final) \in CallType
<1>1. /\ pc \in {"idle", "route", "acquire", "provider", "backoff", "record", "done"}
      /\ NoError \in Answers \cup ErrorOver({}) /\ 0 \in 0..MaxRetries /\ 1 \in Nat \ {0}
  BY RetryCount, ClientConfig
<1> QED
  BY <1>1 DEF Fresh, CallType

LEMMA FreshOK ==
    ASSUME NEW op \in Operations, NEW pc \in {"idle", "route"}, NEW sends \in Seq(Nat),
           Len(sends) = Len(op.route), \A i \in 1..Len(op.route) : sends[i] = 0,
           NEW cl, cl = Fresh(op, pc, sends, <<>>)
    PROVE  CallOK(cl) /\ Served(cl)
<1>1. Len(op.route) \in Nat \ {0}
  BY ClientConfig DEF OperationType
<1>2. cl \in CallType
  <2>1. <<>> \in Seq(Nat)
    OBVIOUS
  <2> QED
    BY <2>1, FreshTyping
<1>3. /\ cl.op = op /\ cl.pc = pc /\ cl.pos = 1 /\ cl.result = "none"
      /\ ~ cl.cancelled /\ cl.attempt = 0 /\ cl.sends = sends /\ cl.final = <<>>
      /\ cl.success = 0 /\ cl.failed = 0
  BY DEF Fresh
<1>4. Within(cl)
  <2>1. Made(cl) = 0
    BY <1>3 DEF Made
  <2>2. \A i \in 1..Len(op.route) : AtPlace(cl, i)
    BY <1>3, <2>1, RetryCount DEF AtPlace
  <2> QED
    BY <1>3, <2>2 DEF Within
<1>5. Counted(cl) /\ OnTheWayOut(cl) /\ cl.pos <= Len(cl.op.route)
  BY <1>1, <1>3 DEF Counted, OnTheWayOut
<1>6. Served(cl)
  BY <1>3 DEF Served
<1> QED
  BY <1>2, <1>4, <1>5, <1>6 DEF CallOK

\* A new call has sent nothing.
LEMMA FreshCall ==
    ASSUME NEW op \in Operations, NEW pc \in {"idle", "route"}
    PROVE  CallOK(NewCall(op, pc)) /\ Served(NewCall(op, pc)) /\ NewCall(op, pc).pc = pc
<1> DEFINE sends == [i \in DOMAIN op.route |-> 0]
<1>1. /\ op.route \in Seq(STRING) /\ Len(op.route) \in Nat
      /\ DOMAIN op.route = 1..Len(op.route)
  BY ClientConfig DEF OperationType
<1>2. sends \in Seq(Nat) /\ Len(sends) = Len(op.route) /\ \A i \in 1..Len(op.route) : sends[i] = 0
  BY <1>1
<1>3. NewCall(op, pc) = Fresh(op, pc, sends, <<>>)
  BY DEF NewCall, Fresh
<1> HIDE DEF sends
<1>4. NewCall(op, pc).pc = pc
  BY <1>3 DEF Fresh
<1> QED
  BY <1>2, <1>3, <1>4, FreshOK

LEMMA InitIInv == Init => IInv
<1> SUFFICES ASSUME Init
             PROVE  IInv
  OBVIOUS
<1>1. New \in BreakerType /\ New.state = "closed"
  BY BreakerConfig DEF New, BreakerType, State
<1>2. breaker \in [Configured -> BreakerType] /\ calm \in BOOLEAN /\ call \in [Callers -> CallType]
  <2>1. PICK op \in Operations : op = CHOOSE o \in Operations : TRUE
    BY ClientConfig
  <2>2. CallOK(NoCall) /\ Served(NoCall)
    BY <2>1, FreshCall DEF NoCall
  <2> QED
    BY <1>1, <2>2 DEF Init, CallOK
<1>3. \A p \in Configured : breaker[p].state = "closed"
  BY <1>1 DEF Init
<1>4. \A c \in Callers : CallOK(call[c]) /\ Served(call[c])
  <2>1. PICK op \in Operations : op = CHOOSE o \in Operations : TRUE
    BY ClientConfig
  <2>2. CallOK(NoCall) /\ Served(NoCall)
    BY <2>1, FreshCall DEF NoCall
  <2> QED
    BY <2>2 DEF Init
<1>5. TrialIsRunning
  BY <1>3 DEF TrialIsRunning
<1>6. Reliable \subseteq Configured
  BY ClientConfig
<1> QED
  BY <1>2, <1>3, <1>4, <1>5, <1>6 DEF IInv

\* A step of the call c: the others are as they were.
LEMMA StepKeeps ==
    ASSUME IInv, NEW c \in Callers, NEW cl, call' = [call EXCEPT ![c] = cl], CallOK(cl),
           breaker' \in [Configured -> BreakerType], calm' \in BOOLEAN, TrialIsRunning',
           calm' => /\ calm /\ Served(cl)
                    /\ \A p \in Reliable : breaker'[p].state = "closed"
    PROVE  IInv'
<1>1. call' \in [Callers -> CallType]
  BY DEF IInv, CallOK
<1>2. \A d \in Callers : call'[d] = IF d = c THEN cl ELSE call[d]
  BY DEF IInv
<1>3. \A d \in Callers : CallOK(call[d])'
  <2> SUFFICES ASSUME NEW d \in Callers
               PROVE  CallOK(call'[d])
    OBVIOUS
  <2> QED
    BY <1>2 DEF IInv
<1>4. calm' => \A d \in Callers : Served(call[d])'
  <2> SUFFICES ASSUME calm', NEW d \in Callers
               PROVE  Served(call'[d])
    OBVIOUS
  <2> QED
    BY <1>2 DEF IInv
<1> QED
  BY <1>1, <1>3, <1>4 DEF IInv

\* A step of a call that does not touch the breakers, and keeps the admission
\* that it has.
LEMMA QuietStep ==
    ASSUME IInv, NEW c \in Callers, NEW cl, call' = [call EXCEPT ![c] = cl], CallOK(cl),
           breaker' = breaker, calm' \in BOOLEAN, calm' => calm /\ Served(cl),
           call[c].pc \in {"acquire", "provider", "backoff", "record"} =>
              /\ cl.pc \in {"acquire", "provider", "backoff", "record"}
              /\ cl.op = call[c].op /\ cl.pos = call[c].pos
    PROVE  IInv'
<1>1. \A d \in Callers : call'[d] = IF d = c THEN cl ELSE call[d]
  BY DEF IInv
<1>2. \A d \in Callers : \A p \in Configured : Admitted(d, p) => Admitted(d, p)'
  BY <1>1 DEF Admitted, Provider
<1>3. TrialIsRunning'
  BY <1>2 DEF TrialIsRunning, IInv
<1>4. breaker' \in [Configured -> BreakerType]
  BY DEF IInv
<1>5. calm' => \A p \in Reliable : breaker'[p].state = "closed"
  BY DEF IInv
<1> QED
  BY <1>3, <1>4, <1>5, StepKeeps

\* What holds of a call before its step.
LEMMA CallFacts ==
    ASSUME IInv, NEW c \in Callers
    PROVE  /\ CallOK(call[c]) /\ call[c] \in CallType /\ calm \in BOOLEAN
           /\ calm => Served(call[c])
BY DEF IInv, CallOK

LEMMA StartIInv ==
    ASSUME IInv, NEW c \in Callers, Start(c)
    PROVE  IInv'
<1>1. PICK op \in Operations : call' = [call EXCEPT ![c] = NewCall(op, "route")]
  BY DEF Start
<1> DEFINE cl == NewCall(op, "route")
<1>2. CallOK(cl) /\ Served(cl)
  BY FreshCall
<1>3. breaker' = breaker /\ calm' = calm /\ call[c].pc \in {"idle", "done"} /\ calm \in BOOLEAN
  BY CallFacts DEF Start
<1> HIDE DEF cl
<1> QED
  BY <1>1, <1>2, <1>3, QuietStep DEF cl

LEMMA PolicyFailsIInv ==
    ASSUME IInv, NEW c \in Callers, PolicyFails(c)
    PROVE  IInv'
<1> DEFINE cl == Finished(call[c], "rejected")
<1>1. /\ call[c].pc = "route" /\ breaker' = breaker /\ calm' = calm
      /\ call' = [call EXCEPT ![c] = cl]
  BY DEF PolicyFails, IInv
<1>2. CallOK(cl)
  BY <1>1, CallFacts, FinishedKeeps
<1>3. calm => Served(cl)
  <2>1. /\ cl.pc = "done" /\ cl.result = "rejected" /\ cl.op = call[c].op /\ cl.pos = call[c].pos
        /\ cl.cancelled = FALSE
    BY CallFacts DEF Finished, CallType
  <2> HIDE DEF cl
  <2> QED
    BY <2>1, CallFacts DEF Served
<1> HIDE DEF cl
<1> QED
  BY <1>1, <1>2, <1>3, CallFacts, QuietStep

LEMMA SkipUnconfiguredIInv ==
    ASSUME IInv, NEW c \in Callers, SkipUnconfigured(c)
    PROVE  IInv'
<1> DEFINE cl == AfterProvider(call[c], PlainError)
<1>1. /\ call[c].pc = "route" /\ breaker' = breaker /\ calm' = calm
      /\ call' = [call EXCEPT ![c] = cl]
      /\ call[c].op.route[call[c].pos] \notin Reliable
  BY ClientConfig DEF SkipUnconfigured, Provider, IInv
<1>2. PlainError \in Errs
  BY DEF Errs, ErrorOver
<1>3. CallOK(cl)
  BY <1>1, <1>2, CallFacts, AfterProviderKeeps
<1>4. calm => Served(cl)
  BY <1>1, <1>2, CallFacts, AfterProviderServed
<1> HIDE DEF cl
<1> QED
  BY <1>1, <1>3, <1>4, CallFacts, QuietStep

\* A circuit that becomes half-open has admitted this call.
LEMMA AllowedIInv ==
    ASSUME IInv, NEW c \in Callers, Allowed(c)
    PROVE  IInv'
<1>0. PICK p : p = Provider(c)
  OBVIOUS
<1> DEFINE b == breaker[p]
           cl == IF Admits(b) THEN [call[c] EXCEPT !.pc = "acquire"]
                 ELSE AfterProvider(call[c], circuitOpen)
<1>1. /\ call[c].pc = "route" /\ p \in Configured /\ calm' = calm
      /\ breaker' = [breaker EXCEPT ![p] = Allow(b)]
      /\ call' = [call EXCEPT ![c] = cl]
  BY <1>0 DEF Allowed, IInv
<1>2. b \in BreakerType
  BY <1>1 DEF IInv
<1>3. breaker' \in [Configured -> BreakerType]
  BY <1>1, <1>2, BreakerTyping DEF IInv
<1>4. calm => \A r \in Reliable : breaker'[r].state = "closed"
  BY <1>1, <1>2, BreakerStates, ClientConfig DEF IInv
<1>5. circuitOpen \in Errs
  BY DEF Errs, ErrorOver
<1>6. CASE Admits(b)
  <2>1. cl = [call[c] EXCEPT !.pc = "acquire"]
    BY <1>6
  <2>2. call[c] \in CallType
    BY CallFacts
  <2> HIDE DEF cl
  <2>3. /\ cl.op = call[c].op /\ cl.pc = "acquire" /\ cl.pos = call[c].pos
        /\ cl.attempt = call[c].attempt /\ cl.err = call[c].err /\ cl.result = call[c].result
        /\ cl.sends = call[c].sends /\ cl.final = call[c].final /\ cl.success = call[c].success
        /\ cl.failed = call[c].failed /\ cl.cancelled = call[c].cancelled /\ cl \in CallType
    BY <2>1, <2>2 DEF CallType
  <2>4. CallOK(cl)
    <3>1. CallOK(call[c]) /\ call[c].final = <<>>
      BY <1>1, CallFacts DEF CallOK, OnTheWayOut
    <3> QED
      BY <1>1, <2>3, <3>1 DEF CallOK, Within, AtPlace, Made, Counted, OnTheWayOut
  <2>5. calm => Served(cl)
    BY <2>3, CallFacts DEF Served
  <2>6. TrialIsRunning'
    <3>1. call'[c] = cl
      BY <1>1 DEF IInv
    <3>2. Admitted(c, p)'
      BY <1>0, <2>3, <3>1 DEF Admitted, Provider
    <3>3. \A d \in Callers \ {c} : call'[d] = call[d]
      BY <1>1 DEF IInv
    <3>4. ASSUME NEW r \in Configured, r # p, breaker'[r].state = "half-open"
          PROVE  \E d \in Callers : Admitted(d, r)'
      <4>1. breaker'[r] = breaker[r]
        BY <1>1, <3>4 DEF IInv
      <4>2. PICK d \in Callers : Admitted(d, r)
        BY <3>4, <4>1 DEF IInv, TrialIsRunning
      <4>3. d # c
        BY <1>1, <4>2 DEF Admitted
      <4> QED
        BY <3>3, <4>2, <4>3 DEF Admitted, Provider
    <3> QED
      BY <3>2, <3>4 DEF TrialIsRunning
  <2> QED
    BY <1>1, <1>3, <1>4, <2>4, <2>5, <2>6, CallFacts, StepKeeps
<1>7. CASE ~ Admits(b)
  <2>1. cl = AfterProvider(call[c], circuitOpen)
    BY <1>7
  <2> HIDE DEF cl
  <2>2. CallOK(cl)
    BY <1>1, <1>5, <2>1, CallFacts, AfterProviderKeeps
  <2>3. calm => Served(cl)
    <3>1. calm => call[c].op.route[call[c].pos] \notin Reliable
      BY <1>0, <1>2, <1>7, BreakerStates DEF IInv, Provider
    <3> QED
      BY <1>1, <1>5, <2>1, <3>1, CallFacts, AfterProviderServed
  <2>4. TrialIsRunning'
    <3>1. \A d \in Callers \ {c} : call'[d] = call[d]
      BY <1>1 DEF IInv
    <3>2. ASSUME NEW r \in Configured, breaker'[r].state = "half-open"
          PROVE  \E d \in Callers : Admitted(d, r)'
      <4>1. breaker[r].state = "half-open"
        BY <1>1, <1>2, <1>7, <3>2, BreakerStates DEF IInv
      <4>2. PICK d \in Callers : Admitted(d, r)
        BY <4>1 DEF IInv, TrialIsRunning
      <4>3. d # c
        BY <1>1, <4>2 DEF Admitted
      <4> QED
        BY <3>1, <4>2, <4>3 DEF Admitted, Provider
    <3> QED
      BY <3>2 DEF TrialIsRunning
  <2> QED
    BY <1>1, <1>3, <1>4, <2>2, <2>3, <2>4, CallFacts, StepKeeps
<1> QED
  BY <1>6, <1>7

\* A missing capability is found out by a layer below (middleware/media.go).
LEMMA IncapableIInv ==
    ASSUME IInv, NEW c \in Callers, Incapable(c)
    PROVE  IInv'
<1>1. PICK err \in {Unsupported, PlainError} : call' = [call EXCEPT ![c] = AfterAttempt(call[c], err)]
  BY DEF Incapable, IInv
<1> DEFINE cl == AfterAttempt(call[c], err)
<1>2. call[c].pc = "acquire" /\ breaker' = breaker /\ calm' = FALSE /\ err \in Errs
  BY DEF Incapable, Errs, ErrorOver
<1>3. /\ CallOK(cl) /\ cl.pc \in {"backoff", "record"} /\ cl.op = call[c].op
      /\ cl.pos = call[c].pos
  BY <1>2, CallFacts, AfterAttemptKeeps
<1> HIDE DEF cl
<1> QED
  BY <1>1, <1>2, <1>3, QuietStep DEF cl

LEMMA SendIInv ==
    ASSUME IInv, NEW c \in Callers, Send(c)
    PROVE  IInv'
<1> DEFINE pos == call[c].pos
           sends == [call[c].sends EXCEPT ![pos] = call[c].sends[pos] + 1]
           cl == [call[c] EXCEPT !.pc = "provider", !.sends = sends]
<1>1. /\ call[c].pc = "acquire" /\ breaker' = breaker /\ calm' = calm
      /\ call' = [call EXCEPT ![c] = cl]
  BY DEF Send, IInv, CallOK, CallType
<1>2. /\ CallOK(call[c]) /\ call[c] \in CallType /\ call[c].sends \in Seq(Nat)
      /\ call[c].attempt \in 0..MaxRetries /\ pos \in 1..Len(call[c].op.route)
      /\ Len(call[c].sends) = Len(call[c].op.route)
      /\ \A i \in 1..Len(call[c].op.route) : AtPlace(call[c], i)
  <2>1. CallOK(call[c]) /\ call[c] \in CallType
    BY CallFacts
  <2> QED
    BY <2>1, Fields DEF CallOK, Within
<1>3. call[c].sends[pos] \in Nat /\ call[c].sends[pos] <= call[c].attempt
  BY <1>1, <1>2 DEF AtPlace, Made
<1>4. call[c].sends[pos] + 1 \in Nat
  BY <1>3
<1>5. /\ sends \in Seq(Nat) /\ Len(sends) = Len(call[c].op.route)
      /\ \A i \in 1..Len(call[c].op.route) :
            sends[i] = IF i = pos THEN call[c].sends[pos] + 1 ELSE call[c].sends[i]
  <2> HIDE DEF pos
  <2> QED
    BY <1>2, <1>4, ExceptSeq
<1> HIDE DEF sends
<1>6. /\ cl.op = call[c].op /\ cl.pc = "provider" /\ cl.pos = pos
      /\ cl.attempt = call[c].attempt /\ cl.err = call[c].err /\ cl.result = call[c].result
      /\ cl.sends = sends /\ cl.final = call[c].final
      /\ cl.success = call[c].success /\ cl.failed = call[c].failed
      /\ cl.cancelled = call[c].cancelled /\ cl \in CallType
  BY <1>2, <1>5 DEF CallType
<1> HIDE DEF cl
<1>7. CallOK(cl)
  <2>1. ASSUME NEW i \in 1..Len(call[c].op.route)
        PROVE  AtPlace(cl, i)
    <3>1. Made(cl) = call[c].attempt + 1 /\ MaxRetries \in Nat
      BY <1>6, RetryCount DEF Made
    <3>2. AtPlace(call[c], i)
      BY <1>2
    <3>3. CASE i = pos
      <4>1. cl.sends[i] = call[c].sends[pos] + 1 /\ cl.sends[i] \in Nat
        BY <1>4, <1>5, <1>6, <3>3
      <4>2. call[c].attempt \in Nat /\ call[c].attempt <= MaxRetries
        BY <1>2, <3>1
      <4>3. cl.sends[i] <= call[c].attempt + 1 /\ cl.sends[i] <= MaxRetries + 1
        BY <1>3, <3>1, <4>1, <4>2
      <4>4. ~ (i > cl.pos)
        BY <1>2, <1>6, <3>3
      <4> QED
        BY <3>1, <4>1, <4>3, <4>4 DEF AtPlace
    <3>4. CASE i # pos
      BY <1>5, <1>6, <3>2, <3>4 DEF AtPlace
    <3> QED
      BY <3>3, <3>4
  <2>2. Within(cl)
    BY <1>5, <1>6, <2>1 DEF Within
  <2>3. call[c].final = <<>>
    BY <1>1, <1>2 DEF CallOK, OnTheWayOut
  <2> QED
    BY <1>1, <1>2, <1>6, <2>2, <2>3 DEF CallOK, Counted, OnTheWayOut
<1>8. calm => Served(cl)
  BY <1>6, CallFacts DEF Served
<1> QED
  BY <1>1, <1>6, <1>7, <1>8, CallFacts, QuietStep

\* An attempt that ended with the context's error, of a call whose context has
\* ended.
LEMMA CancelledAttempt ==
    ASSUME IInv, NEW c \in Callers, call[c].pc \in {"acquire", "provider"}, call[c].cancelled,
           NEW err \in Errs, call' = [call EXCEPT ![c] = AfterAttempt(@, err)],
           UNCHANGED <<breaker, calm>>
    PROVE  IInv'
<1> DEFINE cl == AfterAttempt(call[c], err)
<1>1. call' = [call EXCEPT ![c] = cl]
  BY DEF IInv
<1>2. /\ CallOK(cl) /\ cl.pc \in {"backoff", "record"} /\ cl.op = call[c].op
      /\ cl.pos = call[c].pos
  BY CallFacts, AfterAttemptKeeps
<1>3. ~ calm /\ calm' \in BOOLEAN
  BY CallFacts DEF Served
<1> HIDE DEF cl
<1> QED
  BY <1>1, <1>2, <1>3, QuietStep

LEMMA SendCancelledIInv ==
    ASSUME IInv, NEW c \in Callers, SendCancelled(c)
    PROVE  IInv'
<1>1. {PlainError, networkError} \subseteq Errs
  BY DEF Errs, ErrorOver
<1> QED
  BY <1>1, CancelledAttempt DEF SendCancelled

LEMMA AbortIInv ==
    ASSUME IInv, NEW c \in Callers, Abort(c)
    PROVE  IInv'
<1>1. networkError \in Errs
  BY DEF Errs, ErrorOver
<1> QED
  BY <1>1, CancelledAttempt DEF Abort

\* A success or a 400 is neither retried nor, later, fallen back from: this is
\* where the call turns to its way out (errors.go:33-37).
LEMMA AnswerIInv ==
    ASSUME IInv, NEW c \in Callers, Answer(c)
    PROVE  IInv'
<1>1. PICK err \in Answers :
         /\ Provider(c) \in Reliable => err = NoError
         /\ call' = [call EXCEPT ![c] =
               [AfterAttempt(@, err) EXCEPT
                  !.final = IF err = NoError \/ err.status = 400 THEN call[c].sends ELSE <<>>]]
  BY ClientConfig DEF Answer
<1> DEFINE mid == AfterAttempt(call[c], err)
           final == IF err = NoError \/ err.status = 400 THEN call[c].sends ELSE <<>>
           cl == [mid EXCEPT !.final = final]
<1>2. call[c].pc = "provider" /\ breaker' = breaker /\ calm' = calm
  BY DEF Answer
<1>3. call' = [call EXCEPT ![c] = cl]
  BY <1>1 DEF IInv
<1>4. err \in Errs
  BY DEF Errs
<1>5. /\ CallOK(mid) /\ mid.pc \in {"backoff", "record"}
      /\ mid.pos = call[c].pos /\ mid.op = call[c].op
      /\ mid.cancelled = call[c].cancelled /\ mid.result = call[c].result
      /\ mid.sends = call[c].sends
      /\ mid.pc = "record" => mid.err = err
      /\ mid.pc = "backoff" => err # NoError /\ IsRetryable(err)
  BY <1>2, <1>4, CallFacts, AfterAttemptKeeps
<1>6. err = NoError \/ err.status = 400 => mid.pc = "record" /\ (err = NoError \/ ~ IsFallback(err))
  <2>1. ASSUME err.status = 400
        PROVE  ~ IsRetryable(err) /\ ~ IsFallback(err)
    <3>1. err = parseError(400)
      BY <2>1, ClientConfig
    <3>2. ~ (400 \in {408, 429} \/ 400 >= 500) /\ ~ (400 # 400)
      OBVIOUS
    <3>3. parseError(400) = [provider |-> TRUE, status |-> 400, retryable |-> FALSE,
                             fallback |-> FALSE]
      BY <3>2 DEF parseError, ProviderError
    <3>4. err.provider = TRUE /\ err.retryable = FALSE /\ err.fallback = FALSE
      BY <3>1, <3>3
    <3> QED
      BY <3>4 DEF IsRetryable, IsFallback
  <2> HIDE DEF mid
  <2> QED
    BY <1>5, <2>1
<1>7. call[c].sends \in Seq(Nat) /\ final \in Seq(Nat)
  BY CallFacts, Fields
<1>8. final # <<>> => final = call[c].sends /\ (err = NoError \/ err.status = 400)
  OBVIOUS
<1> HIDE DEF mid, final
<1>9. /\ cl.op = mid.op /\ cl.pc = mid.pc /\ cl.pos = mid.pos /\ cl.attempt = mid.attempt
      /\ cl.err = mid.err /\ cl.result = mid.result /\ cl.sends = mid.sends /\ cl.final = final
      /\ cl.success = mid.success /\ cl.failed = mid.failed
      /\ cl.cancelled = mid.cancelled /\ cl \in CallType
  BY <1>5, <1>7 DEF CallOK, CallType
<1> HIDE DEF cl
<1>10. CallOK(cl)
  <2>1. Within(cl) /\ Counted(cl)
    BY <1>5, <1>9 DEF CallOK, Within, AtPlace, Made, Counted
  <2>2. OnTheWayOut(cl)
    BY <1>5, <1>6, <1>8, <1>9 DEF OnTheWayOut
  <2> QED
    BY <1>5, <1>9, <2>1, <2>2 DEF CallOK
<1>11. calm => Served(cl)
  <2>1. call[c].op.route[call[c].pos] \in Reliable => err = NoError
    BY <1>1 DEF Provider
  <2>2. CallOK(call[c]) /\ (calm => Served(call[c]))
    BY CallFacts
  <2>3. call[c].result = "none"
    BY <1>2, <2>2 DEF CallOK, Counted
  <2> QED
    BY <1>5, <1>9, <2>1, <2>2, <2>3 DEF Served
<1> QED
  BY <1>2, <1>3, <1>5, <1>9, <1>10, <1>11, CallFacts, QuietStep

\* The loop makes its next attempt: it sleeps only when there is one left.
LEMMA RetryIInv ==
    ASSUME IInv, NEW c \in Callers, Retry(c)
    PROVE  IInv'
<1> DEFINE cl == [call[c] EXCEPT !.pc = "acquire", !.attempt = call[c].attempt + 1]
<1>1. /\ call[c].pc = "backoff" /\ breaker' = breaker /\ calm' = calm
      /\ call' = [call EXCEPT ![c] = cl]
  BY DEF Retry, IInv
<1>2. CallOK(call[c]) /\ call[c] \in CallType
  BY CallFacts
<1>3. call[c].attempt \in Nat /\ Made(call[c]) \in Nat
  BY <1>2, Fields
<1>4. call[c].attempt + 1 \in 0..MaxRetries
  <2>1. call[c].attempt < MaxRetries
    BY <1>1, <1>2 DEF CallOK, Within
  <2>2. MaxRetries \in Nat
    BY RetryCount
  <2> QED
    BY <1>3, <2>1, <2>2
<1>5. /\ cl.op = call[c].op /\ cl.pc = "acquire" /\ cl.pos = call[c].pos
      /\ cl.attempt = call[c].attempt + 1 /\ cl.err = call[c].err /\ cl.result = call[c].result
      /\ cl.sends = call[c].sends /\ cl.final = call[c].final
      /\ cl.success = call[c].success /\ cl.failed = call[c].failed
      /\ cl.cancelled = call[c].cancelled /\ cl \in CallType
  BY <1>2, <1>4 DEF CallType
<1> HIDE DEF cl
<1>6. CallOK(cl)
  <2>1. Within(cl)
    <3>1. Made(cl) = call[c].attempt + 1 /\ Made(call[c]) = call[c].attempt + 1
      BY <1>1, <1>3, <1>5 DEF Made
    <3>2. Within(call[c]) /\ Made(cl) \in Nat /\ Made(call[c]) <= Made(cl)
      BY <1>2, <1>3, <3>1 DEF CallOK
    <3> QED
      BY <1>1, <1>3, <1>5, <3>2, WithinKeeps
  <2>2. call[c].final = <<>>
    BY <1>1, <1>2 DEF CallOK, OnTheWayOut
  <2> QED
    BY <1>1, <1>2, <1>5, <2>1, <2>2 DEF CallOK, Counted, OnTheWayOut
<1>7. calm => Served(cl)
  BY <1>1, <1>5, CallFacts DEF Served
<1> QED
  BY <1>1, <1>5, <1>6, <1>7, CallFacts, QuietStep

LEMMA RetryCancelledIInv ==
    ASSUME IInv, NEW c \in Callers, RetryCancelled(c)
    PROVE  IInv'
<1> DEFINE cl == [call[c] EXCEPT !.pc = "record", !.err = PlainError]
<1>1. /\ call[c].pc = "backoff" /\ call[c].cancelled /\ breaker' = breaker /\ calm' = calm
      /\ call' = [call EXCEPT ![c] = cl]
  BY DEF RetryCancelled, IInv
<1>2. CallOK(call[c]) /\ call[c] \in CallType
  BY CallFacts
<1>3. PlainError \in Answers \cup ErrorOver({})
  BY DEF ErrorOver
<1>4. /\ cl.op = call[c].op /\ cl.pc = "record" /\ cl.pos = call[c].pos
      /\ cl.attempt = call[c].attempt /\ cl.result = call[c].result
      /\ cl.sends = call[c].sends /\ cl.final = call[c].final
      /\ cl.success = call[c].success /\ cl.failed = call[c].failed /\ cl \in CallType
  BY <1>2, <1>3 DEF CallType
<1> HIDE DEF cl
<1>5. CallOK(cl)
  <2>1. call[c].final = <<>>
    BY <1>1, <1>2 DEF CallOK, OnTheWayOut
  <2> QED
    BY <1>1, <1>2, <1>4, <2>1 DEF CallOK, Within, AtPlace, Made, Counted, OnTheWayOut
<1>6. ~ calm /\ calm' \in BOOLEAN
  BY <1>1, CallFacts DEF Served
<1> QED
  BY <1>1, <1>4, <1>5, <1>6, QuietStep

\* The outcome is recorded by the breaker that admitted the call, and no
\* recorded outcome leaves a circuit half-open.
LEMMA RecordIInv ==
    ASSUME IInv, NEW c \in Callers, Record(c)
    PROVE  IInv'
<1>0. PICK p : p = Provider(c)
  OBVIOUS
<1> DEFINE b == breaker[p]
           err == call[c].err
           cl == AfterProvider(call[c], err)
<1>1. PICK next \in {RecordSuccess(b), RecordFailure(b)} :
         /\ err = NoError => next = RecordSuccess(b)
         /\ breaker' = [breaker EXCEPT ![p] = next]
  BY <1>0 DEF Record, IInv
<1>2. call[c].pc = "record" /\ calm' = calm /\ call' = [call EXCEPT ![c] = cl]
  BY DEF Record, IInv
<1>3. CallOK(call[c]) /\ call[c] \in CallType /\ err \in Errs
  BY CallFacts, Fields
<1>4. CallOK(cl)
  BY <1>2, <1>3, AfterProviderKeeps
<1>5. calm /\ p \in Reliable => err = NoError
  BY <1>0, <1>2, CallFacts DEF Served, Provider
<1>6. calm => Served(cl)
  BY <1>0, <1>2, <1>3, <1>5, CallFacts, AfterProviderServed DEF Provider
<1> HIDE DEF cl, err
<1>7. breaker' \in [Configured -> BreakerType]
  BY <1>1, BreakerTyping DEF IInv
<1>8. calm => \A r \in Reliable : breaker'[r].state = "closed"
  BY <1>1, <1>5, BreakerStates, ClientConfig DEF IInv
<1>9. TrialIsRunning'
  <2>1. \A d \in Callers \ {c} : call'[d] = call[d]
    BY <1>2 DEF IInv
  <2>2. ASSUME NEW r \in Configured, breaker'[r].state = "half-open"
        PROVE  \E d \in Callers : Admitted(d, r)'
    <3>1. r # p
      BY <1>1, <2>2, BreakerStates DEF IInv
    <3>2. breaker[r].state = "half-open"
      BY <1>1, <2>2, <3>1 DEF IInv
    <3>3. PICK d \in Callers : Admitted(d, r)
      BY <3>2 DEF IInv, TrialIsRunning
    <3>4. d # c
      BY <1>0, <3>1, <3>3 DEF Admitted
    <3> QED
      BY <2>1, <3>3, <3>4 DEF Admitted, Provider
  <2> QED
    BY <2>2 DEF TrialIsRunning
<1> QED
  BY <1>2, <1>4, <1>6, <1>7, <1>8, <1>9, CallFacts, StepKeeps

LEMMA CancelIInv ==
    ASSUME IInv, NEW c \in Callers, Cancel(c)
    PROVE  IInv'
<1> DEFINE cl == [call[c] EXCEPT !.cancelled = TRUE]
<1>1. breaker' = breaker /\ calm' = FALSE /\ call' = [call EXCEPT ![c] = cl]
  BY DEF Cancel, IInv
<1>2. CallOK(call[c]) /\ call[c] \in CallType
  BY CallFacts
<1>3. /\ cl.op = call[c].op /\ cl.pc = call[c].pc /\ cl.pos = call[c].pos
      /\ cl.attempt = call[c].attempt /\ cl.err = call[c].err /\ cl.result = call[c].result
      /\ cl.sends = call[c].sends /\ cl.final = call[c].final
      /\ cl.success = call[c].success /\ cl.failed = call[c].failed /\ cl \in CallType
  BY <1>2 DEF CallType
<1> HIDE DEF cl
<1>4. CallOK(cl)
  BY <1>2, <1>3 DEF CallOK, Within, AtPlace, Made, Counted, OnTheWayOut
<1> QED
  BY <1>1, <1>3, <1>4, QuietStep

\* Time only ages the breakers.
LEMMA TickIInv ==
    ASSUME IInv, Tick
    PROVE  IInv'
<1>1. /\ call' = call /\ calm' = calm
      /\ breaker' = [p \in Configured |-> Older(breaker[p])]
  BY DEF Tick
<1>2. breaker' \in [Configured -> BreakerType]
  BY <1>1, BreakerTyping DEF IInv
<1>3. \A p \in Configured : breaker'[p].state = breaker[p].state
  BY <1>1, BreakerStates DEF IInv
<1>4. TrialIsRunning'
  BY <1>1, <1>3 DEF IInv, TrialIsRunning, Admitted, Provider
<1>5. calm => \A p \in Reliable : breaker'[p].state = "closed"
  BY <1>3, ClientConfig DEF IInv
<1> QED
  BY <1>1, <1>2, <1>4, <1>5 DEF IInv

LEMMA NextIInv == IInv /\ [Next]_vars => IInv'
<1> SUFFICES ASSUME IInv, [Next]_vars
             PROVE  IInv'
  OBVIOUS
<1>1. CASE UNCHANGED vars
  <2>1. breaker' = breaker /\ call' = call /\ calm' = calm
    BY <1>1 DEF vars
  <2>2. TrialIsRunning'
    BY <2>1 DEF IInv, TrialIsRunning, Admitted, Provider
  <2> QED
    BY <2>1, <2>2 DEF IInv
<1>2. CASE Tick
  BY <1>2, TickIInv
<1>3. ASSUME NEW c \in Callers, Start(c) \/ Cancel(c) \/ Proceed(c)
      PROVE  IInv'
  BY <1>3, StartIInv, CancelIInv, PolicyFailsIInv, SkipUnconfiguredIInv, AllowedIInv,
     IncapableIInv, SendIInv, SendCancelledIInv, AnswerIInv, AbortIInv, RetryIInv,
     RetryCancelledIInv, RecordIInv DEF Proceed
<1> QED
  BY <1>1, <1>2, <1>3 DEF Next

\* The invariant holds of every state, for any number of concurrent calls.
THEOREM Invariance == Spec => []IInv
<1> QED
  BY InitIInv, NextIInv, PTL DEF Spec
-----------------------------------------------------------------------------
(* What the calls promise *)

\* Every state is made of what the code can put there.
THEOREM TypeCorrect == Spec => []TypeOK
<1>1. IInv => TypeOK
  <2> SUFFICES ASSUME IInv
               PROVE  TypeOK
    OBVIOUS
  <2>1. \A c \in Callers : call[c].pos <= Len(call[c].op.route)
    BY DEF IInv, CallOK
  <2> QED
    BY <2>1 DEF IInv, TypeOK
<1> QED
  BY <1>1, Invariance, PTL

\* One call sends at most (Retry + 1) requests to each provider of its route,
\* whatever it has sent to the others.
THEOREM SendsAreBounded == Spec => []SendsBounded
<1>1. IInv => SendsBounded
  <2> SUFFICES ASSUME IInv, NEW c \in Callers, NEW i \in DOMAIN call[c].op.route
               PROVE  call[c].sends[i] <= MaxRetries + 1
    BY DEF SendsBounded
  <2>1. CallOK(call[c]) /\ call[c].op.route \in Seq(STRING)
    BY CallFacts, Fields
  <2>2. i \in 1..Len(call[c].op.route)
    BY <2>1
  <2> QED
    BY <2>1, <2>2 DEF CallOK, Within, AtPlace
<1> QED
  BY <1>1, Invariance, PTL

\* Stats count a call once, when it returns and on the side of its result.
THEOREM CountedInStats == Spec => []CountedOnce
<1>1. IInv => CountedOnce
  <2> SUFFICES ASSUME IInv, NEW c \in Callers, NEW cl, cl = call[c]
               PROVE  LET ok == cl.result = "ok"
                      IN  IF cl.pc = "done"
                                 /\ (cl.op.counted = "both" \/ (cl.op.counted = "failure" /\ ~ ok))
                          THEN cl.success + cl.failed = 1 /\ (cl.success = 1 <=> ok)
                          ELSE cl.success + cl.failed = 0
    BY DEF CountedOnce
  <2>1. Counted(cl)
    BY CallFacts DEF CallOK
  <2> QED
    BY <2>1 DEF Counted
<1> QED
  BY <1>1, Invariance, PTL

\* After a success or a 400 the call sends nothing more, to any provider.
THEOREM FinalAnswerIsFinal == Spec => []NothingAfterFinalAnswer
<1>1. IInv => NothingAfterFinalAnswer
  BY DEF IInv, CallOK, OnTheWayOut, NothingAfterFinalAnswer
<1> QED
  BY <1>1, Invariance, PTL

\* Whatever the other providers answer and the other calls do, a call with a
\* reliable provider on its route does not run out of providers.
THEOREM ReliableServes == Spec => []ReliableProviderServes
<1>1. IInv => ReliableProviderServes
  <2> SUFFICES ASSUME IInv, NEW c \in Callers, calm, call[c].result = "failed",
                      IsFallback(call[c].err), NEW i \in DOMAIN call[c].op.route
               PROVE  call[c].op.route[i] \notin Reliable
    BY DEF ReliableProviderServes
  <2>1. call[c].op.route \in Seq(STRING) /\ Served(call[c])
    BY CallFacts, Fields
  <2>2. i \in 1..Len(call[c].op.route)
    BY <2>1
  <2> QED
    BY <2>1, <2>2 DEF Served
<1> QED
  BY <1>1, Invariance, PTL

\* Through retries, backoffs, cancellations and fallbacks, a half-open circuit
\* is held by a call that will still record its outcome.
THEOREM TrialAlwaysEnds == Spec => []TrialIsRunning
<1>1. IInv => TrialIsRunning
  BY DEF IInv
<1> QED
  BY <1>1, Invariance, PTL
-----------------------------------------------------------------------------
(* Admissions, with the histories of the circuits *)

\* Where a call holds an admission.
Holds == {"acquire", "provider", "backoff", "record"}

\* The histories are counted per provider, and what a half-open period let
\* through is under way.
CircuitIInv ==
    /\ IInv
    /\ probes \in [Configured -> SUBSET Callers]
    /\ streak \in [Configured -> Nat]
    /\ openAge \in [Configured -> Nat]
    /\ \A p \in Configured : \A c \in probes[p] : Admitted(c, p)

\* The fallback loop takes a call out of the layers below the breaker.
LEMMA AfterProviderLeaves ==
    ASSUME NEW cl, cl \in CallType, NEW err \in Errs
    PROVE  AfterProvider(cl, err).pc \in {"route", "done"}
<1>1. [cl EXCEPT !.err = err] \in CallType
  BY DEF CallType, Errs
<1>2. ASSUME NEW old, old \in CallType, NEW r
      PROVE  Finished(old, r).pc = "done"
  BY <1>2 DEF Finished, CallType
<1>3. CASE err = NoError \/ ~ IsFallback(err) \/ cl.pos = Len(cl.op.route)
  BY <1>1, <1>2, <1>3 DEF AfterProvider
<1>4. CASE ~ (err = NoError \/ ~ IsFallback(err) \/ cl.pos = Len(cl.op.route))
  <2>1. AfterProvider(cl, err)
          = [cl EXCEPT !.pc = "route", !.pos = cl.pos + 1, !.attempt = 0, !.err = NoError]
    BY <1>4 DEF AfterProvider
  <2> QED
    BY <2>1 DEF CallType
<1> QED
  BY <1>3, <1>4

\* Below the breaker a call keeps the admission that it holds, and elsewhere
\* it gets none.
LEMMA OneCallKeeps ==
    ASSUME IInv, NEW c \in Callers, NEW cl, call' = [call EXCEPT ![c] = cl],
           \/ call[c].pc \notin Holds /\ cl.pc \notin Holds
           \/ /\ call[c].pc \in Holds <=> cl.pc \in Holds
              /\ cl.op = call[c].op /\ cl.pos = call[c].pos
    PROVE  \A d \in Callers : \A p \in Configured : Admitted(d, p)' <=> Admitted(d, p)
<1>1. \A d \in Callers : call'[d] = IF d = c THEN cl ELSE call[d]
  BY DEF IInv
<1>2. \A d \in Callers \ {c} : \A p \in Configured : Admitted(d, p)' <=> Admitted(d, p)
  BY <1>1 DEF Admitted, Provider
<1>3. \A p \in Configured : Admitted(c, p)' <=> Admitted(c, p)
  BY <1>1 DEF Admitted, Provider, Holds
<1> QED
  BY <1>2, <1>3

LEMMA ElsewhereKeeps ==
    ASSUME IInv, NEW c \in Callers, Elsewhere(c)
    PROVE  /\ breaker' = breaker /\ UNCHANGED histories
           /\ \A d \in Callers : \A p \in Configured : Admitted(d, p)' <=> Admitted(d, p)
<1>0. /\ breaker' = breaker /\ UNCHANGED histories
  BY DEF Elsewhere, Start, Cancel, PolicyFails, SkipUnconfigured, Incapable, Send, SendCancelled,
         Answer, Abort, Retry, RetryCancelled
<1>1. /\ CallOK(call[c]) /\ call[c] \in CallType
      /\ call \in [Callers -> CallType]
  BY CallFacts DEF IInv
<1>2. CASE Start(c)
  <2>1. PICK op \in Operations : call' = [call EXCEPT ![c] = NewCall(op, "route")]
    BY <1>2 DEF Start
  <2>2. NewCall(op, "route").pc = "route"
    BY DEF NewCall
  <2>3. call[c].pc \notin Holds /\ "route" \notin Holds
    BY <1>2 DEF Start, Holds
  <2> QED
    BY <1>0, <2>1, <2>2, <2>3, OneCallKeeps
<1>3. CASE PolicyFails(c)
  <2>1. call' = [call EXCEPT ![c] = Finished(call[c], "rejected")]
    BY <1>1, <1>3 DEF PolicyFails
  <2>2. Finished(call[c], "rejected").pc = "done"
    BY <1>1 DEF Finished, CallType
  <2>3. call[c].pc \notin Holds /\ "done" \notin Holds
    BY <1>3 DEF PolicyFails, Holds
  <2> QED
    BY <1>0, <2>1, <2>2, <2>3, OneCallKeeps
<1>4. CASE SkipUnconfigured(c)
  <2>1. call' = [call EXCEPT ![c] = AfterProvider(call[c], PlainError)]
    BY <1>1, <1>4 DEF SkipUnconfigured
  <2>2. AfterProvider(call[c], PlainError).pc \in {"route", "done"}
    BY <1>1, AfterProviderLeaves DEF Errs, ErrorOver
  <2>3. call[c].pc \notin Holds /\ AfterProvider(call[c], PlainError).pc \notin Holds
    BY <1>4, <2>2 DEF SkipUnconfigured, Holds
  <2> QED
    BY <1>0, <2>1, <2>3, OneCallKeeps
<1>5. ASSUME call[c].pc \in {"acquire", "provider"}, NEW err \in Errs,
             call' = [call EXCEPT ![c] = AfterAttempt(call[c], err)]
      PROVE  \A d \in Callers : \A p \in Configured : Admitted(d, p)' <=> Admitted(d, p)
  <2> DEFINE cl == AfterAttempt(call[c], err)
  <2>1. cl.pc \in {"backoff", "record"} /\ cl.pos = call[c].pos /\ cl.op = call[c].op
    BY <1>1, <1>5, AfterAttemptKeeps
  <2>2. call' = [call EXCEPT ![c] = cl]
    BY <1>5
  <2> HIDE DEF cl
  <2>3. call[c].pc \in Holds /\ cl.pc \in Holds
    BY <1>5, <2>1 DEF Holds
  <2> QED
    BY <2>1, <2>2, <2>3, OneCallKeeps
<1>6. {PlainError, networkError, Unsupported} \subseteq Errs
  BY DEF Errs, ErrorOver
<1>7. CASE Incapable(c)
  <2>1. PICK err \in {Unsupported, PlainError} : call' = [call EXCEPT ![c] = AfterAttempt(call[c], err)]
    BY <1>1, <1>7 DEF Incapable
  <2>2. call[c].pc \in {"acquire", "provider"} /\ err \in Errs
    BY <1>6, <1>7 DEF Incapable
  <2> QED
    BY <1>0, <1>5, <2>1, <2>2
<1>8. CASE SendCancelled(c) \/ Abort(c)
  <2>1. PICK err \in {PlainError, networkError} : call' = [call EXCEPT ![c] = AfterAttempt(call[c], err)]
    BY <1>1, <1>8 DEF SendCancelled, Abort
  <2>2. call[c].pc \in {"acquire", "provider"} /\ err \in Errs
    BY <1>6, <1>8 DEF SendCancelled, Abort
  <2> QED
    BY <1>0, <1>5, <2>1, <2>2
<1>9. CASE Answer(c)
  <2>1. PICK err \in Answers :
           call' = [call EXCEPT ![c] =
                 [AfterAttempt(@, err) EXCEPT
                    !.final = IF err = NoError \/ err.status = 400 THEN call[c].sends ELSE <<>>]]
    BY <1>9, ClientConfig DEF Answer
  <2> DEFINE mid == AfterAttempt(call[c], err)
             cl == [mid EXCEPT !.final = IF err = NoError \/ err.status = 400 THEN call[c].sends ELSE <<>>]
  <2>2. call' = [call EXCEPT ![c] = cl]
    BY <1>1, <2>1
  <2>3. call[c].pc = "provider" /\ err \in Errs
    BY <1>9 DEF Answer, Errs
  <2>4. /\ CallOK(mid) /\ mid.pc \in {"backoff", "record"}
        /\ mid.pos = call[c].pos /\ mid.op = call[c].op
    BY <1>1, <2>3, AfterAttemptKeeps
  <2> HIDE DEF mid
  <2>5. cl.pc = mid.pc /\ cl.op = call[c].op /\ cl.pos = call[c].pos
    BY <2>4 DEF CallOK, CallType
  <2> HIDE DEF cl
  <2>6. call[c].pc \in Holds /\ cl.pc \in Holds
    BY <2>3, <2>4, <2>5 DEF Holds
  <2> QED
    BY <1>0, <2>2, <2>5, <2>6, OneCallKeeps
<1>10. ASSUME NEW cl, call' = [call EXCEPT ![c] = cl],
              cl.op = call[c].op, cl.pos = call[c].pos,
              call[c].pc \in Holds <=> cl.pc \in Holds
       PROVE  \A d \in Callers : \A p \in Configured : Admitted(d, p)' <=> Admitted(d, p)
  BY <1>10, OneCallKeeps
<1>11. CASE Send(c)
  <2> DEFINE cl == [call[c] EXCEPT !.pc = "provider", !.sends[call[c].pos] = call[c].sends[call[c].pos] + 1]
  <2>1. call' = [call EXCEPT ![c] = cl] /\ call[c].pc = "acquire"
    BY <1>1, <1>11 DEF Send
  <2>2. cl.pc = "provider" /\ cl.op = call[c].op /\ cl.pos = call[c].pos
    BY <1>1 DEF CallType
  <2> HIDE DEF cl
  <2> QED
    BY <1>0, <1>10, <2>1, <2>2 DEF Holds
<1>12. CASE Retry(c)
  <2> DEFINE cl == [call[c] EXCEPT !.pc = "acquire", !.attempt = call[c].attempt + 1]
  <2>1. call' = [call EXCEPT ![c] = cl] /\ call[c].pc = "backoff"
    BY <1>1, <1>12 DEF Retry
  <2>2. cl.pc = "acquire" /\ cl.op = call[c].op /\ cl.pos = call[c].pos
    BY <1>1 DEF CallType
  <2> HIDE DEF cl
  <2> QED
    BY <1>0, <1>10, <2>1, <2>2 DEF Holds
<1>13. CASE RetryCancelled(c)
  <2> DEFINE cl == [call[c] EXCEPT !.pc = "record", !.err = PlainError]
  <2>1. call' = [call EXCEPT ![c] = cl] /\ call[c].pc = "backoff"
    BY <1>1, <1>13 DEF RetryCancelled
  <2>2. cl.pc = "record" /\ cl.op = call[c].op /\ cl.pos = call[c].pos
    BY <1>1 DEF CallType
  <2> HIDE DEF cl
  <2> QED
    BY <1>0, <1>10, <2>1, <2>2 DEF Holds
<1>14. CASE Cancel(c)
  <2> DEFINE cl == [call[c] EXCEPT !.cancelled = TRUE]
  <2>1. call' = [call EXCEPT ![c] = cl]
    BY <1>1, <1>14 DEF Cancel
  <2>2. cl.pc = call[c].pc /\ cl.op = call[c].op /\ cl.pos = call[c].pos
    BY <1>1 DEF CallType
  <2> HIDE DEF cl
  <2> QED
    BY <1>0, <1>10, <2>1, <2>2
<1> QED
  BY <1>2, <1>3, <1>4, <1>7, <1>8, <1>9, <1>11, <1>12, <1>13, <1>14 DEF Elsewhere

\* A call at a breaker: admitted, it holds an admission of that breaker and of
\* no other; turned away, it holds none.
LEMMA AtBreakerKeeps ==
    ASSUME CircuitIInv, NEW c \in Callers, AtBreaker(c), NEW p \in Configured
    PROVE  /\ ~ Admitted(c, p) /\ c \notin probes[p]
           /\ \A d \in Callers \ {c} : Admitted(d, p)' <=> Admitted(d, p)
           /\ Admitted(c, p)' <=> p = Provider(c) /\ Admits(breaker[p])
<1>1. /\ CallOK(call[c]) /\ call[c] \in CallType
      /\ call \in [Callers -> CallType]
  BY CallFacts DEF CircuitIInv, IInv
<1> DEFINE q == Provider(c)
           cl == IF Admits(breaker[q]) THEN [call[c] EXCEPT !.pc = "acquire"]
                 ELSE AfterProvider(call[c], circuitOpen)
<1>2. call[c].pc = "route" /\ q \in Configured /\ call' = [call EXCEPT ![c] = cl]
  BY <1>1 DEF AtBreaker, Allowed
<1>3. ~ Admitted(c, p) /\ c \notin probes[p]
  BY <1>2 DEF CircuitIInv, Admitted
<1>4. Admits(breaker[q]) => cl.pc = "acquire" /\ cl.op = call[c].op /\ cl.pos = call[c].pos
  BY <1>1 DEF CallType
<1>5. ~ Admits(breaker[q]) => cl.pc \in {"route", "done"}
  BY <1>1, AfterProviderLeaves DEF Errs, ErrorOver
<1> HIDE DEF cl
<1>6. \A d \in Callers : call'[d] = IF d = c THEN cl ELSE call[d]
  BY <1>1, <1>2
<1>7. \A d \in Callers \ {c} : Admitted(d, p)' <=> Admitted(d, p)
  BY <1>6 DEF Admitted, Provider
<1>8. Admitted(c, p)' <=> p = q /\ Admits(breaker[p])
  BY <1>4, <1>5, <1>6 DEF Admitted, Provider
<1> QED
  BY <1>3, <1>7, <1>8

\* A call that has been recorded holds no admission, and no half-open period
\* of its breaker is left.
LEMMA RecordedKeeps ==
    ASSUME CircuitIInv, NEW c \in Callers, Recorded(c), NEW p \in Configured
    PROVE  /\ Admitted(c, p) <=> p = Provider(c)
           /\ ~ Admitted(c, p)'
           /\ \A d \in Callers \ {c} : Admitted(d, p)' <=> Admitted(d, p)
           /\ p = Provider(c) => breaker'[p].state # "half-open" /\ probes'[p] = {}
           /\ p # Provider(c) => breaker'[p] = breaker[p] /\ probes'[p] = probes[p]
<1>1. /\ CallOK(call[c]) /\ call[c] \in CallType
      /\ call \in [Callers -> CallType] /\ breaker \in [Configured -> BreakerType]
  BY CallFacts DEF CircuitIInv, IInv
<1> DEFINE q == Provider(c)
           cl == AfterProvider(call[c], call[c].err)
<1>2. call[c].pc = "record" /\ call' = [call EXCEPT ![c] = cl]
  BY <1>1 DEF Recorded, Record
<1>3. PICK next \in {RecordSuccess(breaker[q]), RecordFailure(breaker[q])} :
         breaker' = [breaker EXCEPT ![q] = next]
  BY <1>1 DEF Recorded, Record
<1>4. cl.pc \in {"route", "done"}
  BY <1>1, Fields, AfterProviderLeaves
<1>5. Admitted(c, p) <=> p = q
  BY <1>2 DEF Admitted
<1> HIDE DEF cl
<1>6. \A d \in Callers : call'[d] = IF d = c THEN cl ELSE call[d]
  BY <1>1, <1>2
<1>7. ~ Admitted(c, p)' /\ \A d \in Callers \ {c} : Admitted(d, p)' <=> Admitted(d, p)
  BY <1>4, <1>6 DEF Admitted, Provider
<1>8. p = q => breaker'[p].state # "half-open"
  BY <1>1, <1>3, BreakerStates
<1>9. p # q => breaker'[p] = breaker[p]
  BY <1>1, <1>3
<1>10. probes \in [Configured -> SUBSET Callers]
  BY DEF CircuitIInv
<1>11. probes' = [probes EXCEPT ![q] = IF breaker'[q].state = "half-open" THEN @ \ {c} ELSE {}]
  BY DEF Recorded
<1>12. p = q => probes'[p] = {}
  BY <1>8, <1>10, <1>11
<1>13. p # q => probes'[p] = probes[p]
  BY <1>10, <1>11
<1> QED
  BY <1>5, <1>7, <1>8, <1>9, <1>12, <1>13

\* What the histories of a provider become at a breaker and at a record.
LEMMA AtBreakerHistories ==
    ASSUME CircuitIInv, NEW c \in Callers, AtBreaker(c), NEW p \in Configured
    PROVE  /\ streak' = streak /\ openAge' = openAge
           /\ p = Provider(c) =>
                 /\ breaker'[p] = Allow(breaker[p])
                 /\ probes'[p] = IF Admits(breaker[p]) /\ Allow(breaker[p]).state = "half-open"
                                 THEN probes[p] \cup {c} ELSE probes[p]
           /\ p # Provider(c) => breaker'[p] = breaker[p] /\ probes'[p] = probes[p]
<1>1. breaker \in [Configured -> BreakerType] /\ probes \in [Configured -> SUBSET Callers]
  BY DEF CircuitIInv, IInv
<1> DEFINE q == Provider(c)
<1>2. breaker' = [breaker EXCEPT ![q] = Allow(breaker[q])]
  BY <1>1 DEF AtBreaker, Allowed
<1>3. probes' = [probes EXCEPT ![q] = IF Admits(breaker[q]) /\ Allow(breaker[q]).state = "half-open"
                                      THEN probes[q] \cup {c} ELSE probes[q]]
  BY <1>1 DEF AtBreaker
<1>4. streak' = streak /\ openAge' = openAge
  BY DEF AtBreaker
<1> QED
  BY <1>1, <1>2, <1>3, <1>4

LEMMA RecordedHistories ==
    ASSUME CircuitIInv, NEW c \in Callers, Recorded(c), NEW p \in Configured,
           NEW good, good <=> call[c].err = NoError \/ ~ tripsBreaker(call[c].err)
    PROVE  /\ p = Provider(c) =>
                 /\ breaker'[p] = IF good THEN RecordSuccess(breaker[p]) ELSE RecordFailure(breaker[p])
                 /\ streak'[p] = IF good THEN 0
                                 ELSE IF streak[p] < MaxFailures THEN streak[p] + 1 ELSE streak[p]
                 /\ openAge'[p] = IF breaker[p].state # "open" /\ breaker'[p].state = "open"
                                  THEN 0 ELSE openAge[p]
           /\ p # Provider(c) => streak'[p] = streak[p] /\ openAge'[p] = openAge[p]
<1>1. /\ breaker \in [Configured -> BreakerType] /\ streak \in [Configured -> Nat]
      /\ openAge \in [Configured -> Nat]
  BY DEF CircuitIInv, IInv
<1> DEFINE q == Provider(c)
<1>2. breaker' = [breaker EXCEPT ![q] = IF good THEN RecordSuccess(breaker[q])
                                        ELSE RecordFailure(breaker[q])]
  BY <1>1 DEF Recorded, Record
<1>3. streak' = [streak EXCEPT ![q] = IF good THEN 0
                                      ELSE IF streak[q] < MaxFailures THEN streak[q] + 1 ELSE streak[q]]
  BY <1>1 DEF Recorded
<1>4. openAge' = [openAge EXCEPT ![q] = IF breaker[q].state # "open" /\ breaker'[q].state = "open"
                                        THEN 0 ELSE openAge[q]]
  BY <1>1 DEF Recorded
<1> QED
  BY <1>1, <1>2, <1>3, <1>4

-----------------------------------------------------------------------------
LEMMA InitCircuitIInv == CircuitInit => CircuitIInv
<1> SUFFICES ASSUME CircuitInit
             PROVE  CircuitIInv
  OBVIOUS
<1>1. IInv
  BY InitIInv DEF CircuitInit
<1>2. 0 \in Nat /\ ResetTimeout \in Nat
  BY BreakerConfig
<1>3. \A p \in Configured : probes[p] = {}
  BY DEF CircuitInit
<1> QED
  BY <1>1, <1>2, <1>3 DEF CircuitInit, CircuitIInv

\* Every step of the extended client is one of the client.
LEMMA CircuitNextIsNext == [CircuitNext]_circuitVars => [Next]_vars
<1>1. \A c \in Callers : AtBreaker(c) \/ Recorded(c) \/ Elsewhere(c)
                            => Start(c) \/ Cancel(c) \/ Proceed(c)
  BY DEF AtBreaker, Recorded, Elsewhere, Proceed
<1>2. TimePasses => Tick
  BY DEF TimePasses
<1>3. UNCHANGED circuitVars => UNCHANGED vars
  BY DEF circuitVars, vars
<1> QED
  BY <1>1, <1>2, <1>3 DEF CircuitNext, Next

LEMMA NextCircuitIInv == CircuitIInv /\ [CircuitNext]_circuitVars => CircuitIInv'
<1> SUFFICES ASSUME CircuitIInv, [CircuitNext]_circuitVars
             PROVE  CircuitIInv'
  OBVIOUS
<1>1. IInv'
  BY CircuitNextIsNext, NextIInv DEF CircuitIInv
<1>2. /\ probes \in [Configured -> SUBSET Callers] /\ streak \in [Configured -> Nat]
      /\ openAge \in [Configured -> Nat] /\ 0 \in Nat
      /\ \A p \in Configured : \A c \in probes[p] : Admitted(c, p)
  BY DEF CircuitIInv
<1>3. ASSUME UNCHANGED histories, \A d \in Callers : \A p \in Configured : Admitted(d, p)' <=> Admitted(d, p)
      PROVE  CircuitIInv'
  <2>1. probes' = probes /\ streak' = streak /\ openAge' = openAge
    BY <1>3 DEF histories
  <2>2. ASSUME NEW p \in Configured, NEW d \in probes'[p]
        PROVE  Admitted(d, p)'
    BY <1>2, <1>3, <2>1, <2>2
  <2> QED
    BY <1>1, <1>2, <2>1, <2>2 DEF CircuitIInv
<1>4. CASE UNCHANGED circuitVars
  BY <1>3, <1>4 DEF circuitVars, histories, Admitted, Provider
<1>5. CASE TimePasses
  <2>1. probes' = probes /\ streak' = streak /\ call' = call
        /\ openAge' = [p \in Configured |-> IF openAge[p] < ResetTimeout THEN openAge[p] + 1 ELSE openAge[p]]
    BY <1>5 DEF TimePasses, Tick
  <2>2. openAge' \in [Configured -> Nat]
    BY <1>2, <2>1
  <2>3. \A p \in Configured : \A d \in probes'[p] : Admitted(d, p)'
    BY <1>2, <2>1 DEF Admitted, Provider
  <2> QED
    BY <1>1, <1>2, <2>1, <2>2, <2>3 DEF CircuitIInv
<1>6. ASSUME NEW c \in Callers, AtBreaker(c)
      PROVE  CircuitIInv'
  <2>1. streak' = streak /\ openAge' = openAge
        /\ probes' \in [Configured -> SUBSET Callers]
    <3>1. PICK q \in Configured, isProbe \in BOOLEAN :
             probes' = [probes EXCEPT ![q] = IF isProbe THEN probes[q] \cup {c} ELSE probes[q]]
      BY <1>2, <1>6 DEF AtBreaker, Allowed
    <3>2. streak' = streak /\ openAge' = openAge
      BY <1>6 DEF AtBreaker
    <3>3. probes' \in [Configured -> SUBSET Callers]
      BY <1>2, <3>1
    <3> QED
      BY <3>2, <3>3
  <2>2. ASSUME NEW p \in Configured, NEW d \in probes'[p]
        PROVE  Admitted(d, p)'
    <3>1. CASE d = c
      <4>1. p = Provider(c) /\ Admits(breaker[p])
        BY <1>6, <3>1, <2>2, AtBreakerKeeps, AtBreakerHistories
      <4> QED
        BY <1>6, <3>1, <4>1, AtBreakerKeeps
    <3>2. CASE d # c
      <4>1. d \in probes[p]
        BY <1>6, <2>2, <3>2, AtBreakerHistories
      <4>2. d \in Callers /\ Admitted(d, p)
        BY <1>2, <4>1
      <4> QED
        BY <1>6, <3>2, <4>2, AtBreakerKeeps
    <3> QED
      BY <3>1, <3>2
  <2> QED
    BY <1>1, <1>2, <2>1, <2>2 DEF CircuitIInv
<1>7. ASSUME NEW c \in Callers, Recorded(c)
      PROVE  CircuitIInv'
  <2>1. /\ probes' \in [Configured -> SUBSET Callers] /\ openAge' \in [Configured -> Nat]
        /\ streak' \in [Configured -> Nat]
    <3> DEFINE q == Provider(c)
               half == breaker'[q].state = "half-open"
               good == call[c].err = NoError \/ ~ tripsBreaker(call[c].err)
               opens == breaker[q].state # "open" /\ breaker'[q].state = "open"
               run == IF good THEN 0 ELSE IF streak[q] < MaxFailures THEN streak[q] + 1 ELSE streak[q]
    <3>1. /\ probes' = [probes EXCEPT ![q] = IF half THEN probes[q] \ {c} ELSE {}]
          /\ streak' = [streak EXCEPT ![q] = run]
          /\ openAge' = [openAge EXCEPT ![q] = IF opens THEN 0 ELSE openAge[q]]
      BY <1>2, <1>7 DEF Recorded
    <3>2. q \in Configured => run \in Nat
      BY <1>2
    <3> HIDE DEF q, half, good, opens, run
    <3>3. probes' \in [Configured -> SUBSET Callers] /\ openAge' \in [Configured -> Nat]
      BY <1>2, <3>1
    <3>4. streak' \in [Configured -> Nat]
      BY <1>2, <3>1, <3>2
    <3> QED
      BY <3>2, <3>3, <3>4
  <2>2. ASSUME NEW p \in Configured, NEW d \in probes'[p]
        PROVE  Admitted(d, p)'
    <3>1. p # Provider(c) /\ probes'[p] = probes[p]
      BY <1>7, <2>2, RecordedKeeps
    <3>2. d \in Callers /\ Admitted(d, p)
      BY <1>2, <2>2, <3>1
    <3>3. d # c
      BY <1>7, <3>1, <3>2, RecordedKeeps
    <3> QED
      BY <1>7, <3>2, <3>3, RecordedKeeps
  <2> QED
    BY <1>1, <2>1, <2>2 DEF CircuitIInv
<1>8. ASSUME NEW c \in Callers, Elsewhere(c)
      PROVE  CircuitIInv'
  BY <1>3, <1>8, ElsewhereKeeps DEF CircuitIInv
<1> QED
  BY <1>4, <1>5, <1>6, <1>7, <1>8 DEF CircuitNext

\* The invariant holds of every state, histories included.
THEOREM CircuitInvariance == CircuitSpec => []CircuitIInv
<1> QED
  BY InitCircuitIInv, NextCircuitIInv, PTL DEF CircuitSpec
-----------------------------------------------------------------------------
(* Every circuit of the client is a circuit *)

\* The instance's breaker and errors are those of the client.
LEMMA SameBreaker ==
    ASSUME NEW p, NEW x, NEW err
    PROVE  /\ Circuit(p)!New = New
           /\ Circuit(p)!Admits(x) <=> Admits(x)
           /\ Circuit(p)!Allow(x) = Allow(x)
           /\ Circuit(p)!Older(x) = Older(x)
           /\ Circuit(p)!RecordSuccess(x) = RecordSuccess(x)
           /\ Circuit(p)!RecordFailure(x) = RecordFailure(x)
           /\ Circuit(p)!tripsBreaker(err) <=> tripsBreaker(err)
           /\ Circuit(p)!NoError = NoError
<1>1. Circuit(p)!New = New
  BY DEF Circuit!New, New
<1>2. Circuit(p)!Probing(x) = Probing(x)
  BY DEF Circuit!Probing, Probing
<1>3. Circuit(p)!Admits(x) <=> Admits(x)
  BY <1>2 DEF Circuit!Admits, Admits
<1>4. Circuit(p)!Allow(x) = Allow(x)
  BY <1>2, <1>3 DEF Circuit!Allow, Allow
<1>5. Circuit(p)!Older(x) = Older(x)
  BY DEF Circuit!Older, Older
<1>6. Circuit(p)!RecordSuccess(x) = RecordSuccess(x)
  BY DEF Circuit!RecordSuccess, RecordSuccess
<1>7. Circuit(p)!RecordFailure(x) = RecordFailure(x)
  BY DEF Circuit!RecordFailure, RecordFailure
<1>8. Circuit(p)!NoError = NoError
  BY DEF Circuit!NoError, NoError
<1>9. Circuit(p)!tripsBreaker(err) <=> tripsBreaker(err)
  BY DEF Circuit!tripsBreaker, tripsBreaker
<1> QED
  BY <1>1, <1>3, <1>4, <1>5, <1>6, <1>7, <1>8, <1>9

\* At the start no call is admitted anywhere.
LEMMA CircuitInitial ==
    ASSUME CircuitInit, NEW p \in Configured
    PROVE  Circuit(p)!Init
<1>1. breaker[p] = Circuit(p)!New
  BY SameBreaker DEF CircuitInit, Init
<1>2. CallAt(p) = [c \in Callers |-> "idle"]
  <2>1. \A c \in Callers : call[c].pc = "idle"
    BY DEF CircuitInit, Init, NoCall, NewCall
  <2> QED
    BY <2>1 DEF CallAt, Admitted
<1> QED
  BY <1>1, <1>2 DEF CircuitInit, Circuit!Init

\* What the circuit of p sees of a caller follows from its admission and from
\* the probes.
LEMMA SeenAt ==
    ASSUME NEW p, NEW d \in Callers
    PROVE  /\ CallAt(p)[d] = IF ~ Admitted(d, p) THEN "idle"
                             ELSE IF d \in probes[p] THEN "probe" ELSE "ordinary"
           /\ CallAt(p)'[d] = IF ~ Admitted(d, p)' THEN "idle"
                              ELSE IF d \in probes'[p] THEN "probe" ELSE "ordinary"
BY DEF CallAt

LEMMA CallAtKeeps ==
    ASSUME NEW p \in Configured, probes'[p] = probes[p],
           \A d \in Callers : Admitted(d, p)' <=> Admitted(d, p)
    PROVE  CallAt(p)' = CallAt(p)
BY DEF CallAt

LEMMA AtBreakerMaps ==
    ASSUME CircuitIInv, NEW c \in Callers, AtBreaker(c), NEW p \in Configured
    PROVE  Circuit(p)!Next \/ UNCHANGED Circuit(p)!vars
<1>1. streak'[p] = streak[p] /\ openAge'[p] = openAge[p]
  BY AtBreakerHistories
<1>2. CASE p # Provider(c)
  <2>1. breaker'[p] = breaker[p] /\ probes'[p] = probes[p]
    BY <1>2, AtBreakerHistories
  <2>2. \A d \in Callers : Admitted(d, p)' <=> Admitted(d, p)
    BY <1>2, AtBreakerKeeps
  <2>3. CallAt(p)' = CallAt(p)
    BY <2>1, <2>2, CallAtKeeps
  <2> QED
    BY <1>1, <2>1, <2>3 DEF Circuit!vars
<1>3. CASE p = Provider(c) /\ ~ Admits(breaker[p])
  <2>1. breaker'[p] = Allow(breaker[p]) /\ probes'[p] = probes[p]
    BY <1>3, AtBreakerHistories
  <2>2. \A d \in Callers : Admitted(d, p)' <=> Admitted(d, p)
    BY <1>3, AtBreakerKeeps
  <2>3. CallAt(p)' = CallAt(p)
    BY <2>1, <2>2, CallAtKeeps
  <2>4. CallAt(p)[c] = "idle"
    BY SeenAt, AtBreakerKeeps
  <2>5. Circuit(p)!Reject(c)
    BY <1>1, <1>3, <2>1, <2>3, <2>4, SameBreaker DEF Circuit!Reject
  <2> QED
    BY <2>5 DEF Circuit!Next
<1>4. CASE p = Provider(c) /\ Admits(breaker[p])
  <2> DEFINE half == Allow(breaker[p]).state = "half-open"
  <2>1. breaker'[p] = Allow(breaker[p]) /\ probes'[p] = IF half THEN probes[p] \cup {c} ELSE probes[p]
    BY <1>4, AtBreakerHistories
  <2>2. /\ Admitted(c, p)' /\ c \notin probes[p] /\ ~ Admitted(c, p)
        /\ \A d \in Callers \ {c} : Admitted(d, p)' <=> Admitted(d, p)
    BY <1>4, AtBreakerKeeps
  <2> HIDE DEF half
  <2>3. CallAt(p)' = [CallAt(p) EXCEPT ![c] = IF half THEN "probe" ELSE "ordinary"]
    BY <2>1, <2>2 DEF CallAt
  <2>4. CallAt(p)[c] = "idle"
    BY <2>2, SeenAt
  <2>5. /\ Circuit(p)!Admits(breaker[p]) /\ breaker'[p] = Circuit(p)!Allow(breaker[p])
        /\ half <=> Circuit(p)!Allow(breaker[p]).state = "half-open"
    BY <1>4, <2>1, SameBreaker DEF half
  <2>6. CallAt(p)' = [CallAt(p) EXCEPT ![c] =
                        IF Circuit(p)!Allow(breaker[p]).state = "half-open" THEN "probe" ELSE "ordinary"]
    BY <2>3, <2>5
  <2>7. Circuit(p)!Admit(c)
    BY <1>1, <2>4, <2>5, <2>6 DEF Circuit!Admit
  <2> QED
    BY <2>7 DEF Circuit!Next
<1> QED
  BY <1>2, <1>3, <1>4

LEMMA RecordedMaps ==
    ASSUME CircuitIInv, NEW c \in Callers, Recorded(c), NEW p \in Configured
    PROVE  Circuit(p)!Next \/ UNCHANGED Circuit(p)!vars
<1>1. PICK good \in BOOLEAN : good <=> call[c].err = NoError \/ ~ tripsBreaker(call[c].err)
  OBVIOUS
<1>2. CASE p # Provider(c)
  <2>1. breaker'[p] = breaker[p] /\ probes'[p] = probes[p]
    BY <1>2, RecordedKeeps
  <2>2. \A d \in Callers : Admitted(d, p)' <=> Admitted(d, p)
    BY <1>2, RecordedKeeps
  <2>3. CallAt(p)' = CallAt(p)
    BY <2>1, <2>2, CallAtKeeps
  <2>4. streak'[p] = streak[p] /\ openAge'[p] = openAge[p]
    BY <1>1, <1>2, RecordedHistories
  <2> QED
    BY <2>1, <2>3, <2>4 DEF Circuit!vars
<1>3. CASE p = Provider(c)
  <2>1. PICK err \in Errs : err = call[c].err
    BY CallFacts, Fields DEF CircuitIInv
  <2>2. /\ Admitted(c, p) /\ ~ Admitted(c, p)'
        /\ \A d \in Callers \ {c} : Admitted(d, p)' <=> Admitted(d, p)
        /\ breaker'[p].state # "half-open" /\ probes'[p] = {}
    BY <1>3, RecordedKeeps
  <2>3. CallAt(p)[c] # "idle"
    BY <2>2, SeenAt
  <2>4. CallAt(p)' = [d \in Callers |-> IF d = c THEN "idle"
                        ELSE IF breaker'[p].state # "half-open" /\ CallAt(p)[d] = "probe" THEN "ordinary"
                        ELSE CallAt(p)[d]]
    <3>1. \A d \in Callers \ {c} : CallAt(p)'[d] = IF CallAt(p)[d] = "probe" THEN "ordinary"
                                                   ELSE CallAt(p)[d]
      BY <2>2, SeenAt
    <3>2. CallAt(p)'[c] = "idle"
      BY <2>2, SeenAt
    <3>3. CallAt(p)' = [d \in Callers |-> CallAt(p)'[d]]
      BY DEF CallAt
    <3> QED
      BY <2>2, <3>1, <3>2, <3>3
  <2>5. /\ breaker'[p] = IF good THEN RecordSuccess(breaker[p]) ELSE RecordFailure(breaker[p])
        /\ streak'[p] = IF good THEN 0
                        ELSE IF streak[p] < MaxFailures THEN streak[p] + 1 ELSE streak[p]
        /\ openAge'[p] = IF breaker[p].state # "open" /\ breaker'[p].state = "open"
                         THEN 0 ELSE openAge[p]
    BY <1>1, <1>3, RecordedHistories
  <2>6. good <=> err = Circuit(p)!NoError \/ ~ Circuit(p)!tripsBreaker(err)
    BY <1>1, <2>1, SameBreaker
  <2>7. breaker'[p] = Circuit(p)!recorded(err)
    BY <2>5, <2>6, SameBreaker DEF Circuit!recorded
  <2>8. streak'[p] = IF err = Circuit(p)!NoError \/ ~ Circuit(p)!tripsBreaker(err) THEN 0
                     ELSE IF streak[p] < MaxFailures THEN streak[p] + 1 ELSE streak[p]
    BY <2>5, <2>6
  <2>9. Circuit(p)!Record(c, err)
    BY <2>3, <2>4, <2>5, <2>7, <2>8 DEF Circuit!Record
  <2> QED
    BY <2>9 DEF Circuit!Next, Errs
<1> QED
  BY <1>2, <1>3

LEMMA TimePassesMaps ==
    ASSUME CircuitIInv, TimePasses, NEW p \in Configured
    PROVE  Circuit(p)!Next
<1>1. /\ breaker'[p] = Older(breaker[p]) /\ probes'[p] = probes[p] /\ streak'[p] = streak[p]
      /\ openAge'[p] = IF openAge[p] < ResetTimeout THEN openAge[p] + 1 ELSE openAge[p]
  BY DEF TimePasses, Tick
<1>2. CallAt(p)' = CallAt(p)
  BY DEF TimePasses, Tick, CallAt, Admitted, Provider
<1>3. Circuit(p)!Tick
  BY <1>1, <1>2, SameBreaker DEF Circuit!Tick
<1> QED
  BY <1>3 DEF Circuit!Next

\* Every step of the client is a step of the circuit of p, or none for it.
LEMMA CircuitStep ==
    ASSUME CircuitIInv, [CircuitNext]_circuitVars, NEW p \in Configured
    PROVE  [Circuit(p)!Next]_(Circuit(p)!vars)
<1>1. CASE UNCHANGED circuitVars
  <2>1. CallAt(p)' = CallAt(p)
    BY <1>1 DEF circuitVars, CallAt, Admitted, Provider
  <2> QED
    BY <1>1, <2>1 DEF circuitVars, Circuit!vars
<1>2. CASE TimePasses
  BY <1>2, TimePassesMaps
<1>3. ASSUME NEW c \in Callers, AtBreaker(c) \/ Recorded(c)
      PROVE  Circuit(p)!Next \/ UNCHANGED Circuit(p)!vars
  BY <1>3, AtBreakerMaps, RecordedMaps
<1>4. ASSUME NEW c \in Callers, Elsewhere(c)
      PROVE  UNCHANGED Circuit(p)!vars
  <2>1. /\ breaker' = breaker /\ probes' = probes /\ streak' = streak /\ openAge' = openAge
        /\ \A d \in Callers : Admitted(d, p)' <=> Admitted(d, p)
    BY <1>4, ElsewhereKeeps DEF CircuitIInv, histories
  <2>2. CallAt(p)' = CallAt(p)
    BY <2>1, CallAtKeeps
  <2> QED
    BY <2>1, <2>2 DEF Circuit!vars
<1> QED
  BY <1>1, <1>2, <1>3, <1>4 DEF CircuitNext

\* However calls interleave, retry, fall back, lack a capability or are
\* cancelled, each provider's circuit sees callers that ask it once and, once
\* admitted, report exactly one outcome (circuit.go:32-66, client.go:330-363).
THEOREM CircuitsImplemented == CircuitSpec => CircuitsAreCircuits
<1>1. CircuitInit => \A p \in Configured : Circuit(p)!Init
  BY CircuitInitial
<1>2. CircuitIInv /\ [CircuitNext]_circuitVars
        => [CircuitsStep]_circuitVars
  BY CircuitStep DEF CircuitsStep
<1> QED
  BY <1>1, <1>2, CircuitInvariance, PTL DEF CircuitSpec, CircuitsAreCircuits

\* The same of one provider, as an implementation of CircuitBreaker: what
\* holds of every behaviour of that module holds of the circuit of p.
THEOREM CircuitImplemented ==
    ASSUME NEW p \in Configured
    PROVE  CircuitSpec => Circuit(p)!Spec
<1>1. CircuitInit => Circuit(p)!Init
  BY CircuitInitial
<1>2. CircuitIInv /\ [CircuitNext]_circuitVars => [Circuit(p)!Next]_(Circuit(p)!vars)
  BY CircuitStep
<1> QED
  BY <1>1, <1>2, CircuitInvariance, PTL DEF CircuitSpec, Circuit!Spec
=============================================================================
