---------------------------- MODULE RequestPolicy ----------------------------
(***************************************************************************)
(* The gateway layer in front of every completion: request_policy.go,      *)
(* request_limits.go, request_clone.go and request_snapshot.go, as         *)
(* Client.Complete and Client.Stream apply them to each provider of the    *)
(* fallback chain.                                                         *)
(*                                                                         *)
(* A Go request is a value full of pointers.  Here it is a function from   *)
(* its mutable parts to the addresses of cells in a heap, so that a copy   *)
(* that is not deep enough is a shared cell.  Several calls run at once on *)
(* one request of the caller.                                              *)
(*                                                                         *)
(* A text is a record: does it begin with the billing header, the cch      *)
(* marker in it, and the rest.  Of the cache options there are the key, as *)
(* the sequence of its parts, and the retention.                           *)
(***************************************************************************)
EXTENDS Errors, Sequences, FiniteSets

CONSTANTS Calls,      \* calls running at once
          Chain,      \* providers tried in turn
          Policies,   \* configurations of the policy
          Requests,   \* contents of the caller's request
          SizeOf,     \* bytes of a marker, or of the rest of a text
          Nil         \* no value

VARIABLES policy,     \* of this client
          original,   \* what the caller put in its request
          heap,       \* contents of the cells
          call        \* the calls

vars == <<policy, original, heap, call>>

Parts == {"store", "key", "retention", "text"}
Caller == <<Nil, 0>>
Owners == {Caller} \cup (Calls \X (0..Len(Chain)))
Addresses == Owners \X Parts

\* A request has all its parts, and a text its three.
IsRequest(v) ==
    /\ v = [store |-> v.store, key |-> v.key, retention |-> v.retention, text |-> v.text]
    /\ v.text = [header |-> v.text.header, cch |-> v.text.cch, rest |-> v.text.rest]

\* No value is none of the calls and no address; the chain is the client's own
\* provider and those it may fall back to.
ASSUME PolicyAssumption ==
    /\ Nil \notin Calls /\ Nil \notin Addresses
    /\ Len(Chain) \in Nat \ {0}
    /\ \A v \in Requests : IsRequest(v)

\* What a request says, part by part.
Contents(h, req) == [p \in Parts |-> IF req[p] = Nil THEN Nil ELSE h[req[p]]]

CallerRequest(v) == [p \in Parts |-> IF v[p] = Nil THEN Nil ELSE <<Caller, p>>]

TypeOK ==
    /\ policy \in Policies /\ original \in Requests
    /\ DOMAIN heap = Addresses
    /\ \A c \in Calls :
          /\ call[c].pc \in {"start", "attempt", "report", "send", "wait", "done"}
          /\ call[c].at \in 0..Len(Chain)
          /\ \A p \in Parts : call[c].base[p] \in Addresses \cup {Nil}
          /\ \A p \in Parts : call[c].req[p] \in Addresses \cup {Nil}
          /\ Len(call[c].reports) <= Len(Chain) /\ Len(call[c].sent) <= Len(Chain)
-----------------------------------------------------------------------------
(* request_clone.go: the cells a clone of req has for its own. *)

\* Mutant of Clone: a text behind a pointer is shared.
CloneSharesText(h, req, owner) ==
    [p \in Parts |-> IF req[p] = Nil \/ p = "text" THEN req[p] ELSE <<owner, p>>]

Clone(h, req, owner) == [p \in Parts |-> IF req[p] = Nil THEN Nil ELSE <<owner, p>>]

\* h with the contents v in the cells of req.
Store(h, req, v) ==
    [a \in DOMAIN h |-> IF \E p \in Parts : req[p] = a
                        THEN v[CHOOSE p \in Parts : req[p] = a] ELSE h[a]]
-----------------------------------------------------------------------------
(* request_limits.go *)

TextBytes(text) == (IF text.cch = Nil THEN 0 ELSE SizeOf[text.cch]) + SizeOf[text.rest]

\* Every size is compared in the same way; the text's is the one a policy changes.
Validate(v) == policy.maxText > 0 => TextBytes(v.text) <= policy.maxText
-----------------------------------------------------------------------------
(* request_policy.go: what the policy makes of a request's contents. *)

SetsStore(v) == policy.store # Nil /\ v.store = Nil

defaults(v) ==
    IF SetsStore(v) THEN [v EXCEPT !.store = policy.store] ELSE v

\* Empty parts are ignored.
BuildPromptCacheKey(parts) == SelectSeq(parts, LAMBDA part : part # "")

derivedKey(provider) ==
    LET parts == BuildPromptCacheKey(<<policy.scope, policy.client>>
                     \o (IF policy.includeProvider THEN <<provider>> ELSE <<>>))
    IN IF parts = <<>> THEN <<provider>> ELSE parts

\* Options without a key and no options at all read alike; the policy leaves
\* the former.
SetsKey(v) == policy.cache /\ (v.key \in {Nil, <<>>} \/ policy.override)
SetsRetention(v) == policy.cache /\ policy.retention # Nil /\ v.retention = Nil

promptCache(provider, v) ==
    [v EXCEPT !.retention = IF SetsRetention(v) THEN policy.retention ELSE @,
              !.key = IF ~ SetsKey(v) THEN @
                      ELSE IF policy.key # <<>> THEN BuildPromptCacheKey(policy.key)
                      ELSE derivedKey(provider)]

\* The marker of a billing header at the start of a system prompt.
cacheBreaker(v) ==
    IF policy.breaker /\ v.text.header /\ v.text.cch # Nil
    THEN [v EXCEPT !.text.cch = policy.replacement] ELSE v

\* Mutant of Governed: the size is checked before the rewriting only.
GovernedFirstCheck(provider, v) ==
    IF ~ Validate(v) THEN [ok |-> FALSE, value |-> v]
    ELSE [ok |-> TRUE, value |-> cacheBreaker(promptCache(provider, defaults(v)))]

\* ApplyContext up to the report.
Governed(provider, v) ==
    IF ~ Validate(v) THEN [ok |-> FALSE, value |-> v]
    ELSE LET w == cacheBreaker(promptCache(provider, defaults(v)))
         IN [ok |-> Validate(w), value |-> w]
-----------------------------------------------------------------------------
(* request_snapshot.go *)

\* A salted hash tells values apart and nothing else.
hash(value) == <<"hash", policy.salt, value>>

\* Mutant of optionalHash: texts are always hashed.
optionalHashAlways(text) == hash(text)

optionalHash(text) == IF policy.includeText THEN hash(text) ELSE Nil

SnapshotRequest(provider, v) ==
    [provider |-> provider, textBytes |-> TextBytes(v.text),
     textHash |-> optionalHash(v.text),
     keyHash |-> IF v.key \in {Nil, <<>>} THEN Nil ELSE hash(v.key),
     retention |-> v.retention, store |-> v.store]

\* The fingerprint covers what the snapshot shows, and no more of the parts here.
FingerprintRequest(provider, v) == hash(SnapshotRequest(provider, v))

\* The changes that the steps of the policy add to the report, each its own: a
\* default and a retention that are set, a key that is set if to the same, and
\* a text that is rewritten to another.
Changes(v) ==
    {p \in Parts : CASE p = "store" -> SetsStore(v)
                     [] p = "retention" -> SetsRetention(v)
                     [] p = "key" -> SetsKey(v)
                     [] p = "text" -> cacheBreaker(v) # v}

ReportOn(provider, before, governed) ==
    [rejected |-> ~ governed.ok,
     error |-> IF governed.ok THEN Nil ELSE TextBytes(governed.value.text),
     changes |-> IF Validate(before) THEN Changes(before) ELSE {},
     snapshot |-> SnapshotRequest(provider, governed.value),
     fingerprint |-> FingerprintRequest(provider, governed.value)]
-----------------------------------------------------------------------------
(* Complete and Stream *)

Init ==
    /\ policy \in Policies /\ original \in Requests
    /\ heap = Store([a \in Addresses |-> Nil], CallerRequest(original), original)
    /\ call = [c \in Calls |->
                 [pc |-> "start", at |-> 0, base |-> CallerRequest(original),
                  req |-> CallerRequest(original), ok |-> TRUE, reports |-> <<>>,
                  missed |-> 0, sent |-> <<>>]]

\* base := CloneRequest(req)
Begin(c) ==
    /\ call[c].pc = "start"
    /\ LET base == Clone(heap, call[c].base, <<c, 0>>)
       IN /\ heap' = Store(heap, base, Contents(heap, call[c].base))
          /\ call' = [call EXCEPT ![c].pc = "attempt", ![c].base = base]
    /\ UNCHANGED <<policy, original>>

\* Mutant of Attempt: the chain works on one request.
AttemptOnBase(c) ==
    /\ call[c].pc = "attempt"
    /\ LET at == call[c].at + 1
           req == call[c].base
           before == Contents(heap, req)
           governed == Governed(Chain[at], before)
           owned == [p \in Parts |-> IF governed.value[p] = Nil THEN Nil
                                     ELSE IF req[p] = Nil THEN <<<<c, 0>>, p>> ELSE req[p]]
       IN /\ heap' = Store(heap, owned, governed.value)
          /\ call' = [call EXCEPT ![c].pc = "report", ![c].at = at, ![c].req = owned,
                                  ![c].base = owned, ![c].ok = governed.ok,
                                  ![c].reports = Append(@, ReportOn(Chain[at], before, governed))]
    /\ UNCHANGED <<policy, original>>

\* The next provider: r := CloneRequest(&base), and the policy writes to r. A
\* part that was nil gets a cell, the others are written where they are.
Attempt(c) ==
    /\ call[c].pc = "attempt"
    /\ LET at == call[c].at + 1
           req == Clone(heap, call[c].base, <<c, at>>)
           before == Contents(heap, call[c].base)
           governed == Governed(Chain[at], before)
           owned == [p \in Parts |-> IF governed.value[p] = Nil THEN Nil
                                     ELSE IF req[p] = Nil THEN <<<<c, at>>, p>> ELSE req[p]]
       IN /\ heap' = Store(heap, owned, governed.value)
          /\ call' = [call EXCEPT ![c].pc = "report", ![c].at = at, ![c].req = owned,
                                  ![c].ok = governed.ok,
                                  ![c].reports = Append(@, ReportOn(Chain[at], before, governed))]
    /\ UNCHANGED <<policy, original>>

\* The reporter takes the report or fails.  A rejection or a failure that
\* counts ends the call: the policy's errors do not fall back.
Report(c) ==
    /\ call[c].pc = "report"
    /\ \E failed \in BOOLEAN :
          call' = [call EXCEPT ![c].missed = IF failed THEN @ + 1 ELSE @,
                               ![c].pc = IF call[c].ok /\ ~ (failed /\ policy.strict)
                                         THEN "send" ELSE "done"]
    /\ UNCHANGED <<policy, original, heap>>

\* The adapter reads the request; other calls run meanwhile.
Send(c) ==
    /\ call[c].pc = "send"
    /\ call' = [call EXCEPT ![c].pc = "wait",
                            ![c].sent = Append(@, Contents(heap, call[c].req))]
    /\ UNCHANGED <<policy, original, heap>>

\* The provider serves the call, or fails and the next one may be tried.
Answer(c) ==
    /\ call[c].pc = "wait"
    /\ \E e \in {NoError, parseError(400), parseError(503)} :
          call' = [call EXCEPT ![c].pc =
                      IF e # NoError /\ IsFallback(e) /\ call[c].at < Len(Chain)
                      THEN "attempt" ELSE "done"]
    /\ UNCHANGED <<policy, original, heap>>

Next == \E c \in Calls : Begin(c) \/ Attempt(c) \/ Report(c) \/ Send(c) \/ Answer(c)

Spec == Init /\ [][Next]_vars
-----------------------------------------------------------------------------
\* "without mutating caller" (request_policy_test.go:198), not even through a
\* pointer in its content: what the caller's request says never changes,
\* however many calls govern copies of it.
CallerUntouched == Contents(heap, CallerRequest(original)) = original

\* Every provider gets what the policy makes of the caller's own request for
\* that provider, so neither a fallback nor a concurrent call sees a key that
\* was derived, or a text that was rewritten, for another (client.go:338-339).
EachProviderAfresh ==
    \A c \in Calls : \A i \in 1..Len(call[c].sent) :
        call[c].sent[i] = Governed(Chain[i], original).value

\* The audit is exact: the report that preceded a request shows the fingerprint
\* of what was sent and, from what each step of the rewriting says of itself,
\* names all that differs in the end from the caller's request; what
\* was over a limit, after the rewriting too, was reported and not sent; and a
\* strict policy sends nothing the reporter missed (request_policy.go:69-111).
AuditIsExact ==
    \A c \in Calls :
        /\ policy.strict => Len(call[c].sent) + call[c].missed <= Len(call[c].reports)
        /\ \A i \in 1..Len(call[c].sent) :
              LET sent == call[c].sent[i] report == call[c].reports[i]
              IN /\ report.fingerprint = FingerprintRequest(Chain[i], sent)
                 /\ {p \in Parts : sent[p] # original[p]} \subseteq report.changes
                 /\ ~ report.rejected
                 /\ policy.maxText > 0 => TextBytes(sent.text) <= policy.maxText

\* "The returned report contains only metadata, hashes, counters, and change
\* names" (request_policy.go:61-63): a request that differs in its text only,
\* has as many bytes and is rewritten alike has the same report, unless the
\* policy includes the text's hash.
SameButForText(v, w) ==
    /\ v.store = w.store /\ v.key = w.key /\ v.retention = w.retention
    /\ TextBytes(v.text) = TextBytes(w.text)
    /\ \A x \in {v, w} : cacheBreaker(x) = x

ReportsHideText ==
    ~ policy.includeText =>
        \A c \in Calls : \A i \in 1..Len(call[c].reports) :
            \A w \in Requests :
                SameButForText(original, w) =>
                    call[c].reports[i] = ReportOn(Chain[i], w, Governed(Chain[i], w))
=============================================================================
