------------------------ MODULE RequestPolicy_proofs ------------------------
(***************************************************************************)
(* The safety properties of RequestPolicy, for every number of calls on    *)
(* one request, every chain, every configuration of the policy and every   *)
(* request.                                                                *)
(***************************************************************************)
EXTENDS RequestPolicy, SequenceTheorems, TLAPS

\* The request whose parts, those that v has, are cells of the owner.
Owned(owner, v) == [p \in Parts |-> IF v[p] = Nil THEN Nil ELSE <<owner, p>>]

\* The owner's cells say what v says.
Holds(owner, v) == \A p \in Parts : v[p] # Nil => heap[<<owner, p>>] = v[p]

\* What the policy makes of the caller's request for the i-th provider, and
\* the report on it.
ForProvider(i) == Governed(Chain[i], original)
Audit(i) == ReportOn(Chain[i], original, ForProvider(i))

Values == {ForProvider(i).value : i \in 1..Len(Chain)}
Audits == {Audit(i) : i \in 1..Len(Chain)}

CallType ==
    [pc : {"start", "attempt", "report", "send", "wait", "done"}, at : 0..Len(Chain),
     base : [Parts -> Addresses \cup {Nil}], req : [Parts -> Addresses \cup {Nil}],
     ok : BOOLEAN, reports : Seq(Audits), missed : Nat, sent : Seq(Values)]

\* The providers that were sent the request, when a call is at its step.
SentSoFar(r) == IF r.pc \in {"report", "send"} THEN r.at - 1 ELSE r.at

\* A call works on a copy that only it writes to, and its copy for the
\* current provider is again another.
OwnsCopies(c) ==
    LET r == call[c]
    IN  /\ r.base = Owned(IF r.pc = "start" THEN Caller ELSE <<c, 0>>, original)
        /\ r.pc = "start" => r.at = 0
        /\ r.pc # "start" => Holds(<<c, 0>>, original)
        /\ r.pc \in {"report", "send"} =>
              /\ r.at >= 1
              /\ r.req = Owned(<<c, r.at>>, ForProvider(r.at).value)
              /\ Holds(<<c, r.at>>, ForProvider(r.at).value)
        /\ r.pc = "attempt" => r.at < Len(Chain)

\* What was reported and sent, provider by provider.
Recorded(c) ==
    LET r == call[c]
    IN  /\ Len(r.reports) = r.at
        /\ \A i \in 1..Len(r.reports) : r.reports[i] = Audit(i)
        /\ r.pc = "report" => r.ok = ForProvider(r.at).ok
        /\ r.pc = "send" => ForProvider(r.at).ok
        /\ Len(r.sent) <= r.at
        /\ r.pc # "done" => Len(r.sent) = SentSoFar(r)
        /\ \A i \in 1..Len(r.sent) : r.sent[i] = ForProvider(i).value /\ ForProvider(i).ok
        /\ policy.strict => /\ Len(r.sent) + r.missed <= r.at
                            /\ r.pc # "done" => r.missed = 0

IInv ==
    /\ policy \in Policies /\ original \in Requests
    /\ DOMAIN heap = Addresses
    /\ call \in [Calls -> CallType]
    /\ Holds(Caller, original)
    /\ \A c \in Calls : OwnsCopies(c) /\ Recorded(c)
-----------------------------------------------------------------------------
(* Cells *)

\* An owner's cells are addresses, and no value.
LEMMA Cells ==
    ASSUME NEW owner \in Owners, NEW p \in Parts
    PROVE  <<owner, p>> \in Addresses /\ <<owner, p>> # Nil
<1>1. <<owner, p>> \in Addresses
  BY DEF Addresses
<1> QED
  BY <1>1, PolicyAssumption

\* The caller and the copies of the calls are owners, each another than the
\* others.
LEMMA OwnersApart ==
    /\ Caller \in Owners
    /\ \A c \in Calls : \A i \in 0..Len(Chain) : <<c, i>> \in Owners /\ <<c, i>> # Caller
BY PolicyAssumption DEF Owners, Caller

\* Storing writes what the owner's parts say to the owner's cells, and leaves
\* the cells of everyone else (request_clone.go:9-75).
LEMMA StoreReads ==
    ASSUME NEW h, DOMAIN h = Addresses, NEW owner \in Owners, NEW v
    PROVE  /\ DOMAIN Store(h, Owned(owner, v), v) = Addresses
           /\ \A p \in Parts : v[p] # Nil => Store(h, Owned(owner, v), v)[<<owner, p>>] = v[p]
           /\ \A other \in Owners : \A p \in Parts :
                 other # owner => Store(h, Owned(owner, v), v)[<<other, p>>] = h[<<other, p>>]
<1> DEFINE own == Owned(owner, v)
           g == Store(h, own, v)
<1>1. \A p \in Parts : own[p] = IF v[p] = Nil THEN Nil ELSE <<owner, p>>
  BY DEF Owned
<1> HIDE DEF own
<1>2. /\ DOMAIN g = Addresses
      /\ \A a \in Addresses :
            g[a] = IF \E p \in Parts : own[p] = a THEN v[CHOOSE p \in Parts : own[p] = a] ELSE h[a]
  BY DEF Store
<1> HIDE DEF g
<1>3. ASSUME NEW p \in Parts, v[p] # Nil
      PROVE  g[<<owner, p>>] = v[p]
  <2>1. <<owner, p>> \in Addresses /\ own[p] = <<owner, p>>
    BY <1>1, <1>3, Cells
  <2>2. \A q \in Parts : own[q] = <<owner, p>> => q = p
    <3> SUFFICES ASSUME NEW q \in Parts, own[q] = <<owner, p>>
                 PROVE  q = p
      OBVIOUS
    <3>1. own[q] # Nil
      BY Cells
    <3>2. own[q] = <<owner, q>>
      BY <1>1, <3>1
    <3> QED
      BY <3>2
  <2>3. (CHOOSE q \in Parts : own[q] = <<owner, p>>) = p
    BY <2>1, <2>2
  <2> QED
    BY <1>2, <2>1, <2>3
<1>4. ASSUME NEW other \in Owners, NEW p \in Parts, other # owner
      PROVE  g[<<other, p>>] = h[<<other, p>>]
  <2>1. <<other, p>> \in Addresses /\ <<other, p>> # Nil
    BY Cells
  <2>2. ASSUME NEW q \in Parts, own[q] = <<other, p>>
        PROVE  FALSE
    <3>1. own[q] # Nil
      BY <2>1, <2>2
    <3>2. own[q] = <<owner, q>>
      BY <1>1, <3>1
    <3> QED
      BY <1>4, <2>2, <3>2
  <2> QED
    BY <1>2, <2>1, <2>2
<1> QED
  BY <1>2, <1>3, <1>4 DEF g, own

\* A request is the parts it has.
LEMMA PartsOfRequest ==
    ASSUME NEW v, IsRequest(v)
    PROVE  /\ v = [p \in Parts |-> v[p]]
           /\ v["store"] = v.store /\ v["key"] = v.key
           /\ v["retention"] = v.retention /\ v["text"] = v.text
BY DEF IsRequest, Parts

\* Cells that hold a request read as that request.
LEMMA ContentsOfOwned ==
    ASSUME NEW h, NEW owner \in Owners, NEW v, IsRequest(v),
           \A p \in Parts : v[p] # Nil => h[<<owner, p>>] = v[p]
    PROVE  Contents(h, Owned(owner, v)) = v
<1> DEFINE own == Owned(owner, v)
<1>1. \A p \in Parts : own[p] = IF v[p] = Nil THEN Nil ELSE <<owner, p>>
  BY DEF Owned
<1> HIDE DEF own
<1>2. ASSUME NEW p \in Parts
      PROVE  (IF own[p] = Nil THEN Nil ELSE h[own[p]]) = v[p]
  <2>1. CASE v[p] = Nil
    BY <1>1, <2>1
  <2>2. CASE v[p] # Nil
    <3>1. own[p] = <<owner, p>> /\ own[p] # Nil
      BY <1>1, <2>2, Cells
    <3> QED
      BY <2>2, <3>1
  <2> QED
    BY <2>1, <2>2
<1>3. Contents(h, own) = [p \in Parts |-> v[p]]
  BY <1>2 DEF Contents
<1>4. v = [p \in Parts |-> v[p]]
  BY PartsOfRequest
<1> QED
  BY <1>3, <1>4 DEF own

\* A clone has a cell of its new owner for each part.
LEMMA CloneOfOwned ==
    ASSUME NEW h, NEW owner \in Owners, NEW to \in Owners, NEW v
    PROVE  Clone(h, Owned(owner, v), to) = Owned(to, v)
<1> DEFINE own == Owned(owner, v)
<1>1. \A p \in Parts : own[p] = IF v[p] = Nil THEN Nil ELSE <<owner, p>>
  BY DEF Owned
<1>2. \A p \in Parts : own[p] = Nil <=> v[p] = Nil
  BY <1>1, Cells
<1> HIDE DEF own
<1>3. Clone(h, own, to) = [p \in Parts |-> IF v[p] = Nil THEN Nil ELSE <<to, p>>]
  BY <1>2 DEF Clone
<1> QED
  BY <1>3 DEF own, Owned

LEMMA OwnedTyping ==
    ASSUME NEW owner \in Owners, NEW v
    PROVE  Owned(owner, v) \in [Parts -> Addresses \cup {Nil}]
BY Cells DEF Owned
-----------------------------------------------------------------------------
(* The policy *)

\* The cache policy sets the options of the cache and nothing else.
LEMMA CacheOptions ==
    ASSUME NEW v, IsRequest(v), NEW provider, NEW x, x = promptCache(provider, v)
    PROVE  /\ IsRequest(x) /\ x.store = v.store /\ x.text = v.text
           /\ ~ SetsKey(v) => x.key = v.key
           /\ ~ SetsRetention(v) => x.retention = v.retention
<1> DEFINE key == IF ~ SetsKey(v) THEN v.key
                  ELSE IF policy.key # <<>> THEN BuildPromptCacheKey(policy.key)
                  ELSE derivedKey(provider)
           kept == IF SetsRetention(v) THEN policy.retention ELSE v.retention
           r == [v EXCEPT !.retention = kept]
<1>1. x = [r EXCEPT !.key = key]
  BY DEF promptCache
<1>2. (~ SetsKey(v) => key = v.key) /\ (~ SetsRetention(v) => kept = v.retention)
  OBVIOUS
<1> HIDE DEF key, kept
<1>3. r = [store |-> v.store, key |-> v.key, retention |-> kept, text |-> v.text]
  BY DEF IsRequest
<1> HIDE DEF r
<1>4. x = [store |-> v.store, key |-> key, retention |-> kept, text |-> v.text]
  BY <1>1, <1>3
<1>5. v.text = [header |-> v.text.header, cch |-> v.text.cch, rest |-> v.text.rest]
  BY DEF IsRequest
<1>6. x.store = v.store /\ x.key = key /\ x.retention = kept /\ x.text = v.text
  BY <1>4
<1>7. IsRequest(x)
  BY <1>4, <1>5, <1>6 DEF IsRequest
<1> QED
  BY <1>2, <1>6, <1>7

\* What the policy makes of a request is a request, and whether it may be sent
\* is decided (request_policy.go:69-111).
LEMMA GovernedIsRequest ==
    ASSUME NEW v, IsRequest(v), NEW provider
    PROVE  /\ IsRequest(Governed(provider, v).value)
           /\ Governed(provider, v).ok \in BOOLEAN
<1>1. IsRequest(defaults(v))
  BY DEF defaults, SetsStore, IsRequest
<1>2. ASSUME NEW x, IsRequest(x)
      PROVE  IsRequest(promptCache(provider, x))
  BY <1>2, CacheOptions
<1>3. ASSUME NEW x, IsRequest(x)
      PROVE  IsRequest(cacheBreaker(x))
  BY <1>3 DEF cacheBreaker, IsRequest
<1>4. \A x : Validate(x) \in BOOLEAN
  BY DEF Validate
<1> QED
  BY <1>1, <1>2, <1>3, <1>4 DEF Governed

\* A request that may be sent has kept to the limit before and after the
\* rewriting.
LEMMA GovernedIsValid ==
    ASSUME NEW v, NEW provider, Governed(provider, v).ok
    PROVE  Validate(v) /\ Validate(Governed(provider, v).value)
BY DEF Governed
-----------------------------------------------------------------------------
(* The invariant *)

LEMMA OriginalIsRequest ==
    ASSUME original \in Requests
    PROVE  IsRequest(original)
BY PolicyAssumption

LEMMA ForProviderIsRequest ==
    ASSUME original \in Requests, NEW i \in 1..Len(Chain)
    PROVE  /\ IsRequest(ForProvider(i).value) /\ ForProvider(i).ok \in BOOLEAN
           /\ ForProvider(i).value \in Values /\ Audit(i) \in Audits
BY OriginalIsRequest, GovernedIsRequest DEF ForProvider, Values, Audits

LEMMA InitIInv == Init => IInv
<1> SUFFICES ASSUME Init
             PROVE  IInv
  OBVIOUS
<1> DEFINE none == [a \in Addresses |-> Nil]
<1>1. policy \in Policies /\ original \in Requests
  BY DEF Init
<1>2. CallerRequest(original) = Owned(Caller, original) /\ Caller \in Owners
  BY OwnersApart DEF CallerRequest, Owned
<1>3. heap = Store(none, Owned(Caller, original), original) /\ DOMAIN none = Addresses
  BY <1>2 DEF Init
<1> HIDE DEF none
<1>4. DOMAIN heap = Addresses /\ Holds(Caller, original)
  BY <1>2, <1>3, StoreReads DEF Holds
<1>5. Owned(Caller, original) \in [Parts -> Addresses \cup {Nil}]
  BY <1>2, OwnedTyping
<1>6. ASSUME NEW c \in Calls
      PROVE  /\ call[c].pc = "start" /\ call[c].at = 0
             /\ call[c].base = Owned(Caller, original) /\ call[c].req = Owned(Caller, original)
             /\ call[c].ok = TRUE /\ call[c].reports = <<>> /\ call[c].missed = 0
             /\ call[c].sent = <<>>
  BY <1>2 DEF Init
<1>7. call \in [Calls -> CallType]
  <2>1. /\ 0 \in 0..Len(Chain) /\ <<>> \in Seq(Audits) /\ <<>> \in Seq(Values)
    BY PolicyAssumption
  <2>2. [pc |-> "start", at |-> 0, base |-> Owned(Caller, original),
         req |-> Owned(Caller, original), ok |-> TRUE, reports |-> <<>>,
         missed |-> 0, sent |-> <<>>] \in CallType
    BY <1>5, <2>1 DEF CallType
  <2> QED
    BY <1>2, <2>2 DEF Init
<1>8. ASSUME NEW c \in Calls
      PROVE  OwnsCopies(c) /\ Recorded(c)
  <2>1. OwnsCopies(c)
    BY <1>6 DEF OwnsCopies
  <2>2. Recorded(c)
    <3>1. call[c].reports = <<>> /\ call[c].sent = <<>> /\ call[c].missed = 0
          /\ call[c].pc = "start" /\ call[c].at = 0
      BY <1>6
    <3>2. Len(call[c].reports) = 0
      BY <3>1
    <3>3. Len(call[c].sent) = 0
      BY <3>1
    <3>4. SentSoFar(call[c]) = 0
      BY <3>1 DEF SentSoFar
    <3>5. \A i \in 1..0 : FALSE
      OBVIOUS
    <3> QED
      BY <3>1, <3>2, <3>3, <3>4, <3>5 DEF Recorded
  <2> QED
    BY <2>1, <2>2
<1> QED
  BY <1>1, <1>4, <1>7, <1>8 DEF IInv

\* What the policy makes of the request depends on nothing else that changes.
LEMMA PolicyKeeps ==
    ASSUME policy' = policy, original' = original
    PROVE  (\A i : ForProvider(i)' = ForProvider(i)) /\ (\A i : Audit(i)' = Audit(i))
BY DEF Audit, ForProvider, Governed, ReportOn, Validate, defaults, promptCache, cacheBreaker,
       derivedKey, SnapshotRequest, FingerprintRequest, hash, optionalHash, Changes,
       SetsStore, SetsKey, SetsRetention

\* What a step of the call c leaves of the others: their copies are cells that
\* c does not write to.
LEMMA OthersKeep ==
    ASSUME IInv, NEW c \in Calls, NEW r \in CallType, call' = [call EXCEPT ![c] = r],
           policy' = policy, original' = original, DOMAIN heap' = Addresses,
           \A d \in Calls \ {c} : \A i \in 0..Len(Chain) : \A p \in Parts :
              heap'[<<<<d, i>>, p>>] = heap[<<<<d, i>>, p>>],
           \A p \in Parts : heap'[<<Caller, p>>] = heap[<<Caller, p>>],
           OwnsCopies(c)', Recorded(c)'
    PROVE  IInv'
<1>1. policy' \in Policies /\ original' \in Requests /\ Holds(Caller, original)'
  BY DEF IInv, Holds
<1>2. CallType' = CallType /\ call' \in [Calls -> CallType]'
  <2>1. (\A i : ForProvider(i)' = ForProvider(i)) /\ (\A i : Audit(i)' = Audit(i))
    BY PolicyKeeps
  <2>2. Audits' = Audits /\ Values' = Values
    BY <2>1 DEF Audits, Values
  <2>3. CallType' = CallType
    BY <2>2 DEF CallType
  <2> QED
    BY <2>3 DEF IInv
<1>3. ASSUME NEW d \in Calls, d # c
      PROVE  OwnsCopies(d)' /\ Recorded(d)'
  <2>1. call'[d] = call[d] /\ call[d] \in CallType
    BY <1>3 DEF IInv
  <2>2. call[d].at \in 0..Len(Chain) /\ 0 \in 0..Len(Chain)
    BY <2>1, PolicyAssumption DEF CallType
  <2>3. (\A i : ForProvider(i)' = ForProvider(i)) /\ (\A i : Audit(i)' = Audit(i))
    BY PolicyKeeps
  <2>4. OwnsCopies(d) /\ Recorded(d)
    BY DEF IInv
  <2>5. Recorded(d)'
    BY <2>1, <2>3, <2>4 DEF Recorded
  <2>6. \A i \in 0..Len(Chain) : \A v : Holds(<<d, i>>, v) => Holds(<<d, i>>, v)'
    BY <1>3 DEF Holds
  <2>7. OwnsCopies(d)'
    BY <2>1, <2>2, <2>3, <2>4, <2>6 DEF OwnsCopies
  <2> QED
    BY <2>5, <2>7
<1> QED
  BY <1>1, <1>2, <1>3 DEF IInv

\* What holds of a call before its step.
LEMMA CallFacts ==
    ASSUME IInv, NEW c \in Calls
    PROVE  /\ call[c] \in CallType /\ OwnsCopies(c) /\ Recorded(c)
           /\ call[c].at \in 0..Len(Chain) /\ call[c].at \in Nat /\ Len(Chain) \in Nat
           /\ call[c].reports \in Seq(Audits) /\ call[c].sent \in Seq(Values)
           /\ call[c].missed \in Nat
           /\ Len(call[c].reports) \in Nat /\ Len(call[c].sent) \in Nat
           /\ IsRequest(original)
<1>1. call[c] \in CallType /\ OwnsCopies(c) /\ Recorded(c) /\ Len(Chain) \in Nat
  BY PolicyAssumption DEF IInv
<1>2. call[c].at \in 0..Len(Chain) /\ call[c].missed \in Nat
  BY <1>1 DEF CallType
<1>3. call[c].reports \in Seq(Audits) /\ call[c].sent \in Seq(Values)
  BY <1>1 DEF CallType
<1>4. Len(call[c].reports) \in Nat /\ Len(call[c].sent) \in Nat
  BY <1>3
<1> QED
  BY <1>1, <1>2, <1>3, <1>4, OriginalIsRequest DEF IInv

LEMMA BeginIInv ==
    ASSUME IInv, NEW c \in Calls, Begin(c)
    PROVE  IInv'
<1> DEFINE base == Owned(<<c, 0>>, original)
           new == [call[c] EXCEPT !.pc = "attempt", !.base = base]
<1>1. /\ call[c].pc = "start" /\ call[c].at = 0 /\ call[c] \in CallType
      /\ call[c].base = Owned(Caller, original)
      /\ call[c].at \in 0..Len(Chain) /\ Len(Chain) \in Nat \ {0} /\ IsRequest(original)
  BY CallFacts, PolicyAssumption DEF Begin, OwnsCopies
<1>2. /\ <<c, 0>> \in Owners /\ Caller \in Owners /\ <<c, 0>> # Caller
      /\ \A d \in Calls : \A i \in 0..Len(Chain) : <<d, i>> \in Owners
  BY <1>1, OwnersApart
<1>3. Clone(heap, call[c].base, <<c, 0>>) = base
  BY <1>1, <1>2, CloneOfOwned
<1>4. Contents(heap, call[c].base) = original
  BY <1>1, <1>2, ContentsOfOwned DEF IInv, Holds
<1>5. heap' = Store(heap, base, original) /\ policy' = policy /\ original' = original
  BY <1>3, <1>4 DEF Begin
<1>6. call' = [call EXCEPT ![c] = new]
  BY <1>3 DEF Begin, IInv
<1>7. /\ DOMAIN heap' = Addresses
      /\ \A p \in Parts : original[p] # Nil => heap'[<<<<c, 0>>, p>>] = original[p]
      /\ \A other \in Owners : \A p \in Parts :
            other # <<c, 0>> => heap'[<<other, p>>] = heap[<<other, p>>]
  BY <1>2, <1>5, StoreReads DEF IInv
<1>8. base \in [Parts -> Addresses \cup {Nil}]
  BY <1>2, OwnedTyping
<1> HIDE DEF base
<1>9. new \in CallType
  BY <1>1, <1>8 DEF CallType
<1>10. /\ new.pc = "attempt" /\ new.base = base /\ new.at = call[c].at /\ new.req = call[c].req
       /\ new.ok = call[c].ok /\ new.reports = call[c].reports /\ new.missed = call[c].missed
       /\ new.sent = call[c].sent
  BY <1>1 DEF CallType
<1> HIDE DEF new
<1>11. call'[c] = new
  BY <1>6 DEF IInv
<1>12. OwnsCopies(c)'
  BY <1>1, <1>5, <1>7, <1>10, <1>11 DEF OwnsCopies, Holds, base
<1>13. Recorded(c)'
  <2>1. Recorded(c)
    BY CallFacts
  <2>2. (\A i : ForProvider(i)' = ForProvider(i)) /\ (\A i : Audit(i)' = Audit(i))
    BY <1>5, PolicyKeeps
  <2> QED
    BY <1>1, <1>5, <1>10, <1>11, <2>1, <2>2 DEF Recorded, SentSoFar
<1>14. /\ \A d \in Calls \ {c} : \A i \in 0..Len(Chain) : \A p \in Parts :
            heap'[<<<<d, i>>, p>>] = heap[<<<<d, i>>, p>>]
       /\ \A p \in Parts : heap'[<<Caller, p>>] = heap[<<Caller, p>>]
  BY <1>2, <1>7
<1> QED
  BY <1>5, <1>6, <1>7, <1>9, <1>12, <1>13, <1>14, OthersKeep

LEMMA AttemptIInv ==
    ASSUME IInv, NEW c \in Calls, Attempt(c)
    PROVE  IInv'
<1> DEFINE at == call[c].at + 1
           governed == ForProvider(at)
           owned == Owned(<<c, at>>, governed.value)
           new == [call[c] EXCEPT !.pc = "report", !.at = at, !.req = owned, !.ok = governed.ok,
                                  !.reports = Append(@, Audit(at))]
<1>1. /\ call[c].pc = "attempt" /\ call[c].at < Len(Chain) /\ call[c] \in CallType
      /\ call[c].base = Owned(<<c, 0>>, original) /\ Holds(<<c, 0>>, original)
      /\ call[c].at \in Nat /\ Len(Chain) \in Nat /\ IsRequest(original)
  BY CallFacts DEF Attempt, OwnsCopies
<1>2. at \in 1..Len(Chain) /\ at \in 0..Len(Chain) /\ 0 \in 0..Len(Chain)
  BY <1>1
<1>3. /\ <<c, 0>> \in Owners /\ <<c, at>> \in Owners /\ Caller \in Owners
      /\ <<c, at>> # Caller /\ <<c, at>> # <<c, 0>>
      /\ \A d \in Calls : \A i \in 0..Len(Chain) : <<d, i>> \in Owners
  BY <1>1, <1>2, OwnersApart
<1>4. Contents(heap, call[c].base) = original
  BY <1>1, <1>3, ContentsOfOwned DEF Holds
<1>5. Clone(heap, call[c].base, <<c, at>>) = Owned(<<c, at>>, original)
  BY <1>1, <1>3, CloneOfOwned
<1>6. IsRequest(governed.value) /\ governed.ok \in BOOLEAN /\ Audit(at) \in Audits
  BY <1>2, ForProviderIsRequest DEF IInv
<1>7. \A v : [p \in Parts |-> IF v[p] = Nil THEN Nil
                 ELSE IF Owned(<<c, at>>, original)[p] = Nil THEN <<<<c, at>>, p>>
                 ELSE Owned(<<c, at>>, original)[p]] = Owned(<<c, at>>, v)
  BY DEF Owned
<1>8. /\ heap' = Store(heap, owned, governed.value)
      /\ policy' = policy /\ original' = original
      /\ call' = [call EXCEPT ![c].pc = "report", ![c].at = at, ![c].req = owned,
                              ![c].ok = governed.ok, ![c].reports = Append(@, Audit(at))]
  <2>1. Governed(Chain[at], Contents(heap, call[c].base)) = governed
    BY <1>4 DEF ForProvider
  <2>2. ReportOn(Chain[at], Contents(heap, call[c].base), governed) = Audit(at)
    BY <1>4 DEF Audit
  <2>3. [p \in Parts |-> IF governed.value[p] = Nil THEN Nil
                     ELSE IF Clone(heap, call[c].base, <<c, at>>)[p] = Nil THEN <<<<c, at>>, p>>
                     ELSE Clone(heap, call[c].base, <<c, at>>)[p]] = owned
    BY <1>5, <1>7
  <2>4. policy' = policy /\ original' = original
    BY DEF Attempt
  <2>5. heap' = Store(heap, owned, governed.value)
    <3>1. heap' = Store(heap,
             [p \in Parts |-> IF Governed(Chain[at], Contents(heap, call[c].base)).value[p] = Nil
                     THEN Nil
                     ELSE IF Clone(heap, call[c].base, <<c, at>>)[p] = Nil THEN <<<<c, at>>, p>>
                     ELSE Clone(heap, call[c].base, <<c, at>>)[p]],
             Governed(Chain[at], Contents(heap, call[c].base)).value)
      BY DEF Attempt
    <3> HIDE DEF governed, at, owned
    <3> QED
      BY <2>1, <2>3, <3>1
  <2>6. call' = [call EXCEPT ![c].pc = "report", ![c].at = at, ![c].req = owned,
                             ![c].ok = governed.ok, ![c].reports = Append(@, Audit(at))]
    <3>1. call' = [call EXCEPT ![c].pc = "report", ![c].at = at,
             ![c].req = [p \in Parts |->
                     IF Governed(Chain[at], Contents(heap, call[c].base)).value[p] = Nil THEN Nil
                     ELSE IF Clone(heap, call[c].base, <<c, at>>)[p] = Nil THEN <<<<c, at>>, p>>
                     ELSE Clone(heap, call[c].base, <<c, at>>)[p]],
             ![c].ok = Governed(Chain[at], Contents(heap, call[c].base)).ok,
             ![c].reports = Append(@, ReportOn(Chain[at], Contents(heap, call[c].base),
                                        Governed(Chain[at], Contents(heap, call[c].base))))]
      BY DEF Attempt
    <3> HIDE DEF governed, at, owned
    <3> QED
      BY <2>1, <2>2, <2>3, <3>1
  <2> QED
    BY <2>4, <2>5, <2>6
<1>9. call' = [call EXCEPT ![c] = new]
  BY <1>8 DEF IInv
<1>10. /\ DOMAIN heap' = Addresses
       /\ \A p \in Parts : governed.value[p] # Nil => heap'[<<<<c, at>>, p>>] = governed.value[p]
       /\ \A other \in Owners : \A p \in Parts :
             other # <<c, at>> => heap'[<<other, p>>] = heap[<<other, p>>]
  <2> HIDE DEF governed, at
  <2> QED
    BY <1>3, <1>8, StoreReads DEF IInv
<1>11. owned \in [Parts -> Addresses \cup {Nil}]
  BY <1>3, OwnedTyping
<1>12. call[c].reports \in Seq(Audits) /\ Append(call[c].reports, Audit(at)) \in Seq(Audits)
  BY <1>6, CallFacts
<1> HIDE DEF owned, governed, at
<1>13. new \in CallType
  BY <1>1, <1>2, <1>6, <1>11, <1>12 DEF CallType
<1>14. /\ new.pc = "report" /\ new.base = call[c].base /\ new.at = at /\ new.req = owned
       /\ new.ok = governed.ok /\ new.reports = Append(call[c].reports, Audit(at))
       /\ new.missed = call[c].missed /\ new.sent = call[c].sent
  BY <1>1 DEF CallType
<1> HIDE DEF new
<1>15. call'[c] = new
  BY <1>9 DEF IInv
<1>16. (\A i : ForProvider(i)' = ForProvider(i)) /\ (\A i : Audit(i)' = Audit(i))
  BY <1>8, PolicyKeeps
<1>17. OwnsCopies(c)'
  <2>1. Holds(<<c, 0>>, original)'
    BY <1>1, <1>3, <1>8, <1>10 DEF Holds
  <2>2. \A p \in Parts : governed.value[p] # Nil => heap'[<<<<c, at>>, p>>] = governed.value[p]
    BY <1>10
  <2>3. at >= 1 /\ owned = Owned(<<c, at>>, ForProvider(at).value) /\ governed = ForProvider(at)
    BY <1>2 DEF owned, governed
  <2>4. new.base = Owned(<<c, 0>>, original)
    BY <1>1, <1>14
  <2> QED
    BY <1>8, <1>14, <1>15, <1>16, <2>1, <2>2, <2>3, <2>4 DEF OwnsCopies, Holds
<1>18. Recorded(c)'
  <2>1. /\ Recorded(c) /\ call[c].reports \in Seq(Audits) /\ Len(call[c].reports) = call[c].at
        /\ Len(call[c].sent) \in Nat /\ call[c].missed \in Nat
    BY CallFacts DEF Recorded
  <2>2. /\ Len(new.reports) = at
        /\ \A i \in 1..Len(new.reports) : new.reports[i] = Audit(i)
    <3>1. Len(new.reports) = call[c].at + 1
      BY <1>6, <1>14, <2>1
    <3>2. new.reports[at] = Audit(at)
      BY <1>6, <1>14, <2>1 DEF at
    <3>3. \A i \in 1..call[c].at : new.reports[i] = Audit(i)
      BY <1>6, <1>14, <2>1 DEF Recorded
    <3> QED
      BY <1>1, <3>1, <3>2, <3>3 DEF at
  <2>3. new.ok = ForProvider(at).ok
    BY <1>14 DEF governed
  <2>4. Len(new.sent) = at - 1 /\ Len(new.sent) <= at
    BY <1>1, <1>14, <2>1 DEF Recorded, SentSoFar, at
  <2>5. policy.strict => new.missed = 0
    BY <1>1, <1>14, <2>1 DEF Recorded
  <2>6. \A i \in 1..Len(new.sent) : new.sent[i] = ForProvider(i).value /\ ForProvider(i).ok
    BY <1>14, <2>1 DEF Recorded
  <2>7. SentSoFar(new) = at - 1
    BY <1>14 DEF SentSoFar
  <2>8. policy.strict => Len(new.sent) + new.missed <= at
    BY <1>2, <2>4, <2>5
  <2> QED
    BY <1>8, <1>14, <1>15, <1>16, <2>2, <2>3, <2>4, <2>5, <2>6, <2>7, <2>8 DEF Recorded
<1>19. /\ \A d \in Calls \ {c} : \A i \in 0..Len(Chain) : \A p \in Parts :
            heap'[<<<<d, i>>, p>>] = heap[<<<<d, i>>, p>>]
       /\ \A p \in Parts : heap'[<<Caller, p>>] = heap[<<Caller, p>>]
  BY <1>3, <1>10
<1> QED
  BY <1>8, <1>9, <1>10, <1>13, <1>17, <1>18, <1>19, OthersKeep

\* A step that writes to no cell.
LEMMA NothingWritten ==
    ASSUME IInv, NEW c \in Calls, NEW r \in CallType, call' = [call EXCEPT ![c] = r],
           UNCHANGED <<policy, original, heap>>, OwnsCopies(c)', Recorded(c)'
    PROVE  IInv'
<1>1. /\ policy' = policy /\ original' = original /\ DOMAIN heap' = Addresses
      /\ \A d \in Calls \ {c} : \A i \in 0..Len(Chain) : \A p \in Parts :
            heap'[<<<<d, i>>, p>>] = heap[<<<<d, i>>, p>>]
      /\ \A p \in Parts : heap'[<<Caller, p>>] = heap[<<Caller, p>>]
  BY DEF IInv
<1> QED
  BY <1>1, OthersKeep

LEMMA ReportIInv ==
    ASSUME IInv, NEW c \in Calls, Report(c)
    PROVE  IInv'
<1>1. /\ call[c].pc = "report" /\ call[c] \in CallType /\ call[c].missed \in Nat
      /\ OwnsCopies(c) /\ Recorded(c) /\ call[c].at \in Nat /\ Len(call[c].sent) \in Nat
      /\ UNCHANGED <<policy, original, heap>>
  BY CallFacts DEF Report
<1>2. PICK failed \in BOOLEAN :
         call' = [call EXCEPT ![c].missed = IF failed THEN @ + 1 ELSE @,
                              ![c].pc = IF call[c].ok /\ ~ (failed /\ policy.strict)
                                        THEN "send" ELSE "done"]
  BY DEF Report
<1> DEFINE missed == IF failed THEN call[c].missed + 1 ELSE call[c].missed
           pc == IF call[c].ok /\ ~ (failed /\ policy.strict) THEN "send" ELSE "done"
           new == [call[c] EXCEPT !.missed = missed, !.pc = pc]
<1>3. call' = [call EXCEPT ![c] = new]
  BY <1>2 DEF IInv
<1>4. missed \in Nat /\ missed <= call[c].missed + 1
  BY <1>1
<1>5. pc \in {"send", "done"} /\ (pc = "send" => call[c].ok)
  OBVIOUS
<1>6. policy.strict /\ pc = "send" => missed = call[c].missed
  OBVIOUS
<1> HIDE DEF missed, pc
<1>7. new \in CallType
  BY <1>1, <1>4, <1>5 DEF CallType
<1>8. /\ new.pc = pc /\ new.base = call[c].base /\ new.at = call[c].at /\ new.req = call[c].req
      /\ new.ok = call[c].ok /\ new.reports = call[c].reports /\ new.missed = missed
      /\ new.sent = call[c].sent
  BY <1>1 DEF CallType
<1> HIDE DEF new
<1>9. call'[c] = new
  BY <1>3 DEF IInv
<1>10. (\A i : ForProvider(i)' = ForProvider(i)) /\ (\A i : Audit(i)' = Audit(i))
  BY <1>1, PolicyKeeps
<1>11. OwnsCopies(c)'
  BY <1>1, <1>5, <1>8, <1>9, <1>10 DEF OwnsCopies, Holds
<1>12. Recorded(c)'
  <2>1. Len(call[c].sent) = call[c].at - 1 /\ SentSoFar(call[c]) = call[c].at - 1
    BY <1>1 DEF Recorded, SentSoFar
  <2>2. new.pc # "done" => SentSoFar(new) = call[c].at - 1
    BY <1>5, <1>8 DEF SentSoFar
  <2>3. policy.strict => call[c].missed = 0
    BY <1>1 DEF Recorded
  <2>4. policy.strict => Len(new.sent) + new.missed <= new.at
    BY <1>1, <1>4, <1>8, <2>1, <2>3
  <2>5. policy.strict /\ new.pc # "done" => new.missed = 0
    BY <1>5, <1>6, <1>8, <2>3
  <2>6. new.pc = "send" => ForProvider(new.at).ok
    BY <1>1, <1>5, <1>8 DEF Recorded
  <2>7. new.pc # "report" /\ new.pc \in {"send", "done"}
    BY <1>5, <1>8
  <2>8. /\ Len(new.reports) = new.at /\ Len(new.sent) <= new.at
        /\ \A i \in 1..Len(new.reports) : new.reports[i] = Audit(i)
        /\ \A i \in 1..Len(new.sent) : new.sent[i] = ForProvider(i).value /\ ForProvider(i).ok
    BY <1>1, <1>8 DEF Recorded
  <2>9. new.pc # "done" => Len(new.sent) = SentSoFar(new)
    BY <1>8, <2>1, <2>2
  <2> QED
    BY <1>1, <1>9, <1>10, <2>4, <2>5, <2>6, <2>7, <2>8, <2>9 DEF Recorded
<1> QED
  BY <1>1, <1>3, <1>7, <1>11, <1>12, NothingWritten

LEMMA SendIInv ==
    ASSUME IInv, NEW c \in Calls, Send(c)
    PROVE  IInv'
<1> DEFINE at == call[c].at
           value == ForProvider(at).value
           new == [call[c] EXCEPT !.pc = "wait", !.sent = Append(@, value)]
<1>1. /\ call[c].pc = "send" /\ call[c] \in CallType /\ OwnsCopies(c) /\ Recorded(c)
      /\ at \in 0..Len(Chain) /\ at \in Nat /\ Len(Chain) \in Nat
      /\ call[c].sent \in Seq(Values) /\ call[c].missed \in Nat
      /\ UNCHANGED <<policy, original, heap>>
  BY CallFacts DEF Send
<1>2. /\ at >= 1 /\ at \in 1..Len(Chain) /\ call[c].req = Owned(<<c, at>>, value)
      /\ Holds(<<c, at>>, value)
  BY <1>1 DEF OwnsCopies
<1>3. IsRequest(value) /\ value \in Values
  BY <1>2, ForProviderIsRequest DEF IInv
<1>4. Contents(heap, call[c].req) = value
  <2>1. <<c, at>> \in Owners
    BY <1>1, OwnersApart
  <2>2. \A p \in Parts : value[p] # Nil => heap[<<<<c, at>>, p>>] = value[p]
    BY <1>2 DEF Holds
  <2> HIDE DEF value, at
  <2> QED
    BY <1>2, <1>3, <2>1, <2>2, ContentsOfOwned
<1> HIDE DEF value
<1>5. call' = [call EXCEPT ![c] = new]
  BY <1>4 DEF Send, IInv
<1>6. Append(call[c].sent, value) \in Seq(Values)
  BY <1>1, <1>3
<1> HIDE DEF at
<1>7. new \in CallType
  BY <1>1, <1>6 DEF CallType
<1>8. /\ new.pc = "wait" /\ new.base = call[c].base /\ new.at = call[c].at /\ new.req = call[c].req
      /\ new.ok = call[c].ok /\ new.reports = call[c].reports /\ new.missed = call[c].missed
      /\ new.sent = Append(call[c].sent, value)
  BY <1>1 DEF CallType
<1> HIDE DEF new
<1>9. call'[c] = new
  BY <1>5 DEF IInv
<1>10. (\A i : ForProvider(i)' = ForProvider(i)) /\ (\A i : Audit(i)' = Audit(i))
  BY <1>1, PolicyKeeps
<1>11. OwnsCopies(c)'
  BY <1>1, <1>8, <1>9, <1>10 DEF OwnsCopies, Holds
<1>12. Recorded(c)'
  <2>1. Len(call[c].sent) = at - 1 /\ at = call[c].at
    BY <1>1 DEF Recorded, SentSoFar, at
  <2>2. Len(new.sent) = at
    BY <1>1, <1>3, <1>8, <2>1
  <2>3. \A i \in 1..at - 1 : new.sent[i] = ForProvider(i).value /\ ForProvider(i).ok
    <3>1. \A i \in 1..at - 1 : call[c].sent[i] = ForProvider(i).value /\ ForProvider(i).ok
      BY <1>1, <2>1 DEF Recorded
    <3>2. \A i \in 1..at - 1 : new.sent[i] = call[c].sent[i]
      BY <1>1, <1>3, <1>8, <2>1
    <3> QED
      BY <3>1, <3>2
  <2>4. new.sent[at] = ForProvider(at).value /\ ForProvider(at).ok
    <3>1. new.sent[at] = value
      BY <1>1, <1>2, <1>3, <1>8, <2>1
    <3>2. ForProvider(at).ok
      BY <1>1, <2>1 DEF Recorded
    <3> QED
      BY <3>1, <3>2 DEF value
  <2>5. \A i \in 1..Len(new.sent) : new.sent[i] = ForProvider(i).value /\ ForProvider(i).ok
    BY <1>1, <1>2, <2>2, <2>3, <2>4
  <2>6. policy.strict => new.missed = 0
    BY <1>1, <1>8 DEF Recorded
  <2>7. SentSoFar(new) = at /\ new.at = at
    BY <1>8, <2>1 DEF SentSoFar
  <2>8. policy.strict => Len(new.sent) + new.missed <= new.at
    BY <1>1, <2>2, <2>6, <2>7
  <2>9. /\ Len(new.reports) = new.at
        /\ \A i \in 1..Len(new.reports) : new.reports[i] = Audit(i)
    BY <1>1, <1>8 DEF Recorded
  <2>10. Len(new.sent) <= new.at
    BY <1>1, <2>2, <2>7
  <2> QED
    BY <1>1, <1>8, <1>9, <1>10, <2>2, <2>5, <2>6, <2>7, <2>8, <2>9, <2>10 DEF Recorded
<1> QED
  BY <1>1, <1>5, <1>7, <1>11, <1>12, NothingWritten

LEMMA AnswerIInv ==
    ASSUME IInv, NEW c \in Calls, Answer(c)
    PROVE  IInv'
<1>1. /\ call[c].pc = "wait" /\ call[c] \in CallType /\ OwnsCopies(c) /\ Recorded(c)
      /\ UNCHANGED <<policy, original, heap>>
  BY CallFacts DEF Answer
<1>2. PICK e : call' = [call EXCEPT ![c].pc =
                           IF e # NoError /\ IsFallback(e) /\ call[c].at < Len(Chain)
                           THEN "attempt" ELSE "done"]
  BY DEF Answer
<1> DEFINE pc == IF e # NoError /\ IsFallback(e) /\ call[c].at < Len(Chain)
                 THEN "attempt" ELSE "done"
           new == [call[c] EXCEPT !.pc = pc]
<1>3. call' = [call EXCEPT ![c] = new]
  BY <1>2 DEF IInv
<1>4. pc \in {"attempt", "done"} /\ (pc = "attempt" => call[c].at < Len(Chain))
  OBVIOUS
<1> HIDE DEF pc
<1>5. new \in CallType
  BY <1>1, <1>4 DEF CallType
<1>6. /\ new.pc = pc /\ new.base = call[c].base /\ new.at = call[c].at /\ new.req = call[c].req
      /\ new.ok = call[c].ok /\ new.reports = call[c].reports /\ new.missed = call[c].missed
      /\ new.sent = call[c].sent
  BY <1>1 DEF CallType
<1> HIDE DEF new
<1>7. call'[c] = new
  BY <1>3 DEF IInv
<1>8. (\A i : ForProvider(i)' = ForProvider(i)) /\ (\A i : Audit(i)' = Audit(i))
  BY <1>1, PolicyKeeps
<1>9. OwnsCopies(c)'
  BY <1>1, <1>4, <1>6, <1>7, <1>8 DEF OwnsCopies, Holds
<1>10. Recorded(c)'
  BY <1>1, <1>4, <1>6, <1>7, <1>8 DEF Recorded, SentSoFar
<1> QED
  BY <1>1, <1>3, <1>5, <1>9, <1>10, NothingWritten

LEMMA NextIInv == IInv /\ [Next]_vars => IInv'
<1> SUFFICES ASSUME IInv, [Next]_vars
             PROVE  IInv'
  OBVIOUS
<1>1. CASE UNCHANGED vars
  <2>1. UNCHANGED <<policy, original, heap, call>>
    BY <1>1 DEF vars
  <2>2. (\A i : ForProvider(i)' = ForProvider(i)) /\ (\A i : Audit(i)' = Audit(i))
    BY <2>1, PolicyKeeps
  <2>3. CallType' = CallType
    BY <2>2 DEF CallType, Audits, Values
  <2>4. \A c \in Calls : OwnsCopies(c)' /\ Recorded(c)'
    BY <2>1, <2>2 DEF IInv, OwnsCopies, Recorded, Holds
  <2> QED
    BY <2>1, <2>3, <2>4 DEF IInv, Holds
<1>2. CASE Next
  <2>1. PICK c \in Calls : Begin(c) \/ Attempt(c) \/ Report(c) \/ Send(c) \/ Answer(c)
    BY <1>2 DEF Next
  <2> QED
    BY <2>1, BeginIInv, AttemptIInv, ReportIInv, SendIInv, AnswerIInv
<1> QED
  BY <1>1, <1>2

\* The invariant holds of every state, for every number of calls on one
\* request, every chain and every policy.
THEOREM Invariance == Spec => []IInv
<1> QED
  BY InitIInv, NextIInv, PTL DEF Spec
-----------------------------------------------------------------------------
(* What the calls promise *)

\* Every state is made of what the code can put there.
THEOREM TypeCorrect == Spec => []TypeOK
<1>1. IInv => TypeOK
  <2> SUFFICES ASSUME IInv, NEW c \in Calls
               PROVE  /\ call[c].pc \in {"start", "attempt", "report", "send", "wait", "done"}
                      /\ call[c].at \in 0..Len(Chain)
                      /\ \A p \in Parts : call[c].base[p] \in Addresses \cup {Nil}
                      /\ \A p \in Parts : call[c].req[p] \in Addresses \cup {Nil}
                      /\ Len(call[c].reports) <= Len(Chain) /\ Len(call[c].sent) <= Len(Chain)
    BY DEF TypeOK, IInv
  <2>1. /\ call[c].pc \in {"start", "attempt", "report", "send", "wait", "done"}
        /\ \A p \in Parts : call[c].base[p] \in Addresses \cup {Nil}
        /\ \A p \in Parts : call[c].req[p] \in Addresses \cup {Nil}
    BY CallFacts DEF CallType
  <2>2. /\ call[c].at \in 0..Len(Chain) /\ Len(Chain) \in Nat
        /\ Len(call[c].reports) = call[c].at /\ Len(call[c].sent) <= call[c].at
        /\ Len(call[c].sent) \in Nat
    BY CallFacts DEF Recorded
  <2> QED
    BY <2>1, <2>2
<1> QED
  BY <1>1, Invariance, PTL

\* The caller's request says what it said, however many calls govern copies of
\* it: they write to cells of their own only.
THEOREM CallerKept == Spec => []CallerUntouched
<1>1. IInv => CallerUntouched
  <2> SUFFICES ASSUME IInv
               PROVE  Contents(heap, CallerRequest(original)) = original
    BY DEF CallerUntouched
  <2>1. CallerRequest(original) = Owned(Caller, original) /\ Caller \in Owners
    BY OwnersApart DEF CallerRequest, Owned
  <2>2. IsRequest(original) /\ Holds(Caller, original)
    BY OriginalIsRequest DEF IInv
  <2> QED
    BY <2>1, <2>2, ContentsOfOwned DEF Holds
<1> QED
  BY <1>1, Invariance, PTL

\* Every provider gets what the policy makes of the caller's request for it,
\* whatever it made for the providers before and whatever other calls do.
THEOREM Afresh == Spec => []EachProviderAfresh
<1>1. IInv => EachProviderAfresh
  <2> SUFFICES ASSUME IInv, NEW c \in Calls, NEW i \in 1..Len(call[c].sent)
               PROVE  call[c].sent[i] = Governed(Chain[i], original).value
    BY DEF EachProviderAfresh
  <2> QED
    BY CallFacts DEF Recorded, ForProvider
<1> QED
  BY <1>1, Invariance, PTL

\* What the policy changes it names, step by step: no step touches what another
\* one answers for.
LEMMA ChangesAreNamed ==
    ASSUME NEW v, IsRequest(v), NEW provider, Governed(provider, v).ok
    PROVE  {p \in Parts : Governed(provider, v).value[p] # v[p]} \subseteq Changes(v)
<1> DEFINE d == defaults(v)
           x == promptCache(provider, d)
           y == cacheBreaker(x)
<1>1. /\ IsRequest(d) /\ d.key = v.key /\ d.retention = v.retention /\ d.text = v.text
      /\ ~ SetsStore(v) => d.store = v.store
  BY DEF defaults, SetsStore, IsRequest
<1> HIDE DEF d
<1>2. /\ IsRequest(x) /\ x.store = d.store /\ x.text = d.text
      /\ ~ SetsKey(v) => x.key = v.key
      /\ ~ SetsRetention(v) => x.retention = v.retention
  <2>1. SetsKey(d) = SetsKey(v) /\ SetsRetention(d) = SetsRetention(v)
    BY <1>1 DEF SetsKey, SetsRetention
  <2>2. /\ IsRequest(x) /\ x.store = d.store /\ x.text = d.text
        /\ ~ SetsKey(d) => x.key = d.key
        /\ ~ SetsRetention(d) => x.retention = d.retention
    BY <1>1, CacheOptions
  <2> QED
    BY <1>1, <2>1, <2>2
<1> HIDE DEF x
<1>3. /\ y.store = x.store /\ y.key = x.key /\ y.retention = x.retention
      /\ cacheBreaker(v) = v => y.text = v.text
  BY <1>1, <1>2 DEF cacheBreaker, IsRequest
<1>4. Governed(provider, v).value = y
  BY DEF Governed, d, x, y
<1> HIDE DEF y
<1>5. ASSUME NEW p \in Parts, p \notin Changes(v)
      PROVE  y[p] = v[p]
  <2>1. CASE p = "store"
    BY <1>1, <1>2, <1>3, <1>5, <2>1 DEF Changes
  <2>2. CASE p = "key"
    BY <1>2, <1>3, <1>5, <2>2 DEF Changes
  <2>3. CASE p = "retention"
    BY <1>2, <1>3, <1>5, <2>3 DEF Changes
  <2>4. CASE p = "text"
    BY <1>3, <1>5, <2>4 DEF Changes
  <2> QED
    BY <2>1, <2>2, <2>3, <2>4 DEF Parts
<1> QED
  BY <1>4, <1>5

\* A report shows the fingerprint of the request that was sent and names every
\* part that differs from the caller's, what was sent is within the limit, and
\* a strict policy sends nothing its reporter has missed.
THEOREM Audited == Spec => []AuditIsExact
<1>1. IInv => AuditIsExact
  <2> SUFFICES ASSUME IInv, NEW c \in Calls
               PROVE  /\ policy.strict => Len(call[c].sent) + call[c].missed <= Len(call[c].reports)
                      /\ \A i \in 1..Len(call[c].sent) :
                            LET sent == call[c].sent[i] report == call[c].reports[i]
                            IN /\ report.fingerprint = FingerprintRequest(Chain[i], sent)
                               /\ {p \in Parts : sent[p] # original[p]} \subseteq report.changes
                               /\ ~ report.rejected
                               /\ policy.maxText > 0 => TextBytes(sent.text) <= policy.maxText
    BY DEF AuditIsExact
  <2>1. /\ Recorded(c) /\ Len(call[c].reports) = call[c].at
        /\ call[c].at \in Nat /\ Len(call[c].sent) \in Nat /\ Len(call[c].sent) <= call[c].at
    BY CallFacts DEF Recorded
  <2>2. policy.strict => Len(call[c].sent) + call[c].missed <= Len(call[c].reports)
    BY <2>1 DEF Recorded
  <2>3. ASSUME NEW i \in 1..Len(call[c].sent), NEW value, value = ForProvider(i).value
        PROVE  /\ Audit(i).fingerprint = FingerprintRequest(Chain[i], value)
               /\ {p \in Parts : value[p] # original[p]} \subseteq Audit(i).changes
               /\ ~ Audit(i).rejected
               /\ policy.maxText > 0 => TextBytes(value.text) <= policy.maxText
    <3>1. ForProvider(i).ok
      BY <2>1 DEF Recorded
    <3>2. Validate(original) /\ Validate(value)
      BY <2>3, <3>1, GovernedIsValid DEF ForProvider
    <3>3. /\ Audit(i).fingerprint = FingerprintRequest(Chain[i], value)
          /\ Audit(i).changes = Changes(original)
          /\ Audit(i).rejected = ~ ForProvider(i).ok
      BY <2>3, <3>2 DEF Audit, ReportOn
    <3>4. {p \in Parts : value[p] # original[p]} \subseteq Changes(original)
      <4>1. IsRequest(original) /\ Governed(Chain[i], original).ok
        BY <3>1, OriginalIsRequest DEF ForProvider, IInv
      <4>2. {p \in Parts : Governed(Chain[i], original).value[p] # original[p]}
                \subseteq Changes(original)
        BY <4>1, ChangesAreNamed
      <4> QED
        BY <2>3, <4>2 DEF ForProvider
    <3> QED
      BY <3>1, <3>2, <3>3, <3>4 DEF Validate
  <2>4. ASSUME NEW i \in 1..Len(call[c].sent)
        PROVE  call[c].sent[i] = ForProvider(i).value /\ call[c].reports[i] = Audit(i)
    BY <2>1 DEF Recorded
  <2> QED
    BY <2>2, <2>3, <2>4
<1> QED
  BY <1>1, Invariance, PTL

\* Nothing but the cache breaker touches a text, and it has nothing to do on a
\* text that it leaves as it is.
LEMMA TextKept ==
    ASSUME NEW v, IsRequest(v), cacheBreaker(v) = v, NEW provider
    PROVE  /\ cacheBreaker(promptCache(provider, defaults(v))) = promptCache(provider, defaults(v))
           /\ promptCache(provider, defaults(v)).text = v.text
           /\ IsRequest(promptCache(provider, defaults(v)))
<1> DEFINE x == promptCache(provider, defaults(v))
<1>1. IsRequest(defaults(v)) /\ defaults(v).text = v.text
  BY DEF defaults, SetsStore, IsRequest
<1>2. IsRequest(x) /\ x.text = v.text
  BY <1>1, CacheOptions
<1> HIDE DEF x
<1>3. cacheBreaker(x) = x
  <2>1. CASE policy.breaker /\ v.text.header /\ v.text.cch # Nil
    <3>1. v.text.cch = policy.replacement
      BY <2>1 DEF cacheBreaker, IsRequest
    <3> QED
      BY <1>2, <2>1, <3>1 DEF cacheBreaker, IsRequest
  <2>2. CASE ~ (policy.breaker /\ v.text.header /\ v.text.cch # Nil)
    BY <1>2, <2>2 DEF cacheBreaker
  <2> QED
    BY <2>1, <2>2
<1> QED
  BY <1>2, <1>3 DEF x

\* Requests that are the same but for the text get the same report from a
\* policy that leaves the text's hash out.
LEMMA ReportHidesText ==
    ASSUME NEW v, IsRequest(v), NEW w, IsRequest(w), SameButForText(v, w),
           ~ policy.includeText, NEW provider
    PROVE  ReportOn(provider, v, Governed(provider, v)) = ReportOn(provider, w, Governed(provider, w))
<1> DEFINE x == promptCache(provider, defaults(v))
           y == promptCache(provider, defaults(w))
<1>1. /\ v.store = w.store /\ v.key = w.key /\ v.retention = w.retention
      /\ TextBytes(v.text) = TextBytes(w.text)
      /\ cacheBreaker(v) = v /\ cacheBreaker(w) = w
  BY DEF SameButForText
<1>2. /\ cacheBreaker(x) = x /\ x.text = v.text /\ IsRequest(x)
      /\ cacheBreaker(y) = y /\ y.text = w.text /\ IsRequest(y)
  BY <1>1, TextKept
<1>3. x.store = y.store /\ x.key = y.key /\ x.retention = y.retention
  <2> DEFINE d == defaults(v)
             e == defaults(w)
  <2>1. /\ d.store = e.store /\ d.key = e.key /\ d.retention = e.retention
        /\ IsRequest(d) /\ IsRequest(e)
    BY <1>1 DEF defaults, SetsStore, IsRequest
  <2> HIDE DEF d, e
  <2>2. SetsKey(d) = SetsKey(e) /\ SetsRetention(d) = SetsRetention(e)
    BY <2>1 DEF SetsKey, SetsRetention
  <2>3. /\ promptCache(provider, d).store = promptCache(provider, e).store
        /\ promptCache(provider, d).key = promptCache(provider, e).key
        /\ promptCache(provider, d).retention = promptCache(provider, e).retention
    BY <2>1, <2>2 DEF promptCache, IsRequest
  <2> QED
    BY <2>3 DEF d, e
<1>4. Validate(v) = Validate(w) /\ Validate(x) = Validate(v) /\ Validate(y) = Validate(w)
  BY <1>1, <1>2 DEF Validate
<1> HIDE DEF x, y
<1>5. /\ SnapshotRequest(provider, v) = SnapshotRequest(provider, w)
      /\ SnapshotRequest(provider, x) = SnapshotRequest(provider, y)
  BY <1>1, <1>2, <1>3 DEF SnapshotRequest, optionalHash, hash
<1>6. Changes(v) = Changes(w)
  BY <1>1 DEF Changes, SetsStore, SetsKey, SetsRetention
<1>7. CASE Validate(v)
  <2>1. Validate(v) /\ Validate(w) /\ Validate(x) /\ Validate(y)
    BY <1>4, <1>7
  <2>2. /\ Governed(provider, v) = [ok |-> TRUE, value |-> x]
        /\ Governed(provider, w) = [ok |-> TRUE, value |-> y]
    BY <1>2, <2>1 DEF Governed, x, y
  <2>3. /\ ReportOn(provider, v, [ok |-> TRUE, value |-> x])
              = [rejected |-> FALSE, error |-> Nil, changes |-> Changes(v),
                 snapshot |-> SnapshotRequest(provider, x),
                 fingerprint |-> hash(SnapshotRequest(provider, x))]
        /\ ReportOn(provider, w, [ok |-> TRUE, value |-> y])
              = [rejected |-> FALSE, error |-> Nil, changes |-> Changes(w),
                 snapshot |-> SnapshotRequest(provider, y),
                 fingerprint |-> hash(SnapshotRequest(provider, y))]
    BY <2>1 DEF ReportOn, FingerprintRequest
  <2> QED
    BY <1>5, <1>6, <2>2, <2>3
<1>8. CASE ~ Validate(v)
  <2>1. /\ Governed(provider, v) = [ok |-> FALSE, value |-> v]
        /\ Governed(provider, w) = [ok |-> FALSE, value |-> w]
    BY <1>4, <1>8 DEF Governed
  <2> QED
    BY <1>1, <1>4, <1>5, <1>8, <2>1 DEF ReportOn, FingerprintRequest
<1> QED
  BY <1>7, <1>8

\* No report tells two requests apart that differ in a text only, unless the
\* policy includes the hashes of texts.
THEOREM TextHidden == Spec => []ReportsHideText
<1>1. IInv => ReportsHideText
  <2> SUFFICES ASSUME IInv, ~ policy.includeText, NEW c \in Calls,
                      NEW i \in 1..Len(call[c].reports), NEW w \in Requests,
                      SameButForText(original, w)
               PROVE  call[c].reports[i] = ReportOn(Chain[i], w, Governed(Chain[i], w))
    BY DEF ReportsHideText
  <2>1. IsRequest(original) /\ IsRequest(w)
    BY CallFacts, PolicyAssumption
  <2>2. call[c].reports[i] = Audit(i)
    BY CallFacts DEF Recorded
  <2> QED
    BY <2>1, <2>2, ReportHidesText DEF Audit, ForProvider
<1> QED
  BY <1>1, Invariance, PTL
=============================================================================
