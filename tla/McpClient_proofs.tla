-------------------------- MODULE McpClient_proofs --------------------------
(***************************************************************************)
(* A client over either transport, for every set of callers and every      *)
(* number of calls, messages and events.  First the connection over the    *)
(* pipes: the table of pending calls is exact, no response is lost or goes *)
(* to another call.  Then the connection over HTTP, which keeps its        *)
(* session.  A call over either is what Transport promises.                *)
(***************************************************************************)
EXTENDS McpClient, SequenceTheorems, TLAPS

-----------------------------------------------------------------------------
(* The connection over the pipes *)

Busy(c) == pc[c] # "idle"

\* The requests that are out: in the pipe to the server or read by it.
Out == requests \cup {stdin[k] : k \in DOMAIN stdin}

\* Ids are given out once: a call under way has one of those given out, and
\* its request is new until it is sent.
IdsAreFresh ==
    /\ Out \subseteq 1..nextID
    /\ \A c \in Callers : Busy(c) => id[c] \in 1..nextID
    /\ \A c \in Callers : pc[c] = "send" => id[c] \notin Out

\* A response stays itself on its way: in the pipe, in the loop's hands and in
\* a channel it is the answer of the server to the request it names.
ResponsesAreAnswers ==
    /\ \A k \in DOMAIN pipe : pipe[k] \in Ids => pipe[k] \in answered
    /\ IF loop = "found" THEN held \in answered ELSE held = 0
    /\ \A i \in Ids : ch[i] # Empty => ch[i] = i /\ i \in answered
    /\ \A c \in Callers : outcome[c] = "result" => id[c] \in Ids /\ ch[id[c]] = id[c]

CInv == TypeOK /\ PendingIsExact /\ IdsAreFresh /\ ResponsesAreAnswers /\ NoLostResponse

LEMMA IdFacts ==
    /\ MaxCalls \in Nat /\ Ids \subseteq Nat /\ 0 \notin Ids /\ -1 \notin Ids
    /\ \A n \in 0..MaxCalls : 1..n \subseteq Ids
    /\ \A n \in 0..MaxCalls : n < MaxCalls =>
          n + 1 \in Ids /\ n + 1 \notin 1..n /\ 1..(n + 1) = (1..n) \cup {n + 1}
BY ConnAssumption, SMT DEF Ids

\* A connection that is just open.
LEMMA InitCInv == Init => CInv
<1> SUFFICES ASSUME Init PROVE CInv
  OBVIOUS
<1>1. TypeOK
  <2>1. nextID \in 0..MaxCalls /\ held \in 0..MaxCalls /\ sent \in 0..MaxMessages
    BY ConnAssumption, SMT DEF Init
  <2>2. id \in [Callers -> 0..MaxCalls]
    BY IdFacts, SMT DEF Init
  <2>3. pipe \in Seq(Messages)
    BY DEF Init
  <2> QED
    BY <2>1, <2>2, <2>3 DEF Init, TypeOK, Outcomes, Empty
<1>2. PendingIsExact /\ IdsAreFresh
  BY SMT DEF Init, PendingIsExact, IdsAreFresh, Busy, Out
<1>3. ResponsesAreAnswers /\ NoLostResponse
  BY SMT DEF Init, ResponsesAreAnswers, NoLostResponse, Empty
<1> QED
  BY <1>1, <1>2, <1>3 DEF CInv

-----------------------------------------------------------------------------
(* One lemma for each part of the invariant *)

LEMMA NextTypeOK == CInv /\ [Next]_vars => TypeOK'
<1> SUFFICES ASSUME CInv, [Next]_vars PROVE TypeOK'
  OBVIOUS
<1> USE DEF CInv, TypeOK, Outcomes
<1>1. ASSUME NEW c \in Callers, Register(c) PROVE TypeOK'
  <2>1. nextID + 1 \in Ids /\ nextID' \in 0..MaxCalls /\ nextID + 1 \in 0..MaxCalls
    BY <1>1, ConnAssumption, SMT DEF Register, Ids
  <2> QED
    BY <1>1, <2>1 DEF Register, serverVars
<1>2. ASSUME NEW c \in Callers, Cancel(c) PROVE TypeOK'
  BY <1>2 DEF Cancel, serverVars
<1>3. ASSUME NEW c \in Callers, Send(c) PROVE TypeOK'
  <2>1. id[c] \in Ids
    BY <1>3, IdFacts DEF Send, IdsAreFresh, Busy
  <2>2. stdin' \in Seq(Ids)
    <3>1. stdin' = stdin \/ stdin' = Append(stdin, id[c])
      BY <1>3 DEF Send
    <3>2. stdin \in Seq(Ids)
      OBVIOUS
    <3>3. Append(stdin, id[c]) \in Seq(Ids)
      BY <2>1, <3>2, AppendProperties
    <3> QED
      BY <3>1, <3>2, <3>3
  <2> QED
    BY <1>3, <2>2 DEF Send, LeaveWith
<1>4. ASSUME NEW c \in Callers, Receive(c) \/ ContextDone(c) \/ ConnectionClosed(c) PROVE TypeOK'
  BY <1>4 DEF Receive, ContextDone, ConnectionClosed, LeaveWith, serverVars
<1>5. ASSUME NEW c \in Callers, Unregister(c) PROVE TypeOK'
  BY <1>5 DEF Unregister, serverVars
<1>6. CASE Read
  <2>1. pipe' \in Seq(Messages)
    BY <1>6 DEF Read
  <2>2. held' \in 0..MaxCalls
    <3>1. \/ held' = 0 \/ held' = held
          \/ held' = Head(pipe) /\ Head(pipe) \in pending
      BY <1>6 DEF Read
    <3>2. 0 \in 0..MaxCalls /\ \A i \in Ids : i \in 0..MaxCalls
      BY ConnAssumption, SMT DEF Ids
    <3> QED
      BY <3>1, <3>2
  <2> QED
    BY <1>6, <2>1, <2>2 DEF Read, callVars, serverVars
<1>7. CASE Deliver
  <2>1. held \in Ids /\ held' \in 0..MaxCalls
    BY <1>7, ConnAssumption, SMT DEF Deliver, ResponsesAreAnswers
  <2> QED
    BY <1>7, <2>1 DEF Deliver, callVars, serverVars
<1>8. CASE HandlerReturns \/ ScanFails
  BY <1>8 DEF HandlerReturns, ScanFails, callVars, serverVars
<1>9. ASSUME NEW m \in Messages, ServerSends(m) PROVE TypeOK'
  <2>1. sent' \in 0..MaxMessages
    BY <1>9, ConnAssumption, SMT DEF ServerSends
  <2>2. pipe' \in Seq(Messages)
    BY <1>9 DEF ServerSends
  <2>3. answered' \subseteq requests
    BY <1>9, IdFacts DEF ServerSends, Notification, Oversized
  <2> QED
    BY <1>9, <2>1, <2>2, <2>3 DEF ServerSends, callVars
<1>10. CASE ServerReads \/ ServerExits
  <2>1. stdin' \in Seq(Ids) /\ requests' \subseteq Ids /\ requests \subseteq requests'
    <3>1. CASE ServerReads
      <4>1. stdin # <<>> /\ stdin' = Tail(stdin) /\ requests' = requests \cup {Head(stdin)}
        BY <3>1 DEF ServerReads
      <4>2. Head(stdin) \in Ids /\ stdin' \in Seq(Ids)
        BY <4>1
      <4> QED
        BY <4>1, <4>2
    <3>2. CASE ServerExits
      <4>1. stdin' = <<>> /\ requests' = requests
        BY <3>2 DEF ServerExits
      <4> QED
        BY <4>1
    <3> QED
      BY <1>10, <3>1, <3>2
  <2> QED
    BY <1>10, <2>1 DEF ServerReads, ServerExits, callVars
<1>11. CASE CloseStdin \/ WaitReturns
  <2>1. pipe' \in Seq(Messages)
    BY <1>11 DEF CloseStdin, WaitReturns
  <2> QED
    BY <1>11, <2>1 DEF CloseStdin, WaitReturns, callVars
<1>12. CASE UNCHANGED vars
  BY <1>12 DEF vars
<1> QED
  BY <1>1, <1>2, <1>3, <1>4, <1>5, <1>6, <1>7, <1>8, <1>9, <1>10, <1>11, <1>12
  DEF Next, CallerStep, LoopStep

LEMMA NextPending == CInv /\ [Next]_vars => PendingIsExact'
<1> SUFFICES ASSUME CInv, [Next]_vars PROVE PendingIsExact'
  OBVIOUS
<1> USE DEF CInv, TypeOK
<1>1. ASSUME NEW c \in Callers, Register(c) PROVE PendingIsExact'
  <2>1. nextID + 1 \notin 1..nextID
    BY <1>1, IdFacts DEF Register
  <2>2. \A d \in Callers \ {c} : pc'[d] = pc[d] /\ id'[d] = id[d]
    BY <1>1 DEF Register
  <2>3. pc[c] = "idle" /\ pc'[c] = "send" /\ id'[c] = nextID + 1 /\ pending' = pending \cup {nextID + 1}
    BY <1>1 DEF Register
  <2>4. \A d \in Callers : pc[d] # "idle" => id[d] # nextID + 1
    BY <2>1 DEF IdsAreFresh, Busy
  <2>5. \A i : i \in pending' <=> \E d \in Callers : pc'[d] # "idle" /\ i = id'[d]
    <3>1. \A i : i \in pending <=> \E d \in Callers : pc[d] # "idle" /\ i = id[d]
      BY DEF PendingIsExact
    <3> QED
      BY <2>2, <2>3, <3>1
  <2>6. pending' = {id'[d] : d \in {x \in Callers : pc'[x] # "idle"}}
    BY <2>5
  <2>7. \A d, e \in Callers : d # e /\ pc'[d] # "idle" /\ pc'[e] # "idle" => id'[d] # id'[e]
    BY <2>2, <2>3, <2>4 DEF PendingIsExact
  <2> QED
    BY <2>6, <2>7 DEF PendingIsExact
<1>2. ASSUME NEW c \in Callers, Cancel(c) PROVE PendingIsExact'
  BY <1>2 DEF Cancel, PendingIsExact
<1>3. ASSUME NEW c \in Callers,
             Send(c) \/ Receive(c) \/ ContextDone(c) \/ ConnectionClosed(c)
      PROVE  PendingIsExact'
  <2>1. id' = id /\ pending' = pending
    BY <1>3 DEF Send, Receive, ContextDone, ConnectionClosed, LeaveWith
  <2>2. \A d \in Callers : (pc'[d] # "idle") <=> (pc[d] # "idle")
    BY <1>3 DEF Send, Receive, ContextDone, ConnectionClosed, LeaveWith
  <2> QED
    BY <2>1, <2>2 DEF PendingIsExact
<1>4. ASSUME NEW c \in Callers, Unregister(c) PROVE PendingIsExact'
  <2>1. \A d \in Callers \ {c} : pc'[d] = pc[d]
    BY <1>4 DEF Unregister
  <2>2. id' = id /\ pending' = pending \ {id[c]} /\ pc'[c] = "idle" /\ pc[c] # "idle"
    BY <1>4 DEF Unregister
  <2>3. \A d \in Callers \ {c} : pc[d] # "idle" => id[d] # id[c]
    BY <2>2 DEF PendingIsExact
  <2>5. \A i : i \in pending' <=> \E d \in Callers : pc'[d] # "idle" /\ i = id'[d]
    <3>1. \A i : i \in pending <=> \E d \in Callers : pc[d] # "idle" /\ i = id[d]
      BY DEF PendingIsExact
    <3> QED
      BY <2>1, <2>2, <2>3, <3>1
  <2>6. pending' = {id'[d] : d \in {x \in Callers : pc'[x] # "idle"}}
    BY <2>5
  <2>7. \A d, e \in Callers : d # e /\ pc'[d] # "idle" /\ pc'[e] # "idle" => id'[d] # id'[e]
    BY <2>1, <2>2 DEF PendingIsExact
  <2> QED
    BY <2>6, <2>7 DEF PendingIsExact
<1>5. CASE LoopStep
  BY <1>5 DEF LoopStep, Read, Deliver, HandlerReturns, ScanFails, callVars, PendingIsExact
<1>6. ASSUME NEW m \in Messages, ServerSends(m) PROVE PendingIsExact'
  BY <1>6 DEF ServerSends, callVars, PendingIsExact
<1>7. CASE ServerReads \/ ServerExits \/ CloseStdin \/ WaitReturns
  BY <1>7 DEF ServerReads, ServerExits, CloseStdin, WaitReturns, callVars, PendingIsExact
<1>8. CASE UNCHANGED vars
  BY <1>8 DEF vars, PendingIsExact
<1> QED
  BY <1>1, <1>2, <1>3, <1>4, <1>5, <1>6, <1>7, <1>8 DEF Next, CallerStep

LEMMA NextIds == CInv /\ [Next]_vars => IdsAreFresh'
<1> SUFFICES ASSUME CInv, [Next]_vars PROVE IdsAreFresh'
  OBVIOUS
<1> USE DEF CInv, TypeOK
<1>1. ASSUME NEW c \in Callers, Register(c) PROVE IdsAreFresh'
  <2>1. nextID + 1 \notin 1..nextID /\ 1..(nextID + 1) = (1..nextID) \cup {nextID + 1}
    BY <1>1, IdFacts DEF Register
  <2>2. \A d \in Callers \ {c} : pc'[d] = pc[d] /\ id'[d] = id[d]
    BY <1>1 DEF Register
  <2>3. id'[c] = nextID + 1 /\ nextID' = nextID + 1 /\ Out' = Out
    BY <1>1 DEF Register, serverVars, Out
  <2> QED
    BY <2>1, <2>2, <2>3 DEF IdsAreFresh, Busy
<1>2. ASSUME NEW c \in Callers, Cancel(c) PROVE IdsAreFresh'
  BY <1>2 DEF Cancel, serverVars, IdsAreFresh, Busy, Out
<1>3. ASSUME NEW c \in Callers, Send(c) PROVE IdsAreFresh'
  <2>1. id' = id /\ nextID' = nextID
    BY <1>3 DEF Send, LeaveWith
  <2>2. pc'[c] # "send" /\ Busy(c) /\ \A d \in Callers \ {c} : pc'[d] = pc[d]
    BY <1>3 DEF Send, LeaveWith, Busy
  <2>3. Out' \subseteq Out \cup {id[c]}
    <3>1. requests' = requests /\ (stdin' = stdin \/ stdin' = Append(stdin, id[c]))
      BY <1>3 DEF Send
    <3>2. ASSUME NEW k \in DOMAIN stdin'
          PROVE  stdin'[k] = id[c] \/ (k \in DOMAIN stdin /\ stdin'[k] = stdin[k])
      <4>1. CASE stdin' = stdin
        BY <4>1
      <4>2. CASE stdin' = Append(stdin, id[c])
        <5>1. id[c] \in Ids
          BY <2>2, IdFacts DEF IdsAreFresh
        <5> QED
          BY <4>2, <5>1
      <4> QED
        BY <3>1, <4>1, <4>2
    <3> QED
      BY <3>1, <3>2 DEF Out
  <2>4. \A d \in Callers : Busy(d)' => Busy(d)
    BY <2>2 DEF Busy
  <2>5. \A d \in Callers \ {c} : pc[d] = "send" => id[d] # id[c]
    BY <2>2 DEF PendingIsExact, Busy
  <2> QED
    BY <2>1, <2>2, <2>3, <2>4, <2>5 DEF IdsAreFresh
<1>4. ASSUME NEW c \in Callers,
             Receive(c) \/ ContextDone(c) \/ ConnectionClosed(c) \/ Unregister(c)
      PROVE  IdsAreFresh'
  <2>1. id' = id /\ nextID' = nextID /\ Out' = Out
    BY <1>4 DEF Receive, ContextDone, ConnectionClosed, Unregister, LeaveWith, serverVars, Out
  <2>2. \A d \in Callers : (pc'[d] = "send" => pc[d] = "send") /\ (pc'[d] # "idle" => pc[d] # "idle")
    BY <1>4 DEF Receive, ContextDone, ConnectionClosed, Unregister, LeaveWith
  <2> QED
    BY <2>1, <2>2 DEF IdsAreFresh, Busy
<1>5. CASE LoopStep
  BY <1>5 DEF LoopStep, Read, Deliver, HandlerReturns, ScanFails, callVars, serverVars,
              IdsAreFresh, Busy, Out
<1>6. CASE (\E m \in Messages : ServerSends(m)) \/ CloseStdin \/ WaitReturns
  BY <1>6 DEF ServerSends, CloseStdin, WaitReturns, callVars, IdsAreFresh, Busy, Out
<1>7. CASE ServerReads \/ ServerExits
  <2>1. Out' \subseteq Out
    <3>1. CASE ServerExits
      BY <3>1 DEF ServerExits, Out
    <3>2. CASE ServerReads
      <4>1. stdin # <<>> /\ stdin' = Tail(stdin) /\ requests' = requests \cup {Head(stdin)}
        BY <3>2 DEF ServerReads
      <4>2. \A k \in DOMAIN stdin' : k + 1 \in DOMAIN stdin /\ stdin'[k] = stdin[k + 1]
        BY <4>1
      <4>3. Head(stdin) = stdin[1] /\ 1 \in DOMAIN stdin
        BY <4>1
      <4> QED
        BY <4>1, <4>2, <4>3 DEF Out
    <3> QED
      BY <1>7, <3>1, <3>2
  <2>2. nextID' = nextID /\ pc' = pc /\ id' = id
    BY <1>7 DEF ServerReads, ServerExits, callVars
  <2>3. \A c \in Callers : (pc[c] = "send" => id[c] \notin Out) /\ (Busy(c)' => Busy(c))
    BY <2>2 DEF IdsAreFresh, Busy
  <2> QED
    BY <2>1, <2>2, <2>3 DEF IdsAreFresh
<1>8. CASE UNCHANGED vars
  BY <1>8 DEF vars, IdsAreFresh, Busy, Out
<1> QED
  BY <1>1, <1>2, <1>3, <1>4, <1>5, <1>6, <1>7, <1>8 DEF Next, CallerStep

LEMMA NextAnswers == CInv /\ [Next]_vars => ResponsesAreAnswers'
<1> SUFFICES ASSUME CInv, [Next]_vars PROVE ResponsesAreAnswers'
  OBVIOUS
<1> USE DEF CInv, TypeOK
<1>1. ASSUME NEW c \in Callers, Register(c) PROVE ResponsesAreAnswers'
  <2>1. outcome'[c] = "none" /\ \A d \in Callers \ {c} : outcome'[d] = outcome[d] /\ id'[d] = id[d]
    BY <1>1 DEF Register
  <2> QED
    BY <1>1, <2>1 DEF Register, serverVars, ResponsesAreAnswers
<1>2. ASSUME NEW c \in Callers, Cancel(c) \/ Unregister(c) PROVE ResponsesAreAnswers'
  BY <1>2 DEF Cancel, Unregister, serverVars, ResponsesAreAnswers
<1>3. ASSUME NEW c \in Callers, Send(c) \/ ContextDone(c) \/ ConnectionClosed(c)
      PROVE  ResponsesAreAnswers'
  <2>1. \A d \in Callers : outcome'[d] = "result" => outcome[d] = "result"
    BY <1>3 DEF Send, ContextDone, ConnectionClosed, LeaveWith
  <2>2. UNCHANGED <<id, ch, answered, pipe, loop, held>>
    BY <1>3 DEF Send, ContextDone, ConnectionClosed, LeaveWith, serverVars
  <2> QED
    BY <2>1, <2>2 DEF ResponsesAreAnswers
<1>4. ASSUME NEW c \in Callers, Receive(c) PROVE ResponsesAreAnswers'
  <2>1. id[c] \in Ids /\ ch[id[c]] = id[c]
    BY <1>4, IdFacts DEF Receive, ResponsesAreAnswers, IdsAreFresh, Busy
  <2>2. UNCHANGED <<id, ch, answered, pipe, loop, held>>
    BY <1>4 DEF Receive, LeaveWith, serverVars
  <2>3. \A d \in Callers \ {c} : outcome'[d] = outcome[d]
    BY <1>4 DEF Receive, LeaveWith
  <2> QED
    BY <2>1, <2>2, <2>3 DEF ResponsesAreAnswers
<1>5. CASE Read
  <2>1. pipe # <<>> /\ pipe' = Tail(pipe) /\ UNCHANGED <<ch, answered, id, outcome>>
    BY <1>5 DEF Read, callVars, serverVars
  <2>2. \A k \in DOMAIN pipe' : k + 1 \in DOMAIN pipe /\ pipe'[k] = pipe[k + 1]
    BY <2>1
  <2>3. Head(pipe) = pipe[1] /\ 1 \in DOMAIN pipe
    BY <2>1
  <2>4. IF loop' = "found" THEN held' \in answered ELSE held' = 0
    <3>1. loop = "read" /\ held = 0
      BY <1>5 DEF Read, ResponsesAreAnswers
    <3>2. \/ loop' = "handler" /\ held' = 0
          \/ loop' = "found" /\ held' = Head(pipe) /\ Head(pipe) \in pending
          \/ loop' = loop /\ held' = held
      BY <1>5 DEF Read
    <3> QED
      BY <2>3, <3>1, <3>2 DEF ResponsesAreAnswers
  <2> QED
    BY <2>1, <2>2, <2>4 DEF ResponsesAreAnswers
<1>6. CASE Deliver
  <2>1. held \in Ids /\ held \in answered /\ held # 0
    BY <1>6, IdFacts DEF Deliver, ResponsesAreAnswers
  <2>2. UNCHANGED <<answered, id, outcome, pipe>> /\ loop' = "read" /\ held' = 0
    BY <1>6 DEF Deliver, callVars, serverVars
  <2>3. \A i \in Ids : ch'[i] = ch[i] \/ (ch[i] = Empty /\ i = held /\ ch'[i] = held)
    BY <1>6, <2>1 DEF Deliver
  <2>4. \A i \in Ids : ch'[i] # Empty => ch'[i] = i /\ i \in answered
    BY <2>1, <2>3 DEF ResponsesAreAnswers
  <2>5. \A c \in Callers : outcome[c] = "result" => ch'[id[c]] = id[c]
    BY <2>3, IdFacts DEF ResponsesAreAnswers, Empty
  <2> QED
    BY <2>2, <2>4, <2>5 DEF ResponsesAreAnswers
<1>7. CASE HandlerReturns \/ ScanFails
  BY <1>7 DEF HandlerReturns, ScanFails, callVars, serverVars, ResponsesAreAnswers
<1>8. ASSUME NEW m \in Messages, ServerSends(m) PROVE ResponsesAreAnswers'
  <2>1. /\ pipe' = Append(pipe, m) /\ answered' = answered \cup ({m} \cap Ids)
        /\ UNCHANGED <<ch, id, outcome, loop, held>>
    BY <1>8 DEF ServerSends, callVars
  <2>2. \A k \in DOMAIN pipe' : pipe'[k] = m \/ (k \in DOMAIN pipe /\ pipe'[k] = pipe[k])
    BY <2>1
  <2> QED
    BY <2>1, <2>2 DEF ResponsesAreAnswers
<1>9. CASE ServerReads \/ ServerExits \/ CloseStdin
  BY <1>9 DEF ServerReads, ServerExits, CloseStdin, callVars, ResponsesAreAnswers
<1>10. CASE WaitReturns
  <2>1. UNCHANGED <<ch, answered, id, outcome, loop, held>>
    BY <1>10 DEF WaitReturns, callVars
  <2>2. \A k \in DOMAIN pipe' : k \in DOMAIN pipe /\ pipe'[k] = pipe[k]
    BY <1>10 DEF WaitReturns
  <2> QED
    BY <2>1, <2>2 DEF ResponsesAreAnswers
<1>11. CASE UNCHANGED vars
  BY <1>11 DEF vars, ResponsesAreAnswers
<1> QED
  BY <1>1, <1>2, <1>3, <1>4, <1>5, <1>6, <1>7, <1>8, <1>9, <1>10, <1>11
  DEF Next, CallerStep, LoopStep

LEMMA NextNoLoss == CInv /\ [Next]_vars => NoLostResponse'
<1> SUFFICES ASSUME CInv, [Next]_vars PROVE NoLostResponse'
  OBVIOUS
<1> USE DEF CInv, TypeOK
<1>1. ASSUME NEW c \in Callers,
             \/ Register(c) \/ Cancel(c) \/ Receive(c) \/ ContextDone(c)
             \/ ConnectionClosed(c) \/ Unregister(c)
      PROVE  NoLostResponse'
  <2>1. UNCHANGED <<ch, answered, pipe, loop, held, closed>>
    BY <1>1 DEF Register, Cancel, Receive, ContextDone, ConnectionClosed, Unregister,
                LeaveWith, serverVars
  <2>2. \A d \in Callers : pc'[d] = "wait" => pc[d] = "wait" /\ id'[d] = id[d]
    BY <1>1 DEF Register, Cancel, Receive, ContextDone, ConnectionClosed, Unregister, LeaveWith
  <2> QED
    BY <2>1, <2>2 DEF NoLostResponse
<1>2. ASSUME NEW c \in Callers, Send(c) PROVE NoLostResponse'
  <2>1. UNCHANGED <<ch, answered, pipe, loop, held, id, closed>>
    BY <1>2 DEF Send, LeaveWith
  <2>2. \A d \in Callers \ {c} : pc'[d] = "wait" => pc[d] = "wait"
    BY <1>2 DEF Send, LeaveWith
  <2>3. id[c] \notin answered
    BY <1>2 DEF Send, IdsAreFresh, Out
  <2> QED
    BY <2>1, <2>2, <2>3 DEF NoLostResponse
<1>3. CASE Read
  <2>1. /\ UNCHANGED <<ch, answered, pc, id, closed>> /\ pipe' = Tail(pipe) /\ pipe # <<>>
        /\ loop = "read"
    BY <1>3 DEF Read, callVars, serverVars
  <2>2. held = 0
    BY <2>1 DEF ResponsesAreAnswers
  <2> SUFFICES ASSUME NEW c \in Callers, pc[c] = "wait", id[c] \in answered, closed # "both"
               PROVE  \/ ch[id[c]] = id[c] \/ held' = id[c]
                      \/ \E k \in DOMAIN pipe' : pipe'[k] = id[c]
    BY <2>1 DEF NoLostResponse
  <2>3. id[c] \in Ids /\ id[c] # 0 /\ id[c] \in pending
    BY IdFacts DEF IdsAreFresh, PendingIsExact, Busy
  <2>4. CASE ch[id[c]] = id[c]
    BY <2>4
  <2>5. CASE \E k \in DOMAIN pipe : pipe[k] = id[c]
    <3>1. PICK k \in DOMAIN pipe : pipe[k] = id[c]
      BY <2>5
    <3>2. CASE k = 1
      <4>1. Head(pipe) = id[c]
        BY <2>1, <3>1, <3>2
      <4>2. held' = id[c]
        BY <1>3, <2>3, <4>1 DEF Read, Notification
      <4> QED
        BY <4>2
    <3>3. CASE k # 1
      <4>1. k - 1 \in DOMAIN Tail(pipe) /\ Tail(pipe)[k - 1] = pipe[k]
        BY <2>1, <3>1, <3>3
      <4> QED
        BY <2>1, <3>1, <4>1
    <3> QED
      BY <3>2, <3>3
  <2> QED
    BY <2>1, <2>2, <2>3, <2>4, <2>5 DEF NoLostResponse
<1>4. CASE Deliver
  <2>1. UNCHANGED <<answered, pc, id, pipe, closed>>
    BY <1>4 DEF Deliver, callVars, serverVars
  <2>2. loop = "found" /\ held \in Ids /\ (ch[held] = Empty \/ ch[held] = held)
    BY <1>4 DEF Deliver, ResponsesAreAnswers
  <2>3. ch'[held] = held /\ \A i \in Ids \ {held} : ch'[i] = ch[i]
    BY <1>4, <2>2 DEF Deliver
  <2>4. \A c \in Callers : pc[c] = "wait" => id[c] \in Ids
    BY IdFacts DEF IdsAreFresh, Busy
  <2> QED
    BY <2>1, <2>2, <2>3, <2>4 DEF NoLostResponse
<1>5. CASE HandlerReturns \/ ScanFails
  BY <1>5 DEF HandlerReturns, ScanFails, callVars, serverVars, NoLostResponse
<1>6. ASSUME NEW m \in Messages, ServerSends(m) PROVE NoLostResponse'
  <2>1. /\ pipe' = Append(pipe, m) /\ answered' = answered \cup ({m} \cap Ids)
        /\ UNCHANGED <<ch, pc, id, loop, held, closed>>
    BY <1>6 DEF ServerSends, callVars
  <2>2. \A k \in DOMAIN pipe : k \in DOMAIN pipe' /\ pipe'[k] = pipe[k]
    BY <2>1
  <2>3. \E k \in DOMAIN pipe' : pipe'[k] = m
    <3>1. Len(pipe) + 1 \in DOMAIN pipe' /\ pipe'[Len(pipe) + 1] = m
      BY <2>1
    <3> QED
      BY <3>1
  <2> QED
    BY <2>1, <2>2, <2>3 DEF NoLostResponse
<1>7. CASE ServerReads \/ ServerExits \/ CloseStdin \/ WaitReturns
  BY <1>7 DEF ServerReads, ServerExits, CloseStdin, WaitReturns, callVars, NoLostResponse
<1>8. CASE UNCHANGED vars
  BY <1>8 DEF vars, NoLostResponse
<1> QED
  BY <1>1, <1>2, <1>3, <1>4, <1>5, <1>6, <1>7, <1>8 DEF Next, CallerStep, LoopStep

\* The strengthening holds in every state of the connection.
LEMMA CInvAlways == Spec => []CInv
<1>1. CInv /\ [Next]_vars => CInv'
  BY NextTypeOK, NextPending, NextIds, NextAnswers, NextNoLoss DEF CInv
<1> QED
  BY <1>1, InitCInv, PTL DEF Spec

-----------------------------------------------------------------------------
\* The table of pending calls never leaks an entry and never confuses two
\* calls, however they end (conn.go:59-68).
THEOREM PendingExact == Spec => []PendingIsExact
<1>1. CInv => PendingIsExact
  BY DEF CInv
<1> QED
  BY <1>1, CInvAlways, PTL

\* No response to a waiting call is dropped while the read loop runs
\* (conn.go:59-72, 125-133).
THEOREM NothingLost == Spec => []NoLostResponse
<1>1. CInv => NoLostResponse
  BY DEF CInv
<1> QED
  BY <1>1, CInvAlways, PTL

\* A late, duplicate or unknown response never reaches another call
\* (conn.go:123-133).
THEOREM OwnResponses == Spec => []OwnResponseOnly
<1>1. CInv => OwnResponseOnly
  BY DEF CInv, ResponsesAreAnswers, OwnResponseOnly
<1> QED
  BY <1>1, CInvAlways, PTL

-----------------------------------------------------------------------------
(* The refinement: a call over the pipes is a call of the transport. *)

LEMMA InitPromise == Init => Promise!Init
BY SMT DEF Init, Promise!Init

\* The moves of a caller: a new call, a call that returns, or nothing that the
\* transport's callers see.
LEMMA RegisterIsCall ==
    ASSUME CInv, NEW c \in Callers, Register(c)
    PROVE  nextID + 1 \in Ids /\ Promise!call(c, nextID + 1)
<1> USE DEF CInv, TypeOK
<1>1. nextID + 1 \in Ids /\ nextID + 1 \notin 1..nextID /\ 1..nextID' = (1..nextID) \cup {nextID + 1}
  BY IdFacts DEF Register
<1>2. pc[c] = "idle" /\ answered' = answered
  BY DEF Register, serverVars
<1>3. pc' = [pc EXCEPT ![c] = "send"] /\ id' = [id EXCEPT ![c] = nextID + 1]
      /\ outcome' = [outcome EXCEPT ![c] = "none"]
  BY DEF Register
<1> QED
  BY <1>1, <1>2, <1>3 DEF Promise!call

LEMMA LeavingIsReturn ==
    ASSUME CInv, NEW c \in Callers, NEW o \in Outcomes \ {"none"},
           pc[c] \in {"send", "wait"}, LeaveWith(c, o), answered' = answered,
           o = "result" => id[c] \in answered
    PROVE  Promise!Return(c)
<1> USE DEF CInv, TypeOK
<1>1. id[c] # 0
  BY IdFacts DEF IdsAreFresh, Busy
<1>2. pc' = [pc EXCEPT ![c] = "leave"] /\ outcome' = [outcome EXCEPT ![c] = o]
      /\ nextID' = nextID /\ id' = id
  BY DEF LeaveWith
<1> QED
  BY <1>1, <1>2 DEF Promise!Return, Outcomes

LEMMA NextPromise == CInv /\ [Next]_vars => [Promise!Next]_(Promise!vars)
<1> SUFFICES ASSUME CInv, [Next]_vars PROVE [Promise!Next]_(Promise!vars)
  OBVIOUS
<1> USE DEF CInv, TypeOK
<1>1. ASSUME NEW c \in Callers, Register(c) PROVE Promise!Next
  <2>1. nextID + 1 \in Ids /\ Promise!call(c, nextID + 1)
    BY <1>1, RegisterIsCall
  <2>2. \E i \in Ids : Promise!call(c, i)
    BY <2>1 DEF Promise!call
  <2> QED
    BY <2>2 DEF Promise!Next
<1>2. ASSUME NEW c \in Callers, Send(c) PROVE [Promise!Next]_(Promise!vars)
  <2>1. CASE Writable
    <3>1. /\ UNCHANGED <<nextID, id, outcome, answered>>
          /\ \A d \in Callers : pc'[d] \in {"send", "wait"} <=> pc[d] \in {"send", "wait"}
      BY <1>2, <2>1 DEF Send
    <3> QED
      BY <3>1 DEF Promise!vars
  <2>2. CASE ~ Writable
    <3>1. LeaveWith(c, "sendError") /\ answered' = answered /\ pc[c] = "send"
      BY <1>2, <2>2 DEF Send
    <3>2. Promise!Return(c)
      BY <3>1, LeavingIsReturn DEF Outcomes
    <3> QED
      BY <3>2 DEF Promise!Next
  <2> QED
    BY <2>1, <2>2
<1>3. ASSUME NEW c \in Callers, Receive(c) PROVE Promise!Next
  <2>1. LeaveWith(c, "result") /\ answered' = answered /\ pc[c] = "wait"
    BY <1>3 DEF Receive, serverVars
  <2>2. id[c] \in answered
    BY <1>3, IdFacts DEF Receive, ResponsesAreAnswers, IdsAreFresh, Busy
  <2>3. Promise!Return(c)
    BY <2>1, <2>2, LeavingIsReturn DEF Outcomes
  <2> QED
    BY <2>3 DEF Promise!Next
<1>4. ASSUME NEW c \in Callers, ContextDone(c) \/ ConnectionClosed(c) PROVE Promise!Next
  <2>1. pc[c] = "wait" /\ answered' = answered
    BY <1>4 DEF ContextDone, ConnectionClosed, serverVars
  <2>2. LeaveWith(c, "ctx") \/ LeaveWith(c, "closed")
    BY <1>4 DEF ContextDone, ConnectionClosed
  <2>3. Promise!Return(c)
    BY <2>1, <2>2, LeavingIsReturn DEF Outcomes
  <2> QED
    BY <2>3 DEF Promise!Next
<1>5. ASSUME NEW c \in Callers, Unregister(c) PROVE UNCHANGED Promise!vars
  <2>1. /\ UNCHANGED <<nextID, id, outcome, answered>>
        /\ \A d \in Callers : pc'[d] \in {"send", "wait"} <=> pc[d] \in {"send", "wait"}
    BY <1>5 DEF Unregister, serverVars
  <2> QED
    BY <2>1 DEF Promise!vars
<1>6. ASSUME NEW c \in Callers, Cancel(c) PROVE UNCHANGED Promise!vars
  BY <1>6 DEF Cancel, serverVars, Promise!vars
<1>7. CASE LoopStep
  BY <1>7 DEF LoopStep, Read, Deliver, HandlerReturns, ScanFails, callVars, serverVars,
              Promise!vars
<1>8. ASSUME NEW m \in Messages, ServerSends(m) PROVE [Promise!Next]_(Promise!vars)
  <2>1. UNCHANGED <<nextID, pc, id, outcome>> /\ answered' = answered \cup ({m} \cap Ids)
    BY <1>8 DEF ServerSends, callVars
  <2>2. CASE m \in Ids
    <3>1. m \in 1..nextID
      BY <1>8, <2>2, IdFacts DEF ServerSends, IdsAreFresh, Out, Notification, Oversized
    <3>2. Promise!Answer(m)
      BY <2>1, <2>2, <3>1 DEF Promise!Answer
    <3> QED
      BY <2>2, <3>2 DEF Promise!Next
  <2>3. CASE m \notin Ids
    BY <2>1, <2>3 DEF Promise!vars
  <2> QED
    BY <2>2, <2>3
<1>9. CASE ServerReads \/ ServerExits \/ CloseStdin \/ WaitReturns
  BY <1>9 DEF ServerReads, ServerExits, CloseStdin, WaitReturns, callVars, Promise!vars
<1>10. CASE UNCHANGED vars
  BY <1>10 DEF vars, Promise!vars
<1> QED
  BY <1>1, <1>2, <1>3, <1>4, <1>5, <1>6, <1>7, <1>8, <1>9, <1>10 DEF Next, CallerStep

\* Whatever order, copies or losses the messages suffer, a call over the pipes
\* returns a result only if the server answered that very request, and an error
\* otherwise (conn.go:40-139): the connection implements Transport.
THEOREM PipesKeepThePromise == Spec => Promise!Spec
<1>1. CInv /\ [Next]_vars => [Promise!Next]_(Promise!vars)
  BY NextPromise
<1> QED
  BY <1>1, InitPromise, CInvAlways, PTL DEF Spec, Promise!Spec
-----------------------------------------------------------------------------
(* The connection over HTTP *)

Tags == {Http!NoSession, Http!Session, Http!Unacceptable}
EventType == [kind : {"response", "request", "notification"}, id : Nat]
ReplyType == [status : {200, 404, 500}, session : Tags, type : {"json", "stream"},
              events : Seq(EventType)]
ExchangeType ==
    [pc : {"idle", "post", "reply", "stream"}, id : Nat,
     carries : {Http!NoSession, Http!Session}, reply : {<<>>} \cup ReplyType,
     outcome : {"none", "result", "error", "expired"}]
ServerType == [keeps : Tags, live : BOOLEAN, forgot : BOOLEAN, answered : SUBSET Nat,
               stranger : BOOLEAN]

Under(c) == exchange[c].pc # "idle"
Replied(c) == exchange[c].pc \in {"reply", "stream"}

HttpTypes ==
    /\ phase \in {"new", "initialize", "notify", "ready", "failed"}
    /\ lastID \in 0..MaxExchanges
    /\ sessionID \in {Http!NoSession, Http!Session}
    /\ exchange \in [Callers -> ExchangeType]
    /\ \A c \in Callers : Replied(c) => exchange[c].reply \in ReplyType
    /\ server \in ServerType

\* The id of an exchange is one given out, and what its reply has for a
\* response is one: the server has answered.
RepliesAreAnswers ==
    \A c \in Callers :
        /\ Under(c) => exchange[c].id \in 1..lastID
        /\ Replied(c) =>
              /\ exchange[c].pc = "reply" /\ exchange[c].reply.status = 200
                    /\ exchange[c].reply.type = "json" => exchange[c].id \in server.answered
              /\ \A k \in DOMAIN exchange[c].reply.events :
                    exchange[c].reply.events[k] = Http!Event("response", exchange[c].id) =>
                        exchange[c].id \in server.answered

\* The handshake's call is the first and is alone.  Once it has gone through, a
\* server that keeps sessions has one or has forgotten it, and the client and
\* every call that follows carry it.
KeepsSession == server.keeps = Http!Session
Opened == server.live \/ server.forgot

HandshakeIsAlone ==
    /\ phase = "new" <=> lastID = 0
    /\ \A c \in Callers : Under(c) =>
          /\ phase \in {"initialize", "ready"}
          /\ phase = "initialize" <=> exchange[c].id = 1
    /\ \A c, d \in Callers : phase = "initialize" /\ Under(c) /\ Under(d) => c = d

SessionIsCarried ==
    /\ server.live => KeepsSession
    /\ KeepsSession /\ phase \in {"notify", "ready"} =>
          sessionID = Http!Session /\ Opened
    /\ \A c \in Callers : KeepsSession /\ Under(c) /\ exchange[c].id # 1 =>
          exchange[c].carries = Http!Session
    /\ \A c \in Callers : KeepsSession /\ exchange[c].id = 1 =>
          /\ exchange[c].pc = "reply" /\ exchange[c].reply.status = 200 =>
                exchange[c].reply.session = Http!Session /\ Opened
          /\ exchange[c].pc = "stream" => sessionID = Http!Session /\ Opened

HInv == HttpTypes /\ RepliesAreAnswers /\ HandshakeIsAlone /\ SessionIsCarried /\ SessionIsKept

LEMMA TagsDiffer ==
    /\ Http!NoSession # Http!Session /\ Http!NoSession # Http!Unacceptable
    /\ Http!Session # Http!Unacceptable
BY DEF Http!NoSession, Http!Session, Http!Unacceptable

LEMMA HttpInit == Http!Init => HInv
<1> SUFFICES ASSUME Http!Init PROVE HInv
  OBVIOUS
<1>1. Http!Idle \in ExchangeType /\ Http!Idle.pc = "idle" /\ Http!Idle.id = 0
  BY DEF Http!Idle, ExchangeType, Http!NoSession
<1>2. server \in ServerType /\ ~ server.live /\ ~ server.stranger
  BY DEF Http!Init, ServerType, Tags
<1>3. lastID \in 0..MaxExchanges
  BY ClientAssumption DEF Http!Init
<1>4. \A c \in Callers : exchange[c] = Http!Idle
  BY DEF Http!Init
<1>5. HttpTypes /\ RepliesAreAnswers
  BY <1>1, <1>2, <1>3, <1>4 DEF Http!Init, HttpTypes, RepliesAreAnswers, Under, Replied
<1>6. HandshakeIsAlone /\ SessionIsCarried
  BY <1>1, <1>2, <1>4 DEF Http!Init, HandshakeIsAlone, SessionIsCarried, Under
<1> QED
  BY <1>2, <1>5, <1>6 DEF HInv, SessionIsKept, Http!SessionIsKept

\* A call that ends leaves an idle exchange; the handshake that ends with a
\* result must have brought the session.
LEMMA ReturnKeeps ==
    ASSUME HInv, NEW c \in Callers, NEW o \in {"result", "error", "expired"},
           Under(c), Http!Return(c, o), UNCHANGED <<lastID, server>>,
           sessionID' \in {sessionID, Http!Session},
           phase = "initialize" /\ o = "result" /\ KeepsSession =>
               sessionID' = Http!Session /\ Opened
    PROVE  HInv'
<1> USE DEF HInv
<1>1. /\ exchange'[c] = [Http!Idle EXCEPT !.outcome = o]
      /\ \A d \in Callers \ {c} : exchange'[d] = exchange[d]
      /\ exchange' \in [Callers -> ExchangeType]
  <2>1. [Http!Idle EXCEPT !.outcome = o] \in ExchangeType
    BY DEF Http!Idle, ExchangeType, Http!NoSession
  <2> QED
    BY <2>1 DEF Http!Return, HttpTypes
<1>2. exchange'[c].pc = "idle" /\ exchange'[c].id = 0
  BY <1>1 DEF Http!Idle
<1>3. phase' = IF phase # "initialize" THEN phase
               ELSE IF o = "result" THEN "notify" ELSE "failed"
  BY DEF Http!Return
<1>4. HttpTypes'
  BY <1>1, <1>2, <1>3 DEF HttpTypes, Replied
<1>5. RepliesAreAnswers'
  <2> SUFFICES ASSUME NEW d \in Callers, Under(d)'
               PROVE  RepliesAreAnswers!(d)'
    BY DEF RepliesAreAnswers, Under, Replied
  <2>1. d # c /\ exchange'[d] = exchange[d]
    BY <1>1, <1>2 DEF Under
  <2> QED
    BY <2>1 DEF RepliesAreAnswers, Under, Replied
<1>6. HandshakeIsAlone'
  BY <1>1, <1>2, <1>3 DEF HandshakeIsAlone, Under
<1>7. SessionIsCarried'
  <2>1. \A d \in Callers : exchange'[d] = exchange[d] \/ (exchange'[d].pc = "idle" /\ exchange'[d].id = 0)
    BY <1>1, <1>2
  <2>2. KeepsSession /\ phase' \in {"notify", "ready"} => sessionID' = Http!Session /\ Opened
    BY <1>3 DEF SessionIsCarried
  <2>3. /\ \A d \in Callers : KeepsSession /\ Under(d)' /\ exchange'[d].id # 1 =>
              exchange'[d].carries = Http!Session
        /\ \A d \in Callers : KeepsSession /\ exchange'[d].id = 1 =>
              /\ exchange'[d].pc = "reply" /\ exchange'[d].reply.status = 200 =>
                    exchange'[d].reply.session = Http!Session /\ Opened
              /\ exchange'[d].pc = "stream" => sessionID' = Http!Session /\ Opened
    BY <2>1 DEF SessionIsCarried, Under
  <2> QED
    BY <2>2, <2>3 DEF SessionIsCarried, KeepsSession, Opened
<1>8. SessionIsKept'
  BY DEF SessionIsKept, Http!SessionIsKept
<1> QED
  BY <1>4, <1>5, <1>6, <1>7, <1>8

LEMMA PostKeeps == ASSUME HInv, NEW c \in Callers, Http!Post(c) PROVE HInv'
<1> USE DEF HInv
<1> DEFINE e == [Http!Idle EXCEPT !.pc = "post", !.id = lastID + 1, !.carries = sessionID]
<1>1. /\ exchange'[c] = e
      /\ \A d \in Callers \ {c} : exchange'[d] = exchange[d]
      /\ exchange' = [exchange EXCEPT ![c] = e]
  BY DEF Http!Post, HttpTypes
<1>2. /\ e.pc = "post" /\ e.id = lastID + 1 /\ e.carries = sessionID
      /\ e.reply = <<>> /\ e.outcome = "none"
  BY DEF Http!Idle
<1>3. lastID' = lastID + 1 /\ lastID < MaxExchanges /\ UNCHANGED <<sessionID, server>>
  BY DEF Http!Post
<1>4. \/ phase = "new" /\ phase' = "initialize"
      \/ phase = "ready" /\ phase' = phase
  BY DEF Http!Post
<1>5. e \in ExchangeType
  <2>1. lastID + 1 \in Nat /\ sessionID \in {Http!NoSession, Http!Session}
    BY ClientAssumption DEF HttpTypes
  <2>2. Http!Idle \in ExchangeType
    BY DEF Http!Idle, ExchangeType, Http!NoSession
  <2>3. [Http!Idle EXCEPT !.pc = "post"] \in ExchangeType
    BY <2>2 DEF ExchangeType
  <2>4. [Http!Idle EXCEPT !.pc = "post", !.id = lastID + 1] \in ExchangeType
    BY <2>1, <2>3 DEF ExchangeType
  <2> QED
    BY <2>1, <2>4 DEF ExchangeType
<1> HIDE DEF e
<1>6. HttpTypes'
  <2>1. lastID' \in 0..MaxExchanges
    BY <1>3, ClientAssumption DEF HttpTypes
  <2> QED
    BY <1>1, <1>2, <1>3, <1>4, <1>5, <2>1 DEF HttpTypes, Replied
<1>7. RepliesAreAnswers'
  BY <1>1, <1>2, <1>3, ClientAssumption DEF RepliesAreAnswers, Under, Replied, HttpTypes
<1>8. HandshakeIsAlone'
  BY <1>1, <1>2, <1>3, <1>4, ClientAssumption
  DEF HandshakeIsAlone, RepliesAreAnswers, Under, HttpTypes
<1>9. SessionIsCarried'
  BY <1>1, <1>2, <1>3, <1>4, ClientAssumption
  DEF SessionIsCarried, HandshakeIsAlone, HttpTypes, Under, KeepsSession, Opened
<1>10. SessionIsKept'
  BY <1>3 DEF SessionIsKept, Http!SessionIsKept
<1> QED
  BY <1>6, <1>7, <1>8, <1>9, <1>10

\* A change of one exchange that is under way and stays so.
LEMMA MovedKeeps ==
    ASSUME HInv, NEW c \in Callers, Under(c), NEW e \in ExchangeType,
           exchange' = [exchange EXCEPT ![c] = e],
           e.pc \in {"reply", "stream"}, e.id = exchange[c].id, e.carries = exchange[c].carries,
           UNCHANGED <<phase, lastID>>, sessionID' \in {sessionID, Http!Session},
           server' \in ServerType, server'.keeps = server.keeps, ~ server'.stranger,
           server.answered \subseteq server'.answered,
           server'.live => KeepsSession, Opened => Opened',
           e.reply \in ReplyType,
           e.pc = "reply" /\ e.reply.status = 200 /\ e.reply.type = "json" =>
               e.id \in server'.answered,
           \A k \in DOMAIN e.reply.events :
               e.reply.events[k] = Http!Event("response", e.id) => e.id \in server'.answered,
           KeepsSession /\ e.id = 1 =>
               /\ e.pc = "reply" /\ e.reply.status = 200 =>
                     e.reply.session = Http!Session /\ Opened'
               /\ e.pc = "stream" => sessionID' = Http!Session /\ Opened'
    PROVE  HInv'
<1> USE DEF HInv
<1>1. exchange'[c] = e /\ \A d \in Callers \ {c} : exchange'[d] = exchange[d]
  BY DEF HttpTypes
<1>2. HttpTypes'
  BY <1>1 DEF HttpTypes, Replied
<1>3. RepliesAreAnswers'
  <2> SUFFICES ASSUME NEW d \in Callers, Under(d)'
               PROVE  RepliesAreAnswers!(d)'
    BY DEF RepliesAreAnswers, Under, Replied
  <2>1. CASE d = c
    BY <1>1, <2>1 DEF RepliesAreAnswers, Under, Replied
  <2>2. CASE d # c
    <3>1. exchange'[d] = exchange[d]
      BY <1>1, <2>2
    <3> QED
      BY <3>1 DEF RepliesAreAnswers, Under, Replied
  <2> QED
    BY <2>1, <2>2
<1>4. HandshakeIsAlone'
  BY <1>1 DEF HandshakeIsAlone, Under
<1>5. SessionIsCarried'
  <2>1. KeepsSession' <=> KeepsSession
    BY DEF KeepsSession
  <2>2. KeepsSession /\ phase' \in {"notify", "ready"} => sessionID' = Http!Session /\ Opened'
    BY DEF SessionIsCarried
  <2>3. \A d \in Callers : KeepsSession /\ Under(d)' /\ exchange'[d].id # 1 =>
              exchange'[d].carries = Http!Session
    BY <1>1 DEF SessionIsCarried, Under
  <2>4. ASSUME NEW d \in Callers, KeepsSession, exchange'[d].id = 1
        PROVE  /\ exchange'[d].pc = "reply" /\ exchange'[d].reply.status = 200 =>
                    exchange'[d].reply.session = Http!Session /\ Opened'
               /\ exchange'[d].pc = "stream" => sessionID' = Http!Session /\ Opened'
    <3>1. CASE d = c
      BY <1>1, <2>4, <3>1
    <3>2. CASE d # c
      <4>1. exchange'[d] = exchange[d]
        BY <1>1, <3>2
      <4> QED
        BY <2>4, <4>1 DEF SessionIsCarried
    <3> QED
      BY <3>1, <3>2
  <2> QED
    BY <2>1, <2>2, <2>3, <2>4 DEF SessionIsCarried
<1>6. SessionIsKept'
  BY DEF SessionIsKept, Http!SessionIsKept
<1> QED
  BY <1>2, <1>3, <1>4, <1>5, <1>6

LEMMA ReceiveKeeps == ASSUME HInv, NEW c \in Callers, Http!ReceiveReply(c) PROVE HInv'
<1> USE DEF HInv
<1> DEFINE r == exchange[c].reply
           e == [exchange[c] EXCEPT !.pc = "stream"]
<1>1. /\ exchange[c].pc = "reply" /\ Under(c) /\ UNCHANGED <<lastID, server>>
      /\ sessionID' = IF r.session = Http!Session THEN Http!Session ELSE sessionID
  BY DEF Http!ReceiveReply, Under
<1>2. r \in ReplyType /\ exchange[c] \in ExchangeType
  BY <1>1 DEF HttpTypes, Replied
<1>3. phase = "initialize" => exchange[c].id = 1
  BY <1>1 DEF HandshakeIsAlone
<1>4. r.status = 200 /\ KeepsSession /\ exchange[c].id = 1 => sessionID' = Http!Session /\ Opened
  BY <1>1 DEF SessionIsCarried
<1>5. CASE r.status # 200
  <2>1. Http!Return(c, "expired") \/ Http!Return(c, "error")
    BY <1>5 DEF Http!ReceiveReply
  <2> QED
    BY <1>1, <2>1, ReturnKeeps
<1>6. CASE r.status = 200 /\ r.type # "stream"
  <2>1. Http!Return(c, "result")
    BY <1>6 DEF Http!ReceiveReply
  <2> QED
    BY <1>1, <1>3, <1>4, <1>6, <2>1, ReturnKeeps
<1>7. CASE r.status = 200 /\ r.type = "stream"
  <2>1. exchange' = [exchange EXCEPT ![c].pc = "stream"] /\ UNCHANGED phase
    BY <1>7 DEF Http!ReceiveReply
  <2>2. exchange' = [exchange EXCEPT ![c] = e]
    BY <2>1
  <2>3. /\ e \in ExchangeType /\ e.pc = "stream" /\ e.id = exchange[c].id
        /\ e.carries = exchange[c].carries /\ e.reply = r
    BY <1>2 DEF ExchangeType
  <2>4. \A k \in DOMAIN r.events :
            r.events[k] = Http!Event("response", exchange[c].id) => exchange[c].id \in server.answered
    BY <1>1 DEF RepliesAreAnswers, Replied
  <2>5. /\ server' \in ServerType /\ server'.keeps = server.keeps /\ ~ server'.stranger
        /\ server.answered \subseteq server'.answered /\ (server'.live => KeepsSession)
        /\ Opened' <=> Opened
    BY <1>1 DEF HttpTypes, SessionIsCarried, SessionIsKept, Http!SessionIsKept, Opened
  <2>6. /\ KeepsSession /\ e.id = 1 => sessionID' = Http!Session /\ Opened'
        /\ sessionID' \in {sessionID, Http!Session}
        /\ e.reply \in ReplyType /\ UNCHANGED <<phase, lastID>>
        /\ \A k \in DOMAIN e.reply.events :
              e.reply.events[k] = Http!Event("response", e.id) => e.id \in server'.answered
    BY <1>1, <1>2, <1>4, <1>7, <2>1, <2>3, <2>4, <2>5
  <2>7. Under(c)
    BY <1>1
  <2> HIDE DEF e, r, HInv
  <2> QED
    BY <2>2, <2>3, <2>5, <2>6, <2>7, MovedKeeps
<1> QED
  BY <1>5, <1>6, <1>7

LEMMA ReadKeeps == ASSUME HInv, NEW c \in Callers, Http!ReadEvent(c) PROVE HInv'
<1> USE DEF HInv
<1> DEFINE events == exchange[c].reply.events
           e == [exchange[c] EXCEPT !.reply.events = Tail(events)]
<1>1. exchange[c].pc = "stream" /\ Under(c) /\ UNCHANGED <<lastID, sessionID, server>>
  BY DEF Http!ReadEvent, Under
<1>2. exchange[c].reply \in ReplyType /\ exchange[c] \in ExchangeType /\ events \in Seq(EventType)
  BY <1>1 DEF HttpTypes, Replied, ReplyType
<1>3. phase = "initialize" /\ KeepsSession => sessionID = Http!Session /\ Opened
  BY <1>1 DEF HandshakeIsAlone, SessionIsCarried
<1>4. \/ Http!Return(c, "error") \/ Http!Return(c, "result")
      \/ /\ events # <<>> /\ UNCHANGED phase
         /\ exchange' = [exchange EXCEPT ![c].reply.events = Tail(events)]
  BY DEF Http!ReadEvent
<1>5. CASE Http!Return(c, "error") \/ Http!Return(c, "result")
  BY <1>1, <1>3, <1>5, ReturnKeeps
<1>6. CASE /\ events # <<>> /\ UNCHANGED phase
           /\ exchange' = [exchange EXCEPT ![c].reply.events = Tail(events)]
  <2>1. exchange' = [exchange EXCEPT ![c] = e]
    BY <1>6
  <2>2. /\ Tail(events) \in Seq(EventType)
        /\ \A k \in DOMAIN Tail(events) : k + 1 \in DOMAIN events /\ Tail(events)[k] = events[k + 1]
    BY <1>2, <1>6
  <2>3. /\ e.pc = "stream" /\ e.id = exchange[c].id /\ e.carries = exchange[c].carries
        /\ e.reply = [exchange[c].reply EXCEPT !.events = Tail(events)]
        /\ e.outcome = exchange[c].outcome
    BY <1>1, <1>2 DEF ExchangeType
  <2>4. e.reply \in ReplyType /\ e.reply.events = Tail(events)
    <3>1. ASSUME NEW r \in ReplyType, NEW rest \in Seq(EventType)
          PROVE  [r EXCEPT !.events = rest] \in ReplyType /\ [r EXCEPT !.events = rest].events = rest
      BY DEF ReplyType
    <3> QED
      BY <1>2, <2>2, <2>3, <3>1
  <2>5. e \in ExchangeType
    BY <1>2, <2>3, <2>4 DEF ExchangeType
  <2>6. \A k \in DOMAIN events :
            events[k] = Http!Event("response", exchange[c].id) => exchange[c].id \in server.answered
    BY <1>1 DEF RepliesAreAnswers, Replied
  <2>7. /\ server' \in ServerType /\ server'.keeps = server.keeps /\ ~ server'.stranger
        /\ server.answered \subseteq server'.answered /\ (server'.live => KeepsSession)
        /\ Opened' <=> Opened
    BY <1>1 DEF HttpTypes, SessionIsCarried, SessionIsKept, Http!SessionIsKept, Opened
  <2>8. KeepsSession /\ exchange[c].id = 1 => sessionID = Http!Session /\ Opened
    BY <1>1 DEF SessionIsCarried
  <2>9. /\ KeepsSession /\ e.id = 1 => sessionID' = Http!Session /\ Opened'
        /\ sessionID' \in {sessionID, Http!Session} /\ UNCHANGED <<phase, lastID>>
        /\ \A k \in DOMAIN e.reply.events :
              e.reply.events[k] = Http!Event("response", e.id) => e.id \in server'.answered
    <3>1. /\ KeepsSession /\ e.id = 1 => sessionID' = Http!Session /\ Opened'
          /\ sessionID' \in {sessionID, Http!Session} /\ UNCHANGED <<phase, lastID>>
      BY <1>1, <1>6, <2>3, <2>7, <2>8
    <3>2. \A k \in DOMAIN e.reply.events :
              e.reply.events[k] = Http!Event("response", e.id) => e.id \in server'.answered
      <4> HIDE DEF e, events
      <4> QED
        BY <1>1, <2>2, <2>3, <2>4, <2>6
    <3> QED
      BY <3>1, <3>2
  <2> HIDE DEF e, events, HInv
  <2> QED
    BY <1>1, <2>1, <2>3, <2>4, <2>5, <2>7, <2>9, MovedKeeps
<1> QED
  BY <1>4, <1>5, <1>6

\* The handshake's end: the session is there, and the server takes it.
LEMMA NotifyKeeps == ASSUME HInv, Http!Notify PROVE HInv'
<1> USE DEF HInv
<1>1. /\ phase = "notify" /\ phase' \in {"failed", "ready"}
      /\ UNCHANGED <<lastID, sessionID, exchange>>
  BY DEF Http!Notify
<1>2. server.live => sessionID = Http!Session
  BY <1>1 DEF SessionIsCarried
<1>3. server' = server
  <2>1. [server EXCEPT !.stranger = FALSE] = server
    BY DEF SessionIsKept, Http!SessionIsKept, HttpTypes, ServerType
  <2>2. (server.stranger \/ (server.live /\ sessionID = Http!NoSession)) = FALSE
    BY <1>2, TagsDiffer DEF SessionIsKept, Http!SessionIsKept
  <2> QED
    BY <2>1, <2>2 DEF Http!Notify
<1>4. \A c \in Callers : ~ Under(c)
  BY <1>1 DEF HandshakeIsAlone
<1>5. HttpTypes' /\ RepliesAreAnswers'
  BY <1>1, <1>3 DEF HttpTypes, RepliesAreAnswers, Under, Replied
<1>6. HandshakeIsAlone'
  BY <1>1, <1>4 DEF HandshakeIsAlone, Under
<1>7. SessionIsCarried'
  BY <1>1, <1>3, <1>4 DEF SessionIsCarried, Under, KeepsSession, Opened
<1> QED
  BY <1>3, <1>5, <1>6, <1>7 DEF SessionIsKept, Http!SessionIsKept

LEMMA CloseOrForgetKeeps == ASSUME HInv, Http!Close \/ Http!Forget PROVE HInv'
<1> USE DEF HInv
<1>1. /\ UNCHANGED <<phase, lastID, sessionID, exchange>>
      /\ server' \in {server, [server EXCEPT !.live = FALSE, !.forgot = TRUE]}
  BY DEF Http!Close, Http!Forget
<1>2. /\ server' \in ServerType /\ server'.keeps = server.keeps
      /\ server'.answered = server.answered /\ server'.stranger = server.stranger
      /\ server'.live => server.live
      /\ Opened => Opened'
  <2>1. server \in ServerType
    BY DEF HttpTypes
  <2>2. CASE server' = server
    BY <2>1, <2>2 DEF ServerType, Opened
  <2>3. CASE server' = [server EXCEPT !.live = FALSE, !.forgot = TRUE]
    <3>1. [server EXCEPT !.live = FALSE] \in ServerType
      BY <2>1 DEF ServerType
    <3>2. server' \in ServerType
      BY <2>3, <3>1 DEF ServerType
    <3>3. /\ server'.keeps = server.keeps /\ server'.answered = server.answered
          /\ server'.stranger = server.stranger /\ ~ server'.live /\ server'.forgot
      BY <2>1, <2>3 DEF ServerType
    <3> QED
      BY <3>2, <3>3 DEF Opened
  <2> QED
    BY <1>1, <2>2, <2>3
<1>3. HttpTypes' /\ RepliesAreAnswers'
  BY <1>1, <1>2 DEF HttpTypes, RepliesAreAnswers, Under, Replied
<1>4. HandshakeIsAlone'
  BY <1>1 DEF HandshakeIsAlone, Under
<1>5. KeepsSession' <=> KeepsSession
  BY <1>2 DEF KeepsSession
<1>6. SessionIsCarried'
  BY <1>1, <1>2, <1>5 DEF SessionIsCarried, Under
<1> QED
  BY <1>2, <1>3, <1>4, <1>6 DEF SessionIsKept, Http!SessionIsKept

LEMMA StreamsAreEvents ==
    ASSUME NEW i \in Nat, NEW events \in Http!Streams(i)
    PROVE  events \in Seq(EventType)
<1>1. PICK n \in 0..MaxEvents : events \in [1..n -> Http!Events(i)]
  BY DEF Http!Streams
<1>2. Http!Events(i) \subseteq EventType
  BY DEF Http!Events, Http!Event, EventType
<1>3. n \in Nat /\ events \in [1..n -> EventType]
  BY <1>1, <1>2, ClientAssumption
<1> QED
  BY <1>3

\* The server's three ways with a request; it refuses only what it knows nothing
\* of, and its answer to the handshake names the session it has opened.
LEMMA ServeKeeps == ASSUME HInv, NEW c \in Callers, Http!Serve(c) PROVE HInv'
<1> USE DEF HInv
<1> DEFINE i == exchange[c].id
           opens == i = 1 /\ server.keeps # Http!NoSession
           outside == /\ i # 1 /\ KeepsSession
                      /\ ~ (server.live /\ exchange[c].carries = Http!Session)
           session == IF KeepsSession /\ ~ outside THEN server.keeps ELSE Http!NoSession
           E(r) == [exchange[c] EXCEPT !.pc = "reply", !.reply = r]
<1>1. exchange[c].pc = "post" /\ Under(c) /\ UNCHANGED <<phase, lastID, sessionID>>
  BY DEF Http!Serve, Under
<1>2. exchange[c] \in ExchangeType /\ i \in Nat /\ server \in ServerType
  BY DEF HttpTypes, ExchangeType
<1>3. ASSUME NEW r \in ReplyType
      PROVE  /\ E(r) \in ExchangeType /\ E(r).pc = "reply" /\ E(r).reply = r
             /\ E(r).id = i /\ E(r).carries = exchange[c].carries
  <2>1. [exchange[c] EXCEPT !.pc = "reply"] \in ExchangeType
    BY <1>2 DEF ExchangeType
  <2>2. E(r) \in ExchangeType
    BY <2>1 DEF ExchangeType
  <2>3. /\ E(r).pc = "reply" /\ E(r).reply = r /\ E(r).id = i
        /\ E(r).carries = exchange[c].carries
    BY <1>2 DEF ExchangeType
  <2> QED
    BY <2>2, <2>3
<1>4. ASSUME outside PROVE server.forgot /\ ~ server.live
  BY <1>1, <1>4 DEF SessionIsCarried, HandshakeIsAlone, KeepsSession, Opened
<1>5. /\ server'.keeps = server.keeps /\ ~ server.stranger
  <2>1. ~ server.stranger
    BY DEF SessionIsKept, Http!SessionIsKept
  <2> QED
    BY <1>2, <2>1 DEF Http!Serve, ServerType
<1>6. ASSUME NEW r \in ReplyType,
             exchange' = [exchange EXCEPT ![c].pc = "reply", ![c].reply = r],
             server' \in ServerType, ~ server'.stranger,
             server.answered \subseteq server'.answered,
             server'.live => KeepsSession, Opened => Opened',
             r.status = 200 /\ r.type = "json" => i \in server'.answered,
             \A k \in DOMAIN r.events :
                 r.events[k] = Http!Event("response", i) => i \in server'.answered,
             KeepsSession /\ i = 1 /\ r.status = 200 => r.session = Http!Session /\ Opened'
      PROVE  HInv'
  <2>1. exchange' = [exchange EXCEPT ![c] = E(r)]
    BY <1>6
  <2>2. /\ E(r) \in ExchangeType /\ E(r).pc = "reply" /\ E(r).reply = r
        /\ E(r).id = exchange[c].id /\ E(r).carries = exchange[c].carries
    BY <1>3
  <2>3. /\ E(r).reply \in ReplyType /\ E(r).pc # "stream" /\ E(r).pc \in {"reply", "stream"}
        /\ E(r).pc = "reply" /\ E(r).reply.status = 200 /\ E(r).reply.type = "json" =>
               E(r).id \in server'.answered
        /\ \A k \in DOMAIN E(r).reply.events :
               E(r).reply.events[k] = Http!Event("response", E(r).id) => E(r).id \in server'.answered
        /\ KeepsSession /\ E(r).id = 1 =>
              /\ E(r).pc = "reply" /\ E(r).reply.status = 200 =>
                     E(r).reply.session = Http!Session /\ Opened'
              /\ E(r).pc = "stream" => sessionID' = Http!Session /\ Opened'
    <3> HIDE DEF E, HInv
    <3> QED
      BY <1>6, <2>2
  <2> HIDE DEF E, HInv
  <2> QED
    BY <1>1, <1>5, <1>6, <2>1, <2>2, <2>3, MovedKeeps
<1>7. ASSUME NEW status \in {404, 500}
      PROVE  LET r == Http!Reply(status, Http!NoSession, "json", <<>>)
             IN r \in ReplyType /\ r.status # 200 /\ \A k \in DOMAIN r.events : FALSE
  <2>1. <<>> \in Seq(EventType)
    OBVIOUS
  <2> QED
    BY <2>1 DEF Http!Reply, ReplyType, Tags
<1>8. CASE /\ outside
           /\ exchange' = [exchange EXCEPT ![c].pc = "reply",
                             ![c].reply = Http!Reply(404, Http!NoSession, "json", <<>>)]
           /\ server' = [server EXCEPT !.stranger = @ \/ ~ server.forgot]
  <2> DEFINE r == Http!Reply(404, Http!NoSession, "json", <<>>)
  <2>1. r \in ReplyType /\ r.status # 200 /\ \A k \in DOMAIN r.events : FALSE
    BY <1>7
  <2>2. /\ server' \in ServerType /\ ~ server'.stranger /\ server'.answered = server.answered
        /\ server'.live = server.live /\ server'.forgot = server.forgot
    BY <1>2, <1>4, <1>5, <1>8 DEF ServerType
  <2>3. /\ server'.live => KeepsSession
        /\ Opened => Opened'
    BY <2>2 DEF SessionIsCarried, Opened
  <2> HIDE DEF r, HInv
  <2> QED
    BY <1>6, <1>8, <2>1, <2>2, <2>3 DEF r
<1>9. CASE /\ exchange' = [exchange EXCEPT ![c].pc = "reply",
                             ![c].reply = Http!Reply(500, Http!NoSession, "json", <<>>)]
           /\ UNCHANGED server
  <2> DEFINE r == Http!Reply(500, Http!NoSession, "json", <<>>)
  <2>1. r \in ReplyType /\ r.status # 200 /\ \A k \in DOMAIN r.events : FALSE
    BY <1>7
  <2>2. /\ server'.live => KeepsSession
        /\ Opened => Opened'
    BY <1>9 DEF SessionIsCarried, Opened
  <2> HIDE DEF r, HInv
  <2> QED
    BY <1>2, <1>5, <1>6, <1>9, <2>1, <2>2 DEF r
<1>10. ASSUME ~ outside,
              NEW named \in IF opens THEN {server.keeps} ELSE {session, Http!NoSession},
              NEW r \in {Http!Reply(200, named, "json", <<>>)}
                        \cup {Http!Reply(200, named, "stream", events) : events \in Http!Streams(i)},
              exchange' = [exchange EXCEPT ![c].pc = "reply", ![c].reply = r],
              server' = [server EXCEPT
                 !.live = @ \/ (opens /\ KeepsSession),
                 !.answered = IF r.type = "json" \/ Http!Event("response", i) \in Http!Range(r.events)
                              THEN @ \cup {i} ELSE @]
       PROVE  HInv'
  <2>1. named \in Tags
    BY <1>2 DEF ServerType, Tags
  <2>2. /\ r.status = 200 /\ r.session = named
        /\ r \in ReplyType
    <3>1. <<>> \in Seq(EventType) /\ \A events \in Http!Streams(i) : events \in Seq(EventType)
      BY <1>2, StreamsAreEvents
    <3>2. PICK type \in {"json", "stream"}, events \in Seq(EventType) :
             r = Http!Reply(200, named, type, events)
      BY <1>10, <3>1
    <3> QED
      BY <2>1, <3>2 DEF Http!Reply, ReplyType
  <2> DEFINE brings == r.type = "json" \/ Http!Event("response", i) \in Http!Range(r.events)
  <2>3. [server EXCEPT !.live = @ \/ (opens /\ KeepsSession)] \in ServerType
    BY <1>2 DEF ServerType
  <2>4. (IF brings THEN server.answered \cup {i} ELSE server.answered) \in SUBSET Nat
    BY <1>2 DEF ServerType
  <2>5. server' \in ServerType
    BY <1>10, <2>3, <2>4 DEF ServerType
  <2>6. /\ server'.stranger = server.stranger /\ server'.forgot = server.forgot
        /\ server'.live <=> server.live \/ (opens /\ KeepsSession)
        /\ server'.answered = IF brings THEN server.answered \cup {i} ELSE server.answered
    BY <1>2, <1>10 DEF ServerType
  <2>7. \A k \in DOMAIN r.events : r.events[k] \in Http!Range(r.events)
    BY DEF Http!Range
  <2>8. KeepsSession /\ i = 1 => named = Http!Session /\ server'.live
    BY <2>6, TagsDiffer DEF KeepsSession
  <2>9. /\ server'.live => KeepsSession
        /\ Opened => Opened'
    BY <2>6 DEF SessionIsCarried, Opened
  <2>10. ~ server'.stranger /\ server.answered \subseteq server'.answered
    BY <1>5, <2>6
  <2>11. /\ r.type = "json" => i \in server'.answered
         /\ \A k \in DOMAIN r.events :
                 r.events[k] = Http!Event("response", i) => i \in server'.answered
    BY <2>6, <2>7
  <2>12. KeepsSession /\ i = 1 /\ r.status = 200 => r.session = Http!Session /\ Opened'
    BY <2>2, <2>8 DEF Opened
  <2> HIDE DEF HInv
  <2> QED
    BY <1>6, <1>10, <2>2, <2>5, <2>9, <2>10, <2>11, <2>12
<1> DEFINE Answered ==
              \E named \in IF opens THEN {server.keeps} ELSE {session, Http!NoSession} :
              \E r \in {Http!Reply(200, named, "json", <<>>)}
                       \cup {Http!Reply(200, named, "stream", events) : events \in Http!Streams(i)} :
                 /\ exchange' = [exchange EXCEPT ![c].pc = "reply", ![c].reply = r]
                 /\ server' = [server EXCEPT
                       !.live = @ \/ (opens /\ KeepsSession),
                       !.answered = IF r.type = "json" \/ Http!Event("response", i) \in Http!Range(r.events)
                                    THEN @ \cup {i} ELSE @]
<1> HIDE DEF HInv, E
<1>11. ASSUME ~ outside, Answered PROVE HInv'
  <2>1. PICK named \in IF opens THEN {server.keeps} ELSE {session, Http!NoSession} :
        \E r \in {Http!Reply(200, named, "json", <<>>)}
                 \cup {Http!Reply(200, named, "stream", events) : events \in Http!Streams(i)} :
           /\ exchange' = [exchange EXCEPT ![c].pc = "reply", ![c].reply = r]
           /\ server' = [server EXCEPT
                 !.live = @ \/ (opens /\ KeepsSession),
                 !.answered = IF r.type = "json" \/ Http!Event("response", i) \in Http!Range(r.events)
                              THEN @ \cup {i} ELSE @]
    BY <1>11
  <2>2. PICK r \in {Http!Reply(200, named, "json", <<>>)}
                 \cup {Http!Reply(200, named, "stream", events) : events \in Http!Streams(i)} :
           /\ exchange' = [exchange EXCEPT ![c].pc = "reply", ![c].reply = r]
           /\ server' = [server EXCEPT
                 !.live = @ \/ (opens /\ KeepsSession),
                 !.answered = IF r.type = "json" \/ Http!Event("response", i) \in Http!Range(r.events)
                              THEN @ \cup {i} ELSE @]
    BY <2>1
  <2> HIDE DEF i, opens, outside, session, Answered
  <2> QED
    BY <1>10, <1>11, <2>2, Zenon
<1>12. \/ /\ outside
          /\ exchange' = [exchange EXCEPT ![c].pc = "reply",
                            ![c].reply = Http!Reply(404, Http!NoSession, "json", <<>>)]
          /\ server' = [server EXCEPT !.stranger = @ \/ ~ server.forgot]
       \/ /\ exchange' = [exchange EXCEPT ![c].pc = "reply",
                            ![c].reply = Http!Reply(500, Http!NoSession, "json", <<>>)]
          /\ UNCHANGED server
       \/ ~ outside /\ Answered
  BY Zenon DEF Http!Serve, KeepsSession
<1> HIDE DEF i, opens, outside, session, Answered
<1> QED
  BY <1>8, <1>9, <1>11, <1>12

LEMMA TimeOutKeeps == ASSUME HInv, NEW c \in Callers, Http!TimeOut(c) PROVE HInv'
BY ReturnKeeps DEF Http!TimeOut, Under

LEMMA HttpNextKeeps == HInv /\ [Http!Next]_httpVars => HInv'
<1> SUFFICES ASSUME HInv, [Http!Next]_httpVars PROVE HInv'
  OBVIOUS
<1>1. CASE UNCHANGED httpVars
  BY <1>1 DEF httpVars, HInv, HttpTypes, RepliesAreAnswers, HandshakeIsAlone,
              SessionIsCarried, SessionIsKept, Http!SessionIsKept, Under, Replied,
              KeepsSession, Opened
<1> QED
  BY <1>1, PostKeeps, ReceiveKeeps, ReadKeeps, TimeOutKeeps, NotifyKeeps,
     CloseOrForgetKeeps, ServeKeeps DEF Http!Next, Http!CallStep

LEMMA ClientStep == ClientNext => [Next]_vars /\ [Http!Next]_httpVars
BY DEF ClientNext

\* The strengthening holds in every state of a client.
LEMMA HInvAlways == ClientSpec => []HInv
<1>1. ClientInit => HInv
  BY HttpInit DEF ClientInit
<1>2. HInv /\ [ClientNext]_ClientVars => HInv'
  BY ClientStep, HttpNextKeeps DEF ClientVars
<1> QED
  BY <1>1, <1>2, PTL DEF ClientSpec

\* Whatever transport a client runs over, its connection behaves as McpConn.
LEMMA ClientHasConn == ClientSpec => Spec
<1>1. ClientInit => Init
  BY DEF ClientInit
<1>2. [ClientNext]_ClientVars => [Next]_vars
  BY ClientStep DEF ClientVars
<1> QED
  BY <1>1, <1>2, PTL DEF ClientSpec, Spec

-----------------------------------------------------------------------------
\* "The client includes it on all subsequent requests" (http.go:31-32): a
\* server that has not forgotten the session never sees a request or the end
\* of the handshake outside of it.
THEOREM SessionKept == ClientSpec => []SessionIsKept
<1>1. HInv => SessionIsKept
  BY DEF HInv
<1> QED
  BY <1>1, HInvAlways, PTL

-----------------------------------------------------------------------------
(* The refinement: an exchange is a call of the transport. *)

LEMMA HttpInitPromise == Http!Init => Http!Promise!Init
<1> SUFFICES ASSUME Http!Init PROVE Http!Promise!Init
  OBVIOUS
<1>1. \A c \in Callers : exchange[c].pc = "idle" /\ exchange[c].outcome = "none"
  BY DEF Http!Init, Http!Idle
<1>2. 1..lastID = {} /\ server.answered = {}
  BY DEF Http!Init
<1> QED
  BY <1>1, <1>2 DEF Http!Promise!Init

LEMMA PostIsCall ==
    ASSUME HInv, NEW c \in Callers, Http!Post(c)
    PROVE  lastID + 1 \in Http!Ids /\ Http!Promise!call(c, lastID + 1)
<1> USE DEF HInv
<1>1. /\ lastID + 1 \in Http!Ids /\ lastID + 1 \notin 1..lastID
      /\ 1..lastID' = (1..lastID) \cup {lastID + 1}
  BY ClientAssumption DEF Http!Post, HttpTypes, Http!Ids
<1>2. /\ exchange[c].pc = "idle" /\ server' = server
      /\ exchange'[c].pc = "post" /\ exchange'[c].id = lastID + 1 /\ exchange'[c].outcome = "none"
      /\ \A d \in Callers \ {c} : exchange'[d] = exchange[d]
  BY DEF Http!Post, HttpTypes, Http!Idle
<1> QED
  BY <1>1, <1>2 DEF Http!Promise!call

LEMMA ReturnIsReturn ==
    ASSUME HInv, NEW c \in Callers, NEW o \in {"result", "error", "expired"},
           Under(c), Http!Return(c, o), UNCHANGED <<lastID, server>>,
           o = "result" => exchange[c].id \in server.answered
    PROVE  Http!Promise!Return(c)
<1> USE DEF HInv
<1>1. exchange[c].pc # "idle" /\ exchange[c].id # 0 /\ lastID' = lastID /\ server' = server
  BY DEF Under, RepliesAreAnswers, HttpTypes
<1>2. /\ exchange'[c].pc = "idle" /\ exchange'[c].outcome = o
      /\ \A d \in Callers \ {c} : exchange'[d] = exchange[d]
  BY DEF Http!Return, Http!Idle, HttpTypes
<1> QED
  BY <1>1, <1>2 DEF Http!Promise!Return

\* A change of an exchange that its caller does not see.
LEMMA MovedIsStutter ==
    ASSUME UNCHANGED <<lastID, server>>,
           \A d \in Callers : /\ exchange'[d].id = exchange[d].id
                              /\ exchange'[d].outcome = exchange[d].outcome
                              /\ exchange'[d].pc = "idle" <=> exchange[d].pc = "idle"
    PROVE  UNCHANGED Http!Promise!vars
BY DEF Http!Promise!vars

LEMMA ServeIsAnswer ==
    ASSUME HInv, NEW c \in Callers, Http!Serve(c)
    PROVE  [Http!Promise!Next]_(Http!Promise!vars)
<1> USE DEF HInv
<1>1. /\ exchange[c] \in ExchangeType /\ exchange[c].pc = "post" /\ lastID' = lastID
      /\ exchange[c].id \in 1..lastID /\ exchange[c].id \in Http!Ids
  <2>1. exchange[c].pc = "post" /\ lastID' = lastID
    BY DEF Http!Serve
  <2>2. exchange[c] \in ExchangeType /\ lastID \in 0..MaxExchanges
    BY DEF HttpTypes
  <2>3. exchange[c].id \in 1..lastID
    BY <2>1 DEF RepliesAreAnswers, Under
  <2> QED
    BY <2>1, <2>2, <2>3, ClientAssumption DEF Http!Ids
<1>2. PICK r : exchange' = [exchange EXCEPT ![c].pc = "reply", ![c].reply = r]
  BY DEF Http!Serve
<1>3. \A d \in Callers : /\ exchange'[d].id = exchange[d].id
                         /\ exchange'[d].outcome = exchange[d].outcome
                         /\ exchange'[d].pc = "idle" <=> exchange[d].pc = "idle"
  BY <1>1, <1>2 DEF HttpTypes, ExchangeType
<1>4. server'.answered \in {server.answered, server.answered \cup {exchange[c].id}}
  BY DEF Http!Serve, HttpTypes, ServerType
<1>5. CASE server'.answered = server.answered
  BY <1>1, <1>3, <1>5 DEF Http!Promise!vars
<1>6. CASE server'.answered = server.answered \cup {exchange[c].id}
  <2>1. Http!Promise!Answer(exchange[c].id)
    BY <1>1, <1>3, <1>6 DEF Http!Promise!Answer
  <2> QED
    BY <1>1, <2>1 DEF Http!Promise!Next
<1> QED
  BY <1>4, <1>5, <1>6

LEMMA HttpNextPromise ==
    HInv /\ [Http!Next]_httpVars => [Http!Promise!Next]_(Http!Promise!vars)
<1> SUFFICES ASSUME HInv, [Http!Next]_httpVars PROVE [Http!Promise!Next]_(Http!Promise!vars)
  OBVIOUS
<1>1. ASSUME NEW c \in Callers, Http!Post(c) PROVE Http!Promise!Next
  <2>1. lastID + 1 \in Http!Ids /\ Http!Promise!call(c, lastID + 1)
    BY <1>1, PostIsCall
  <2>2. \E i \in Http!Ids : Http!Promise!call(c, i)
    BY <2>1 DEF Http!Promise!call
  <2> QED
    BY <2>2 DEF Http!Promise!Next
<1>2. ASSUME NEW c \in Callers, Http!ReceiveReply(c) PROVE [Http!Promise!Next]_(Http!Promise!vars)
  <2>1. exchange[c].pc = "reply" /\ Under(c) /\ UNCHANGED <<lastID, server>>
    BY <1>2 DEF Http!ReceiveReply, Under
  <2>2. exchange[c].reply \in ReplyType
    BY <2>1 DEF HInv, HttpTypes, Replied
  <2>3. CASE exchange[c].reply.status # 200
    <3>1. Http!Return(c, "expired") \/ Http!Return(c, "error")
      BY <1>2, <2>3 DEF Http!ReceiveReply
    <3>2. Http!Promise!Return(c)
      BY <2>1, <3>1, ReturnIsReturn
    <3> QED
      BY <3>2 DEF Http!Promise!Next
  <2>4. CASE exchange[c].reply.status = 200 /\ exchange[c].reply.type # "stream"
    <3>1. Http!Return(c, "result")
      BY <1>2, <2>4 DEF Http!ReceiveReply
    <3>2. exchange[c].id \in server.answered
      BY <2>1, <2>2, <2>4 DEF HInv, RepliesAreAnswers, Replied, ReplyType
    <3>3. Http!Promise!Return(c)
      BY <2>1, <3>1, <3>2, ReturnIsReturn
    <3> QED
      BY <3>3 DEF Http!Promise!Next
  <2>5. CASE exchange[c].reply.status = 200 /\ exchange[c].reply.type = "stream"
    <3>1. exchange' = [exchange EXCEPT ![c].pc = "stream"]
      BY <1>2, <2>5 DEF Http!ReceiveReply
    <3>2. \A d \in Callers : /\ exchange'[d].id = exchange[d].id
                             /\ exchange'[d].outcome = exchange[d].outcome
                             /\ exchange'[d].pc = "idle" <=> exchange[d].pc = "idle"
      BY <2>1, <3>1 DEF HInv, HttpTypes, ExchangeType
    <3> QED
      BY <2>1, <3>2, MovedIsStutter
  <2> QED
    BY <2>3, <2>4, <2>5
<1>3. ASSUME NEW c \in Callers, Http!ReadEvent(c) PROVE [Http!Promise!Next]_(Http!Promise!vars)
  <2> DEFINE events == exchange[c].reply.events
  <2>1. exchange[c].pc = "stream" /\ Under(c) /\ UNCHANGED <<lastID, server>>
    BY <1>3 DEF Http!ReadEvent, Under
  <2>2. events \in Seq(EventType)
    BY <2>1 DEF HInv, HttpTypes, Replied, ReplyType
  <2>3. CASE events = <<>>
    <3>1. Http!Return(c, "error")
      BY <1>3, <2>3 DEF Http!ReadEvent
    <3>2. Http!Promise!Return(c)
      BY <2>1, <3>1, ReturnIsReturn
    <3> QED
      BY <3>2 DEF Http!Promise!Next
  <2>4. CASE events # <<>> /\ Http!IsResponse(Head(events), exchange[c].id)
    <3>1. Http!Return(c, "result")
      BY <1>3, <2>4 DEF Http!ReadEvent
    <3>2. 1 \in DOMAIN events /\ events[1] = Head(events) /\ Head(events) \in EventType
      BY <2>2, <2>4
    <3>3. events[1] = Http!Event("response", exchange[c].id)
      BY <2>4, <3>2 DEF Http!IsResponse, Http!Event, EventType
    <3>4. exchange[c].id \in server.answered
      BY <2>1, <3>2, <3>3 DEF HInv, RepliesAreAnswers, Replied
    <3>5. Http!Promise!Return(c)
      BY <2>1, <3>1, <3>4, ReturnIsReturn
    <3> QED
      BY <3>5 DEF Http!Promise!Next
  <2>5. CASE events # <<>> /\ ~ Http!IsResponse(Head(events), exchange[c].id)
    <3>1. exchange' = [exchange EXCEPT ![c].reply.events = Tail(events)]
      BY <1>3, <2>5 DEF Http!ReadEvent
    <3>2. \A d \in Callers : /\ exchange'[d].id = exchange[d].id
                             /\ exchange'[d].outcome = exchange[d].outcome
                             /\ exchange'[d].pc = "idle" <=> exchange[d].pc = "idle"
      BY <2>1, <3>1 DEF HInv, HttpTypes, ExchangeType
    <3> QED
      BY <2>1, <3>2, MovedIsStutter
  <2> QED
    BY <2>3, <2>4, <2>5
<1>4. ASSUME NEW c \in Callers, Http!TimeOut(c) PROVE Http!Promise!Next
  <2>1. Http!Promise!Return(c)
    BY <1>4, ReturnIsReturn DEF Http!TimeOut, Under
  <2> QED
    BY <2>1 DEF Http!Promise!Next
<1>5. CASE Http!Notify \/ Http!Close \/ Http!Forget
  <2>1. UNCHANGED <<lastID, exchange>> /\ server'.answered = server.answered
    BY <1>5 DEF Http!Notify, Http!Close, Http!Forget, HInv, HttpTypes, ServerType
  <2> QED
    BY <2>1 DEF Http!Promise!vars
<1>6. CASE UNCHANGED httpVars
  BY <1>6 DEF httpVars, Http!Promise!vars
<1> QED
  BY <1>1, <1>2, <1>3, <1>4, <1>5, <1>6, ServeIsAnswer DEF Http!Next, Http!CallStep

\* Over the pipes and over HTTP alike, in whatever order, copies or streams the
\* messages come, a call returns a result only if the server answered that very
\* request, and an error otherwise (conn.go:114-135, http.go:134-175).
THEOREM TransportsImplemented == ClientSpec => ImplementsTransport
<1>1. ClientSpec => Promise!Spec
  BY ClientHasConn, PipesKeepThePromise
<1>2. ClientInit => Http!Promise!Init
  BY HttpInitPromise DEF ClientInit
<1>3. HInv /\ [ClientNext]_ClientVars => [Http!Promise!Next]_(Http!Promise!vars)
  BY ClientStep, HttpNextPromise DEF ClientVars
<1>4. ClientSpec => Http!Promise!Spec
  BY <1>2, <1>3, HInvAlways, PTL DEF ClientSpec, Http!Promise!Spec
<1> QED
  BY <1>1, <1>4 DEF ImplementsTransport

\* The properties of the connection, of a client that runs over it: the table
\* of pending calls is exact (conn.go:59-68).
THEOREM ClientPendingExact == ClientSpec => []PendingIsExact
BY ClientHasConn, PendingExact, PTL

\* No response to a waiting call of a client is dropped while its read loop
\* runs (conn.go:59-72, 125-133).
THEOREM ClientLosesNothing == ClientSpec => []NoLostResponse
BY ClientHasConn, NothingLost, PTL
=============================================================================
