------------------------------- MODULE McpHttp -------------------------------
(***************************************************************************)
(* mcp/http.go: JSON-RPC over HTTP, where every call is an exchange of its *)
(* own, and the session that ties the exchanges together; with newClient's *)
(* handshake and Close (mcp/client.go:56-119).                             *)
(*                                                                         *)
(* The server is the environment.  It may keep sessions: then it names one *)
(* in its answer to initialize and refuses what comes outside of it.  It   *)
(* answers with one JSON message or with a stream of events, may forget a  *)
(* session, and its answers may be lost.                                   *)
(***************************************************************************)
EXTENDS Integers, Sequences, Functions

CONSTANTS Callers,     \* goroutines that share the client
          MaxCalls,    \* bound of the model: calls in a behaviour
          MaxEvents    \* bound of the model: events before a stream ends

VARIABLES phase,       \* "new", "initialize", "notify", "ready", "failed"
          lastID,      \* the atomic counter
          sessionID,   \* what the atomic holds
          exchange,    \* exchange[c]: the call of c
          dirty,       \* the handler has seen tools/list_changed
          server       \* the server's side

vars == <<phase, lastID, sessionID, exchange, dirty, server>>

Ids == 1..MaxCalls
NoSession == "no session"
Session == "session"
Unacceptable == "unacceptable"   \* an id validSessionID refuses

\* What the stream of call i carries: its response, a request of the server's
\* own that happens to have the same id, or a notification.
Event(kind, i) == [kind |-> kind, id |-> i]
Events(i) == {Event("response", i), Event("request", i), Event("notification", 0)}

Idle == [pc |-> "idle", id |-> 0, carries |-> NoSession, reply |-> <<>>, outcome |-> "none"]

TypeOK ==
    /\ phase \in {"new", "initialize", "notify", "ready", "failed"}
    /\ lastID \in 0..MaxCalls
    /\ sessionID \in {NoSession, Session}
    /\ \A c \in Callers :
          /\ exchange[c].pc \in {"idle", "post", "reply", "stream"}
          /\ exchange[c].id \in 0..MaxCalls
          /\ exchange[c].carries \in {NoSession, Session}
          /\ exchange[c].outcome \in {"none", "result", "error", "expired"}
    /\ dirty \in BOOLEAN

Init ==
    /\ phase = "new" /\ lastID = 0
    /\ sessionID = NoSession
    /\ exchange = [c \in Callers |-> Idle]
    /\ dirty = FALSE
    /\ \E keeps \in {NoSession, Session, Unacceptable} :
          server = [keeps |-> keeps, live |-> FALSE, forgot |-> FALSE, answered |-> {},
                    stranger |-> FALSE]
-----------------------------------------------------------------------------
(* call *)

\* The handshake's call comes first and alone; only then is there a Client.
Post(c) ==
    /\ exchange[c].pc = "idle" /\ lastID < MaxCalls
    /\ \/ phase = "new" /\ phase' = "initialize"
       \/ phase = "ready" /\ UNCHANGED phase
    /\ lastID' = lastID + 1
    /\ exchange' = [exchange EXCEPT ![c] = [Idle EXCEPT !.pc = "post", !.id = lastID + 1,
                                                        !.carries = sessionID]]
    /\ UNCHANGED <<sessionID, dirty, server>>

\* newClient goes on only with a result.
Return(c, outcome) ==
    /\ exchange' = [exchange EXCEPT ![c] = [Idle EXCEPT !.outcome = outcome]]
    /\ phase' = IF phase # "initialize" THEN phase
                ELSE IF outcome = "result" THEN "notify" ELSE "failed"

\* Mutant of ReceiveReply: the session is stored with a JSON answer only.
ReceiveReplyStoresLate(c) ==
    /\ exchange[c].pc = "reply"
    /\ LET reply == exchange[c].reply
       IN /\ sessionID' = IF reply.session = Session /\ reply.type = "json" THEN Session
                          ELSE sessionID
          /\ IF reply.status # 200
             THEN Return(c, IF reply.status = 404 THEN "expired" ELSE "error")
             ELSE IF reply.type = "stream"
                  THEN exchange' = [exchange EXCEPT ![c].pc = "stream"] /\ UNCHANGED phase
                  ELSE Return(c, "result")
    /\ UNCHANGED <<lastID, dirty, server>>

\* The headers: a valid session id is stored, whatever the status says.
ReceiveReply(c) ==
    /\ exchange[c].pc = "reply"
    /\ LET reply == exchange[c].reply
       IN /\ sessionID' = IF reply.session = Session THEN Session ELSE sessionID
          /\ IF reply.status # 200
             THEN Return(c, IF reply.status = 404 THEN "expired" ELSE "error")
             ELSE IF reply.type = "stream"
                  THEN exchange' = [exchange EXCEPT ![c].pc = "stream"] /\ UNCHANGED phase
                  ELSE Return(c, "result")
    /\ UNCHANGED <<lastID, dirty, server>>

\* Mutant of IsResponse: a request of the server's own is taken for a response.
IsResponseByID(e, i) == e.id = i

IsResponse(e, i) == e.id = i /\ e.kind = "response"

\* readSSEResponse: the next event is the response, or a message for the
\* handler, or neither; a stream that ends before is an error.
ReadEvent(c) ==
    /\ exchange[c].pc = "stream"
    /\ LET events == exchange[c].reply.events
       IN IF events = <<>> THEN Return(c, "error") /\ UNCHANGED dirty
          ELSE IF IsResponse(Head(events), exchange[c].id)
               THEN Return(c, "result") /\ UNCHANGED dirty
               ELSE /\ exchange' = [exchange EXCEPT ![c].reply.events = Tail(events)]
                    /\ dirty' = (dirty \/ Head(events).kind = "notification")
                    /\ UNCHANGED phase
    /\ UNCHANGED <<lastID, sessionID, server>>

\* The client's Timeout, the context or the network ends the exchange.
TimeOut(c) ==
    /\ exchange[c].pc # "idle"
    /\ Return(c, "error")
    /\ UNCHANGED <<lastID, sessionID, dirty, server>>
-----------------------------------------------------------------------------
(* The handshake's end, and Close *)

\* notifications/initialized: the status of the answer is not looked at.
Notify ==
    /\ phase = "notify"
    /\ \/ phase' = "failed" /\ UNCHANGED server
       \/ /\ phase' = "ready"
          /\ server' = [server EXCEPT !.stranger = @ \/ (server.live /\ sessionID = NoSession)]
    /\ UNCHANGED <<lastID, sessionID, exchange, dirty>>

\* DELETE, where there is a session and the server does not refuse.  The client
\* stays as it is: calls under way go on, and new ones are sent.
Close ==
    /\ phase = "ready"
    /\ sessionID # NoSession
    /\ server' = [server EXCEPT !.live = FALSE, !.forgot = TRUE]
    /\ UNCHANGED <<phase, lastID, sessionID, exchange, dirty>>
-----------------------------------------------------------------------------
(* The server *)

Reply(status, session, type, events) ==
    [status |-> status, session |-> session, type |-> type, events |-> events]

Streams(i) == UNION {[1..n -> Events(i)] : n \in 0..MaxEvents}

\* The server takes a request: it opens a session for initialize, refuses what
\* belongs to none it has, and answers the rest.
Serve(c) ==
    /\ exchange[c].pc = "post"
    /\ LET i == exchange[c].id
           opens == i = 1 /\ server.keeps # NoSession
           outside == i # 1 /\ server.keeps = Session /\ ~ (server.live /\ exchange[c].carries = Session)
           session == IF server.keeps = Session /\ ~ outside THEN server.keeps ELSE NoSession
       IN \/ /\ outside
             /\ exchange' = [exchange EXCEPT ![c].pc = "reply",
                                ![c].reply = Reply(404, NoSession, "json", <<>>)]
             /\ server' = [server EXCEPT !.stranger = @ \/ ~ server.forgot]
          \/ /\ ~ outside
             /\ exchange' = [exchange EXCEPT ![c].pc = "reply",
                                ![c].reply = Reply(500, NoSession, "json", <<>>)]
             /\ UNCHANGED server
          \/ /\ ~ outside
             /\ \E named \in IF opens THEN {server.keeps} ELSE {session, NoSession} :
                \E r \in {Reply(200, named, "json", <<>>)}
                         \cup {Reply(200, named, "stream", events) : events \in Streams(i)} :
                   /\ exchange' = [exchange EXCEPT ![c].pc = "reply", ![c].reply = r]
                   /\ server' = [server EXCEPT
                         !.live = @ \/ (opens /\ server.keeps = Session),
                         !.answered = IF r.type = "json" \/ Event("response", i) \in Range(r.events)
                                      THEN @ \cup {i} ELSE @]
    /\ UNCHANGED <<phase, lastID, sessionID, dirty>>

\* The server restarts or drops the session.
Forget ==
    /\ server.live
    /\ server' = [server EXCEPT !.live = FALSE, !.forgot = TRUE]
    /\ UNCHANGED <<phase, lastID, sessionID, exchange, dirty>>

CallStep(c) == ReceiveReply(c) \/ ReadEvent(c) \/ TimeOut(c)

Next ==
    \/ \E c \in Callers : Post(c) \/ CallStep(c) \/ Serve(c)
    \/ Notify \/ Close \/ Forget

Spec == Init /\ [][Next]_vars

\* Goroutines are scheduled and http.Client.Timeout ends every exchange.
FairSpec == Spec /\ \A c \in Callers : WF_vars(CallStep(c))
-----------------------------------------------------------------------------
\* "The client includes it on all subsequent requests" (http.go:31-32): a
\* server that has not forgotten the session never sees a request or the end
\* of the handshake outside of it, in whichever form it answered initialize.
SessionIsKept == ~ server.stranger

\* An exchange implements a call of the transport.
Promise == INSTANCE Transport WITH
    used <- 1..lastID,
    answered <- server.answered,
    calling <- [c \in Callers |-> IF exchange[c].pc = "idle" THEN 0 ELSE exchange[c].id],
    outcome <- [c \in Callers |-> IF exchange[c].outcome = "expired" THEN "error"
                                  ELSE exchange[c].outcome]

\* A call is told that its session has expired only if the server dropped it.
ExpiredIsTrue == \A c \in Callers : exchange[c].outcome = "expired" => server.forgot
=============================================================================
