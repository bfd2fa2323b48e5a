------------------------------ MODULE McpClient ------------------------------
(***************************************************************************)
(* An MCP client (mcp/client.go) runs over one of two transports: the      *)
(* pipes of a child process, McpConn, or HTTP, McpHttp.  Both must be what *)
(* Transport promises; which one it is, is decided when the client is made.*)
(***************************************************************************)
EXTENDS McpConn

CONSTANTS MaxExchanges,  \* bound of the model: calls over HTTP
          MaxEvents      \* of McpHttp

ASSUME ClientAssumption == MaxExchanges \in Nat /\ MaxEvents \in Nat

VARIABLES transport,  \* "stdio" or "http"
          phase, lastID, sessionID, exchange, dirty, server

Http == INSTANCE McpHttp WITH MaxCalls <- MaxExchanges

httpVars == <<phase, lastID, sessionID, exchange, dirty, server>>
ClientVars == <<vars, transport, httpVars>>

ClientInit == transport \in {"stdio", "http"} /\ Init /\ Http!Init

ClientNext ==
    /\ \/ transport = "stdio" /\ Next /\ UNCHANGED httpVars
       \/ transport = "http" /\ Http!Next /\ UNCHANGED vars
    /\ UNCHANGED transport

\* The fairness of each transport.
ClientSpec ==
    /\ ClientInit /\ [][ClientNext]_ClientVars
    /\ WF_vars(LoopStep) /\ \A c \in Callers : WF_vars(CallerStep(c))
    /\ \A c \in Callers : WF_httpVars(Http!CallStep(c))
-----------------------------------------------------------------------------
ClientTypeOK == TypeOK /\ Http!TypeOK

\* Both transports implement Transport: whatever order, copies or streams the
\* messages come in, a call returns a result only if the server answered that
\* very request (conn.go:114-135, http.go:134-175).
ImplementsTransport == Promise!Spec /\ Http!Promise!Spec

\* Calls return, even if a response never comes or a stream never ends: over
\* the pipes, once their request is out, when the context has ended or the
\* server has gone (conn.go:74-84), and a write that is blocked with the server
\* or the client (CallReturns); over HTTP because the http.Client has a timeout
\* (http.go:43-62).
EveryCallReturns ==
    CallReturns /\ \A c \in Callers : exchange[c].pc # "idle" ~> exchange[c].pc = "idle"

SessionIsKept == Http!SessionIsKept
=============================================================================
