------------------------------ MODULE McpConn ------------------------------
(***************************************************************************)
(* mcp/conn.go over the pipes of mcp/stdio.go: JSON-RPC requests of        *)
(* concurrent callers and the one read loop that matches the responses to  *)
(* them.                                                                   *)
(*                                                                         *)
(* The server is the environment: it reads its input when it likes, or     *)
(* never, answers what it has read in any order, may answer one request    *)
(* twice, sends notifications and lines that are too long, and exits at    *)
(* any time.  What it wrote stays in the pipe, unless the client is being  *)
(* closed.  A request is named by its id, and so is the channel registered *)
(* for it.                                                                 *)
(***************************************************************************)
EXTENDS Integers, Sequences, FiniteSets

CONSTANTS Callers,      \* goroutines that call
          PipeCapacity, \* requests that the pipe to the server holds
          MaxCalls,     \* bound of the model: requests in a behaviour
          MaxMessages   \* bound of the model: messages the server sends

ASSUME ConnAssumption ==
    PipeCapacity \in Nat \ {0} /\ MaxCalls \in Nat \ {0} /\ MaxMessages \in Nat

Ids == 1..MaxCalls
Notification == 0      \* a message with a method
Oversized == -1        \* a line longer than the scanner's buffer
Messages == {Notification, Oversized} \cup Ids
Empty == 0             \* nothing in a channel's buffer of one

VARIABLES nextID,     \* the atomic counter
          pending,    \* ids with a registered channel
          ch,         \* ch[i]: the buffer of the channel made for i: Empty or
                      \* the id of the response in it
          pc,         \* pc[c]: "idle", "send", "wait", "leave"
          id,         \* id[c]: the request of c
          outcome,    \* outcome[c]: how its last call ended
          cancelled,  \* cancelled[c]: the context of its call has ended
          stdin,      \* requests written to the server and not read yet
          requests,   \* requests the server has read
          answered,   \* requests the server has answered
          pipe,       \* the server's messages, not read yet
          sent,       \* messages the server has sent
          alive,      \* the server runs
          closed,     \* what close has closed: "nothing", "stdin", or "both" pipes
          loop,       \* the read loop: "read", "found", "handler", "exited"
          held        \* the response the loop has looked up

callVars == <<nextID, pc, id, outcome, cancelled>>
serverVars == <<stdin, requests, answered, sent, alive, closed>>
vars == <<nextID, pending, ch, pc, id, outcome, cancelled, stdin, requests, answered, pipe,
          sent, alive, closed, loop, held>>

Outcomes == {"none", "result", "ctx", "closed", "sendError"}

TypeOK ==
    /\ nextID \in 0..MaxCalls
    /\ pending \subseteq Ids
    /\ ch \in [Ids -> {Empty} \cup Ids]
    /\ pc \in [Callers -> {"idle", "send", "wait", "leave"}]
    /\ id \in [Callers -> 0..MaxCalls]
    /\ outcome \in [Callers -> Outcomes]
    /\ cancelled \in [Callers -> BOOLEAN]
    /\ stdin \in Seq(Ids)
    /\ requests \subseteq Ids
    /\ answered \subseteq requests
    /\ pipe \in Seq(Messages)
    /\ sent \in 0..MaxMessages
    /\ alive \in BOOLEAN
    /\ closed \in {"nothing", "stdin", "both"}
    /\ loop \in {"read", "found", "handler", "exited"}
    /\ held \in 0..MaxCalls

Init ==
    /\ nextID = 0
    /\ pending = {}
    /\ ch = [i \in Ids |-> Empty]
    /\ pc = [c \in Callers |-> "idle"]
    /\ id = [c \in Callers |-> 0]
    /\ outcome = [c \in Callers |-> "none"]
    /\ cancelled = [c \in Callers |-> FALSE]
    /\ stdin = <<>>
    /\ requests = {}
    /\ answered = {}
    /\ pipe = <<>>
    /\ sent = 0
    /\ alive = TRUE
    /\ closed = "nothing"
    /\ loop = "read"
    /\ held = 0
-----------------------------------------------------------------------------
(* call *)

\* Mutant of Register: the channel is not registered before the request is out.
RegisterLate(c) ==
    /\ pc[c] = "idle"
    /\ nextID < MaxCalls
    /\ nextID' = nextID + 1
    /\ id' = [id EXCEPT ![c] = nextID + 1]
    /\ pc' = [pc EXCEPT ![c] = "send"]
    /\ outcome' = [outcome EXCEPT ![c] = "none"]
    /\ cancelled' = [cancelled EXCEPT ![c] = FALSE]
    /\ UNCHANGED <<pending, ch, serverVars, pipe, loop, held>>

\* Take an id and register its channel.
Register(c) ==
    /\ pc[c] = "idle"
    /\ nextID < MaxCalls
    /\ nextID' = nextID + 1
    /\ pending' = pending \cup {nextID + 1}
    /\ id' = [id EXCEPT ![c] = nextID + 1]
    /\ pc' = [pc EXCEPT ![c] = "send"]
    /\ outcome' = [outcome EXCEPT ![c] = "none"]
    /\ cancelled' = [cancelled EXCEPT ![c] = FALSE]
    /\ UNCHANGED <<ch, serverVars, pipe, loop, held>>

\* The way out of call: the deferred function unregisters the channel later.
LeaveWith(c, o) ==
    /\ pc' = [pc EXCEPT ![c] = "leave"]
    /\ outcome' = [outcome EXCEPT ![c] = o]
    /\ UNCHANGED <<nextID, id, cancelled>>

Writable == alive /\ closed = "nothing"
Full == Len(stdin) >= PipeCapacity

\* Write the request to the server's stdin: the write blocks while the pipe is
\* full, whatever becomes of the context, and fails once the server has exited
\* or close has closed the pipe.
Send(c) ==
    /\ pc[c] = "send"
    /\ \/ /\ Writable /\ ~ Full
          /\ stdin' = Append(stdin, id[c])
          /\ pc' = [pc EXCEPT ![c] = "wait"]
          /\ UNCHANGED <<nextID, id, outcome, cancelled>>
       \/ ~ Writable /\ LeaveWith(c, "sendError") /\ UNCHANGED stdin
    /\ UNCHANGED <<pending, ch, requests, answered, pipe, sent, alive, closed, loop, held>>

\* The three cases of the select; Go picks any that is ready.
Receive(c) ==
    /\ pc[c] = "wait"
    /\ ch[id[c]] # Empty
    /\ LeaveWith(c, "result")
    /\ UNCHANGED <<pending, ch, serverVars, pipe, loop, held>>

ContextDone(c) ==
    /\ pc[c] = "wait"
    /\ cancelled[c]
    /\ LeaveWith(c, "ctx")
    /\ UNCHANGED <<pending, ch, serverVars, pipe, loop, held>>

ConnectionClosed(c) ==
    /\ pc[c] = "wait"
    /\ loop = "exited"
    /\ LeaveWith(c, "closed")
    /\ UNCHANGED <<pending, ch, serverVars, pipe, loop, held>>

\* Mutant of Unregister: only a call that got its result cleans up.
UnregisterOnResult(c) ==
    /\ pc[c] = "leave"
    /\ pending' = IF outcome[c] = "result" THEN pending \ {id[c]} ELSE pending
    /\ pc' = [pc EXCEPT ![c] = "idle"]
    /\ UNCHANGED <<nextID, ch, id, outcome, cancelled, serverVars, pipe, loop, held>>

\* The deferred delete, under the lock.
Unregister(c) ==
    /\ pc[c] = "leave"
    /\ pending' = pending \ {id[c]}
    /\ pc' = [pc EXCEPT ![c] = "idle"]
    /\ UNCHANGED <<nextID, ch, id, outcome, cancelled, serverVars, pipe, loop, held>>

\* The caller ends its context.
Cancel(c) ==
    /\ pc[c] \in {"send", "wait"}
    /\ ~ cancelled[c]
    /\ cancelled' = [cancelled EXCEPT ![c] = TRUE]
    /\ UNCHANGED <<nextID, pending, ch, pc, id, outcome, serverVars, pipe, loop, held>>
-----------------------------------------------------------------------------
(* readLoop *)

\* Scan one message: look a response's channel up under the lock, or hand a
\* notification to the handler; with no channel the response is dropped.
Read ==
    /\ loop = "read"
    /\ pipe # <<>>
    /\ Head(pipe) # Oversized
    /\ pipe' = Tail(pipe)
    /\ IF Head(pipe) = Notification
       THEN loop' = "handler" /\ held' = 0
       ELSE IF Head(pipe) \in pending
            THEN loop' = "found" /\ held' = Head(pipe)
            ELSE UNCHANGED <<loop, held>>
    /\ UNCHANGED <<callVars, pending, ch, serverVars>>

\* Mutant of Deliver: the send blocks while the buffer is full.
DeliverBlocking ==
    /\ loop = "found"
    /\ ch[held] = Empty
    /\ ch' = [ch EXCEPT ![held] = held]
    /\ loop' = "read"
    /\ held' = 0
    /\ UNCHANGED <<callVars, pending, serverVars, pipe>>

\* Send the response into the channel found, unless its buffer is full.  The
\* lock has been released: the caller may be gone.
Deliver ==
    /\ loop = "found"
    /\ ch' = IF ch[held] = Empty THEN [ch EXCEPT ![held] = held] ELSE ch
    /\ loop' = "read"
    /\ held' = 0
    /\ UNCHANGED <<callVars, pending, serverVars, pipe>>

\* The notification handler runs in the loop's goroutine and returns.
HandlerReturns ==
    /\ loop = "handler"
    /\ loop' = "read"
    /\ UNCHANGED <<callVars, pending, ch, serverVars, pipe, held>>

\* Mutant of ScanFails: the loop returns and leaves done open.
ScanFailsSilently ==
    /\ loop = "read"
    /\ IF pipe = <<>> THEN ~ alive ELSE Head(pipe) = Oversized
    /\ loop' = "returned"
    /\ UNCHANGED <<callVars, pending, ch, serverVars, pipe, held>>

\* End of file, or a line the scanner refuses: the loop ends, done is closed.
ScanFails ==
    /\ loop = "read"
    /\ IF pipe = <<>> THEN ~ alive ELSE Head(pipe) = Oversized
    /\ loop' = "exited"
    /\ UNCHANGED <<callVars, pending, ch, serverVars, pipe, held>>
-----------------------------------------------------------------------------
(* The server *)

ServerSends(m) ==
    /\ alive
    /\ sent < MaxMessages
    /\ m \in {Notification, Oversized} \cup requests
    /\ pipe' = Append(pipe, m)
    /\ answered' = answered \cup ({m} \cap Ids)
    /\ sent' = sent + 1
    /\ UNCHANGED <<callVars, pending, ch, stdin, requests, alive, closed, loop, held>>

ServerReads ==
    /\ alive
    /\ stdin # <<>>
    /\ requests' = requests \cup {Head(stdin)}
    /\ stdin' = Tail(stdin)
    /\ UNCHANGED <<callVars, pending, ch, answered, pipe, sent, alive, closed, loop, held>>

\* The process exits, by itself or at the end of its input; what it has not
\* read is lost.
ServerExits ==
    /\ alive
    /\ alive' = FALSE
    /\ stdin' = <<>>
    /\ UNCHANGED <<callVars, pending, ch, requests, answered, pipe, sent, closed, loop, held>>
-----------------------------------------------------------------------------
(* close *)

\* stdin.Close, which also ends a write that is blocked.
CloseStdin ==
    /\ closed = "nothing"
    /\ closed' = "stdin"
    /\ UNCHANGED <<callVars, pending, ch, stdin, requests, answered, pipe, sent, alive, loop, held>>

\* cmd.Wait has seen the process exit and closes the other pipe: the loop keeps
\* what its scanner has buffered, and what it has not read is lost.
WaitReturns ==
    /\ closed = "stdin"
    /\ ~ alive
    /\ closed' = "both"
    /\ \E n \in 0..Len(pipe) : pipe' = SubSeq(pipe, 1, n)
    /\ UNCHANGED <<callVars, pending, ch, stdin, requests, answered, sent, alive, loop, held>>

CallerStep(c) ==
    Send(c) \/ Receive(c) \/ ContextDone(c) \/ ConnectionClosed(c) \/ Unregister(c)
LoopStep == Read \/ Deliver \/ HandlerReturns \/ ScanFails

Next ==
    \/ \E c \in Callers : Register(c) \/ Cancel(c) \/ CallerStep(c)
    \/ LoopStep
    \/ \E m \in Messages : ServerSends(m)
    \/ ServerReads \/ ServerExits
    \/ CloseStdin \/ WaitReturns

Spec == Init /\ [][Next]_vars

\* Goroutines are scheduled, and the handler returns.  Nothing is assumed of
\* the server or of contexts.
FairSpec == Spec /\ WF_vars(LoopStep) /\ \A c \in Callers : WF_vars(CallerStep(c))
-----------------------------------------------------------------------------
\* The table of pending calls is exact: it holds the calls under way, each
\* under an id of its own, and nothing leaks however a call ends
\* (conn.go:59-68).
PendingIsExact ==
    /\ pending = {id[c] : c \in {d \in Callers : pc[d] # "idle"}}
    /\ \A c, d \in Callers : c # d /\ pc[c] # "idle" /\ pc[d] # "idle" => id[c] # id[d]

\* A call returns a result only if the server answered that very request, and
\* late, duplicate or unknown responses never reach another call
\* (conn.go:123-133).
OwnResponseOnly ==
    /\ \A i \in Ids : ch[i] # Empty => ch[i] = i /\ i \in answered
    /\ \A c \in Callers : outcome[c] = "result" => ch[id[c]] = id[c]

\* A call over the pipes implements a call of the transport: the promise is
\* kept when the call leaves the select.
Promise == INSTANCE Transport WITH
    used <- 1..nextID,
    answered <- answered,
    calling <- [c \in Callers |-> IF pc[c] \in {"send", "wait"} THEN id[c] ELSE 0],
    outcome <- [c \in Callers |-> IF outcome[c] \in {"none", "result"} THEN outcome[c]
                                  ELSE "error"]

\* A response to a call that still waits is never dropped, however fast it
\* comes after the request: it is in the pipe, in the loop's hands or in the
\* channel, unless the loop has ended or the client has been closed
\* (conn.go:59-72, 125-133).
NoLostResponse ==
    \A c \in Callers :
        pc[c] = "wait" /\ id[c] \in answered /\ loop # "exited" /\ closed # "both" =>
            \/ ch[id[c]] = id[c]
            \/ held = id[c]
            \/ \E k \in DOMAIN pipe : pipe[k] = id[c]

\* A call whose request is out returns once its context has ended or the server
\* has gone, even if a response never comes or comes twice (conn.go:74-84).  One
\* that still writes returns once the server has gone or the client is closed;
\* the end of its context helps only if there is room in the pipe, so that the
\* write ends (stdio.go:51-54, 78-80).
CallReturns ==
    \A c \in Callers :
        /\ \/ pc[c] = "wait" /\ (cancelled[c] \/ ~ alive)
           \/ pc[c] = "send" /\ ~ Writable
           ~> pc[c] = "idle"
        /\ (pc[c] = "send" /\ cancelled[c]) ~> (pc[c] = "idle" \/ Full)

\* The read loop gets through what the server wrote, and is back at the pipe,
\* whatever the callers do: no caller that went away, and no second answer,
\* blocks it (conn.go:129-132).
PipeIsDrained == []<>(loop = "exited" \/ (pipe = <<>> /\ loop = "read"))

-----------------------------------------------------------------------------
\* "call sends a JSON-RPC request and blocks until the matching response
\* arrives or ctx is cancelled" (conn.go:40-41): a call whose context has ended
\* returns.  It does not while its write is blocked by a server that does not
\* read (conn.go:70, stdio.go:51-54).
CancelledReturns ==
    \A c \in Callers : (pc[c] # "idle" /\ cancelled[c]) ~> pc[c] = "idle"

\* "call sends a JSON-RPC request and blocks until the matching response
\* arrives or ctx is cancelled" (conn.go:40-41): a call whose response was
\* delivered returns it.  When the server exits after answering, done is
\* closed too, and select may choose it (conn.go:82-83).
DeliveredIsReturned ==
    \A c \in Callers : pc[c] = "leave" /\ outcome[c] = "closed" => ch[id[c]] = Empty
=============================================================================
