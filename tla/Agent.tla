------------------------------- MODULE Agent -------------------------------
(***************************************************************************)
(* agent.go: RunAgent and RunAgentStream, the loop that alternates model   *)
(* calls and tool calls, and dispatchTools, which runs the tools of one    *)
(* turn one after the other or each in a goroutine of its own.             *)
(*                                                                         *)
(* A model call is one step of Complete, or the chunks of one stream; both *)
(* may fail.  Tools and the model are the environment.                     *)
(***************************************************************************)
EXTENDS Wire

CONSTANTS Configs,     \* what a caller may ask for, see ConfigType
          Histories,   \* the messages a request may start with
          MaxCalls,    \* bound of the model: tool calls in one turn
          Chunks,      \* kinds of chunk the provider may send
          MaxPieces    \* bound of the model: pieces of text in a run

\* The fields of AgentConfig, and whether RunAgentStream is called rather than
\* RunAgent.
ConfigType == [maxIterations : Nat \ {0}, maxHistoryMessages : Nat,
               disableParallel : BOOLEAN, streaming : BOOLEAN]

ASSUME AgentAssumption ==
    /\ \A cfg \in Configs : cfg \in ConfigType
    /\ \A h \in Histories : h \in Seq(Message) /\ WellFormed(h)
    /\ MaxCalls \in Nat \ {0} /\ MaxPieces \in Nat
    /\ Chunks \subseteq {"text", "done", "text and done", "error"}

\* The turns of an earlier run are told apart, and from those of this one.
ASSUME HistoriesArePast ==
    \A h \in Histories : TurnsDiffer(h) /\ \A k \in DOMAIN h : h[k].turn <= 0

VARIABLES config,      \* the configuration of this run
          msgs,        \* the conversation
          iteration,   \* model calls begun
          pc,          \* "ask", "model", "tools" or "ended"
          answer,      \* tool calls of the model's answer, Unanswered before
          pieces,      \* pieces of text the model streamed
          delivered,   \* pieces of text sent to the consumer
          tool,        \* tool[i]: "idle", "running", "failed", "ok", "over"
          aborted,     \* aborted[i]: tool i failed because its context ended
          firstErr,    \* the tool whose error dispatchTools returns, or 0
          cancelled,   \* the caller's context has ended
          event,       \* the terminal event: "none", "done" or "error"
          history      \* what became of histCh: "kept", "sent" or "dropped"

vars == <<config, msgs, iteration, pc, answer, pieces, delivered, tool, aborted, firstErr,
          cancelled, event, history>>
toolVars == <<tool, aborted, firstErr>>
streamVars == <<answer, pieces, delivered>>

Unanswered == -1
Calls == 1..MaxCalls
Started == 1..answer   \* the calls of the current turn

TypeOK ==
    /\ config \in Configs
    /\ msgs \in Seq(Message)
    /\ iteration \in 0..config.maxIterations
    /\ pc \in {"ask", "model", "tools", "ended"}
    /\ answer \in Unanswered..MaxCalls
    /\ pieces \in 0..MaxPieces /\ delivered \in 0..(2 * pieces)
    /\ tool \in [Calls -> {"idle", "running", "failed", "ok", "over"}]
    /\ aborted \in [Calls -> BOOLEAN]
    /\ firstErr \in 0..MaxCalls
    /\ cancelled \in BOOLEAN
    /\ event \in {"none", "done", "error"}
    /\ history \in {"kept", "sent", "dropped"}

Init ==
    /\ config \in Configs
    /\ msgs \in Histories
    /\ iteration = 0
    /\ pc = "ask"
    /\ answer = Unanswered
    /\ pieces = 0 /\ delivered = 0
    /\ tool = [i \in Calls |-> "idle"]
    /\ aborted = [i \in Calls |-> FALSE]
    /\ firstErr = 0
    /\ cancelled = FALSE
    /\ event = "none"
    /\ history = "kept"
-----------------------------------------------------------------------------
(* The loop *)

\* The loop ends with the event e.
End(e) ==
    /\ pc' = "ended"
    /\ event' = e

\* The next model call, or the end of the iterations.
Ask ==
    /\ pc = "ask"
    /\ IF iteration < config.maxIterations
       THEN /\ msgs' = trimHistory(msgs, config.maxHistoryMessages)
            /\ iteration' = iteration + 1
            /\ answer' = Unanswered
            /\ pc' = "model"
            /\ UNCHANGED event
       ELSE End("error") /\ UNCHANGED <<msgs, iteration, answer>>
    /\ UNCHANGED <<pieces, delivered, toolVars, cancelled, history, config>>

\* Complete fails, or Stream before its first chunk.
ModelFails ==
    /\ pc = "model"
    /\ answer = Unanswered
    /\ End("error")
    /\ UNCHANGED <<msgs, iteration, streamVars, toolVars, cancelled, history, config>>

\* What the loop does with an answer that requests n tools.
Answered(n) ==
    IF n = 0
    THEN End("done") /\ UNCHANGED <<msgs, toolVars>>
    ELSE /\ msgs' = Append(msgs, AssistantMessage(iteration, n))
         /\ tool' = [i \in Calls |-> "idle"]
         /\ aborted' = [i \in Calls |-> FALSE]
         /\ firstErr' = 0
         /\ pc' = "tools"
         /\ UNCHANGED event

\* Complete returns.
ModelAnswers ==
    /\ pc = "model"
    /\ ~ config.streaming
    /\ \E n \in 0..MaxCalls : answer' = n /\ Answered(n)
    /\ UNCHANGED <<iteration, pieces, delivered, cancelled, history, config>>
-----------------------------------------------------------------------------
(* The chunks of one streamed answer *)

HasText(kind) == kind \in {"text", "text and done"}
IsDone(kind) == kind \in {"done", "text and done"}

\* A chunk with text goes to the consumer, and a final chunk goes to the
\* consumer, by two tests of the same chunk.
ReadChunk(kind) ==
    /\ pc = "model" /\ config.streaming
    /\ answer = Unanswered
    /\ kind # "error"
    /\ pieces < MaxPieces \/ ~ HasText(kind)
    /\ pieces' = pieces + (IF HasText(kind) THEN 1 ELSE 0)
    /\ delivered' = delivered + (IF ~ HasText(kind) THEN 0 ELSE IF IsDone(kind) THEN 2 ELSE 1)
    /\ IF IsDone(kind) THEN answer' \in 0..MaxCalls ELSE UNCHANGED answer
    /\ UNCHANGED <<msgs, iteration, pc, toolVars, cancelled, event, history, config>>

ReadErrorChunk ==
    /\ pc = "model" /\ config.streaming
    /\ "error" \in Chunks
    /\ End("error")
    /\ UNCHANGED <<msgs, iteration, streamVars, toolVars, cancelled, history, config>>

\* The consumer does not take a chunk and the context ends.
SendGivesUp ==
    /\ pc = "model" /\ config.streaming
    /\ cancelled
    /\ pc' = "ended"
    /\ UNCHANGED <<msgs, iteration, streamVars, toolVars, cancelled, event, history, config>>

\* The stream is closed.  A stream that the context or the server has cut has
\* no final chunk, which the loop takes for an answer without tool calls.
StreamCloses ==
    /\ pc = "model" /\ config.streaming
    /\ Answered(IF answer = Unanswered THEN 0 ELSE answer)
    /\ UNCHANGED <<iteration, streamVars, cancelled, history, config>>
-----------------------------------------------------------------------------
(* dispatchTools *)

\* A tool is called: all of them in any order, or each after the last one's
\* success.
StartTool(i) ==
    /\ pc = "tools"
    /\ i \in Started
    /\ tool[i] = "idle"
    /\ config.disableParallel => \A j \in 1..(i - 1) : tool[j] = "ok"
    /\ tool' = [tool EXCEPT ![i] = "running"]
    /\ UNCHANGED <<msgs, iteration, pc, streamVars, aborted, firstErr, cancelled, event, history, config>>

\* The tools' context has ended.
ToolContextDone == cancelled \/ firstErr # 0

\* The tool returns a result, an error of its own, a panic that exec turns
\* into an error, or an error because its context has ended.
ToolReturns(i) ==
    /\ pc = "tools"
    /\ tool[i] = "running"
    /\ \/ tool' = [tool EXCEPT ![i] = "ok"] /\ UNCHANGED aborted
       \/ tool' = [tool EXCEPT ![i] = "failed"] /\ UNCHANGED aborted
       \/ /\ ToolContextDone
          /\ tool' = [tool EXCEPT ![i] = "failed"]
          /\ aborted' = [aborted EXCEPT ![i] = TRUE]
    /\ UNCHANGED <<msgs, iteration, pc, streamVars, firstErr, cancelled, event, history, config>>

\* Mutant of CollectError: the last error is kept.
CollectErrorLast(i) ==
    /\ pc = "tools"
    /\ tool[i] = "failed"
    /\ tool' = [tool EXCEPT ![i] = "over"]
    /\ firstErr' = i
    /\ UNCHANGED <<msgs, iteration, pc, streamVars, aborted, cancelled, event, history, config>>

\* Under the mutex: the first error is kept, and cancels the other tools.
CollectError(i) ==
    /\ pc = "tools"
    /\ tool[i] = "failed"
    /\ tool' = [tool EXCEPT ![i] = "over"]
    /\ firstErr' = IF firstErr = 0 THEN i ELSE firstErr
    /\ UNCHANGED <<msgs, iteration, pc, streamVars, aborted, cancelled, event, history, config>>

\* Mutants of DispatchReturns: it does not wait for the other tools; it waits
\* for tools that a sequence cut by an error never starts.
DispatchReturnsEarly ==
    /\ pc = "tools"
    /\ (\A i \in Started : tool[i] \in {"ok", "over"}) \/ firstErr # 0
    /\ IF firstErr # 0
       THEN End("error") /\ UNCHANGED msgs
       ELSE /\ msgs' = msgs \o [i \in Started |-> ToolResultMessage(iteration, i)]
            /\ pc' = "ask"
            /\ UNCHANGED event
    /\ UNCHANGED <<iteration, streamVars, toolVars, cancelled, history, config>>

DispatchReturnsWhenAllRan ==
    /\ pc = "tools"
    /\ \A i \in Started : tool[i] \in {"ok", "over"}
    /\ IF firstErr # 0
       THEN End("error") /\ UNCHANGED msgs
       ELSE /\ msgs' = msgs \o [i \in Started |-> ToolResultMessage(iteration, i)]
            /\ pc' = "ask"
            /\ UNCHANGED event
    /\ UNCHANGED <<iteration, streamVars, toolVars, cancelled, history, config>>

\* Every goroutine is done, or the sequence has ended: with the first error,
\* or with the results appended in the order of the calls.
DispatchReturns ==
    /\ pc = "tools"
    /\ \/ \A i \in Started : tool[i] \in {"ok", "over"}
       \/ config.disableParallel /\ firstErr # 0
    /\ IF firstErr # 0
       THEN End("error") /\ UNCHANGED msgs
       ELSE /\ msgs' = msgs \o [i \in Started |-> ToolResultMessage(iteration, i)]
            /\ pc' = "ask"
            /\ UNCHANGED event
    /\ UNCHANGED <<iteration, streamVars, toolVars, cancelled, history, config>>
-----------------------------------------------------------------------------
\* The deferred send of the conversation, with the context as a way out.
SendHistory ==
    /\ pc = "ended" /\ config.streaming
    /\ history = "kept"
    /\ \/ history' = "sent"
       \/ cancelled /\ history' = "dropped"
    /\ UNCHANGED <<msgs, iteration, pc, streamVars, toolVars, cancelled, event, config>>

\* The caller ends its context.
Cancel ==
    /\ pc # "ended"
    /\ ~ cancelled
    /\ cancelled' = TRUE
    /\ UNCHANGED <<msgs, iteration, pc, streamVars, toolVars, event, history, config>>

Model ==
    \/ ModelFails \/ ModelAnswers
    \/ ReadErrorChunk \/ SendGivesUp \/ StreamCloses
    \/ \E kind \in Chunks : ReadChunk(kind)
ToolStep == \E i \in Calls : StartTool(i) \/ ToolReturns(i) \/ CollectError(i)

Next == Ask \/ Model \/ ToolStep \/ DispatchReturns \/ SendHistory \/ Cancel

Spec == Init /\ [][Next]_vars

\* The model's calls and the tools return, and goroutines are scheduled.
FairSpec == Spec /\ WF_vars(Ask \/ Model \/ ToolStep \/ DispatchReturns)
-----------------------------------------------------------------------------
\* Every request the model gets is one a provider accepts: no tool turn is
\* sent without all its results in order, however the history was trimmed and
\* in whatever order the tools returned (agent.go:70-75, 137-140).
RequestsAreValid == pc = "model" => WellFormed(msgs)

\* Whichever provider serves the run, its adapter's request pairs every tool
\* result with its call, by id or, for Gemini and Ollama, by order alone
\* (helpers.go:231-551, ollama.go:34-63, cohere.go:485-527).
WireIsPaired ==
    pc = "model" => \A p \in Adapters : Paired(p, Convert(p, p, msgs))

\* No tool is still running once its turn is over: the loop never asks the
\* model, or returns, with a tool goroutine behind it (agent.go:343-363).
NoToolLeftRunning == pc # "tools" => \A i \in Calls : tool[i] \notin {"running", "failed"}

\* The error the loop ends with is the one that caused the others: a tool
\* that failed because another one did is not blamed (agent.go:348-355).
FirstErrorIsTheCause == firstErr # 0 /\ ~ cancelled => ~ aborted[firstErr]

\* The loop ends, whatever the model asks for and however its tools fail: the
\* turn waits for no tool that will not run (agent.go:100, 290-364).
AgentEnds == <>(pc = "ended")

-----------------------------------------------------------------------------
\* "The newest turn is kept even when that turn alone is larger than the
\* limit, so the next request remains valid" (agent.go:72-74).  It is not
\* when there are MaxHistoryMessages system messages (agent.go:384-387).
NewestTurnIsKept ==
    pc = "model" /\ iteration > 1 => Last(msgs).role = "tool" /\ Last(msgs).turn = iteration - 1

\* Fallback hands one conversation to several providers.  The calls of Gemini
\* and Ollama have no ids (gemini.go:152, ollama.go:163), and the next provider
\* cannot tell the results of two of them apart.
WireIsPairedAfterFallback ==
    pc = "model" => \A p, q \in Adapters : Paired(p, Convert(p, q, msgs))

\* "EventDone fires when the agent loop finishes successfully" (agent.go:30).
\* It also fires for a stream that was cut before its final chunk
\* (agent.go:245-248).
DoneMeansAnswered == event = "done" => answer # Unanswered

\* "Each model response is streamed to the caller" (agent.go:148-149).  A
\* final chunk that has text, which providers/hunyuan.go:126-133 sends, is
\* sent twice (agent.go:222-235).
TextIsDeliveredOnce == delivered = pieces

\* "When the loop ends, the full conversation history is sent to histCh"
\* (agent.go:153).  Under an ended context it may be dropped
\* (agent.go:177-180).
HistoryIsSent == history # "dropped"
=============================================================================
