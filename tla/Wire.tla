-------------------------------- MODULE Wire --------------------------------
(***************************************************************************)
(* What the chat adapters of providers/ make of a conversation: the        *)
(* conversions of helpers.go, ollama.go and cohere.go.                     *)
(*                                                                         *)
(* A wire is a sequence of items.  A call or a result has the id under     *)
(* which it goes out, and what identifies it in the conversation, which    *)
(* the provider does not see.  The text of a message is one item; its      *)
(* content blocks and the wording are left out, and so is the place of the *)
(* system text, which some requests have apart.                            *)
(***************************************************************************)
EXTENDS History

\* Providers that take tool calls; Hunyuan sends roles and text only.
Adapters == {"openai", "responses", "anthropic", "cohere", "gemini", "ollama"}
\* Their answers give every tool call an id; the others leave it empty.
GivesIDs == {"openai", "responses", "anthropic", "cohere"}
\* A result goes out with the id of its call; Gemini's has a function's name,
\* which may be the same for several calls, and Ollama's only an id.
MatchesByID == {"openai", "responses", "anthropic", "cohere"}

NoID == <<>>
Id(origin, turn, call) == IF origin \in GivesIDs THEN <<turn, call>> ELSE NoID

Text(role) == [kind |-> "text", role |-> role, id |-> NoID, of |-> <<>>]
CallItem(origin, turn, i) ==
    [kind |-> "call", role |-> "assistant", id |-> Id(origin, turn, i), of |-> <<turn, i>>]
ResultItem(role, id, m) ==
    [kind |-> "result", role |-> role, id |-> id, of |-> <<m.turn, m.calls>>]

\* Mutant of ToolTurn: only the first of parallel calls goes out.
ToolTurnFirst(origin, m) == <<CallItem(origin, m.turn, 1)>>

\* An assistant message with tool calls: the calls in order.
ToolTurn(origin, m) == [i \in 1..m.calls |-> CallItem(origin, m.turn, i)]

\* A tool result is a user turn for Anthropic and Gemini, an item without a
\* role for Responses, and a tool message for the others.
ToolResult(adapter, origin, m) ==
    LET role == IF adapter \in {"anthropic", "gemini"} THEN "user"
                ELSE IF adapter = "responses" THEN "none" ELSE "tool"
        id == IF adapter = "gemini" THEN NoID ELSE Id(origin, m.turn, m.calls)
    IN  <<ResultItem(role, id, m)>>

\* System messages go apart for Anthropic and Gemini, first and in order.
Apart(adapter) == adapter \in {"anthropic", "gemini"}
ExtractSystem(msgs) == Picked(msgs, SystemAt(msgs))

\* The items of one message, by an adapter, when the calls came from origin.
Items(adapter, origin, m) ==
    IF m.role = "tool" THEN ToolResult(adapter, origin, m)
    ELSE IF IsToolTurn(m) THEN ToolTurn(origin, m)
    ELSE <<Text(IF m.role = "assistant" /\ adapter = "gemini" THEN "model" ELSE m.role)>>

Convert(adapter, origin, msgs) ==
    LET ordered == IF Apart(adapter)
                   THEN ExtractSystem(msgs) \o Picked(msgs, DOMAIN msgs \ SystemAt(msgs))
                   ELSE msgs
    IN  FlattenSeq([k \in DOMAIN ordered |-> Items(adapter, origin, ordered[k])])
-----------------------------------------------------------------------------
Of(kind, wire) == Picked(wire, {k \in DOMAIN wire : wire[k].kind = kind})

\* The provider gives every result to the call it is of: by its id, which must
\* be one call's only, or as the n-th result to the n-th call.
Paired(adapter, wire) ==
    LET calls == Of("call", wire)
        results == Of("result", wire)
    IN  IF adapter \in MatchesByID
        THEN \A k \in DOMAIN results :
                \E i \in DOMAIN calls :
                   /\ calls[i].id = results[k].id /\ calls[i].of = results[k].of
                   /\ \A j \in DOMAIN calls \ {i} : calls[j].id # results[k].id
        ELSE [i \in DOMAIN calls |-> calls[i].of] = [k \in DOMAIN results |-> results[k].of]
=============================================================================
