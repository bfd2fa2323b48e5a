---------------------------- MODULE StreamParser ----------------------------
(***************************************************************************)
(* The goroutines that parse the body of a streaming completion into       *)
(* chunks: parseSSEStream and parseResponsesSSE of providers/openai.go and *)
(* the goroutines of Stream of the other providers.                        *)
(*                                                                         *)
(* The server sends text and the parts of its tool calls, then one event   *)
(* that finishes the message, then possibly its usage.  The body may end,  *)
(* break, or have a line that does not parse, anywhere.                    *)
(***************************************************************************)
EXTENDS Integers, Sequences

CONSTANTS MaxTexts,  \* bound of the model: text chunks the server sends
          MaxCalls   \* bound of the model: tool calls of the message

ASSUME ParserAssumption == MaxTexts \in Nat /\ MaxCalls \in Nat

Formats == {"openai", "responses", "anthropic", "cohere", "gemini", "ollama", "hunyuan"}
\* Fragments of the calls are assembled across events.
Assembling == {"openai", "responses", "anthropic", "cohere"}
\* A call comes whole, and counts only in the event that finishes the message.
Whole == {"gemini", "ollama"}
\* The final chunk waits for later events.
Holding == {"openai", "responses"}
\* A line that does not parse is skipped; the others report it.
Lenient == {"anthropic", "cohere", "gemini", "ollama"}
\* A body that just ends gets a final chunk all the same.
Forgiving == {"responses", "hunyuan"}

Parts == (1..MaxCalls) \X {"name", "arguments"}
Call(i) == {<<i, "name">>, <<i, "arguments">>}

Kinds == {"text", "done", "error"}
\* The chunk, its number, and the parts of the tool calls it has.
ChunkType == [n : Nat \ {0}, kind : Kinds, calls : SUBSET Parts]
NoItem == [n |-> 1, kind |-> "text", calls |-> {}]

VARIABLES format,     \* of the provider that serves the stream
          sent,       \* parts the server has sent
          assembled,  \* parts in the parser's accumulators
          texts,      \* texts the server has sent
          finish,     \* the finishing event: "no", "pending" (its chunk is held), "emitted"
          produced,   \* chunks the parser has made
          parser,     \* "scan", "send" or "closed"
          todo,       \* chunks the parser is about to send
          ends        \* it returns once they are sent

serverVars == <<format, sent, texts>>
parserVars == <<format, sent, assembled, texts, finish, produced, parser, todo, ends>>

ParserTypeOK ==
    /\ format \in Formats
    /\ sent \subseteq Parts /\ assembled \subseteq Parts
    /\ texts \in 0..MaxTexts
    /\ finish \in {"no", "pending", "emitted"}
    /\ produced \in Nat
    /\ parser \in {"scan", "send", "closed"}
    /\ todo \in Seq(ChunkType)
    /\ ends \in BOOLEAN

ParserInit ==
    /\ format \in Formats
    /\ sent = {} /\ assembled = {} /\ texts = 0 /\ finish = "no"
    /\ produced = 0 /\ parser = "scan" /\ todo = <<>> /\ ends = FALSE
-----------------------------------------------------------------------------
\* Chunks of these kinds are next, the final one with the calls; the parser
\* returns after them or scans on.
Emit(kinds, calls, last) ==
    /\ todo' = [k \in DOMAIN kinds |->
                  [n |-> produced + k, kind |-> kinds[k],
                   calls |-> IF kinds[k] = "done" THEN calls ELSE {}]]
    /\ produced' = produced + Len(kinds)
    /\ ends' = last
    /\ parser' = IF kinds # <<>> THEN "send" ELSE IF last THEN "closed" ELSE "scan"

\* An event with text.
ScanText ==
    /\ finish = "no" /\ texts < MaxTexts
    /\ texts' = texts + 1
    /\ Emit(<<"text">>, {}, FALSE)
    /\ UNCHANGED <<format, sent, assembled, finish>>

\* Mutant of Assemble: a fragment replaces the call's accumulator.
AssembleAnew(parts) == parts
Assemble(parts) == IF format \in Assembling THEN assembled \cup parts ELSE assembled

\* An event with a part of a tool call, its name first, or with a whole call.
ScanCall ==
    /\ finish = "no" /\ format # "hunyuan"
    /\ \E i \in 1..MaxCalls :
          LET left == Call(i) \ sent
              now == IF format \in Whole \/ <<i, "name">> \notin left THEN left ELSE {<<i, "name">>}
          IN  /\ left # {} /\ \A j \in 1..(i - 1) : <<j, "name">> \in sent
              /\ sent' = sent \cup now
              /\ assembled' = Assemble(now)
    /\ Emit(<<>>, {}, FALSE)
    /\ UNCHANGED <<format, texts, finish>>

\* The finishing event, which may bring a text and, where calls come whole, the
\* last of them.  The chunk is held for the usage, or sent at once.
ScanFinish ==
    /\ finish = "no"
    /\ \A i \in 1..MaxCalls : sent \cap Call(i) \in {{}, Call(i)}
    /\ \E kinds \in {<<>>, <<"text">>},
          last \in IF format \in Whole
                   THEN {{}} \cup {Call(i) : i \in {j \in 1..MaxCalls : sent \cap Call(j) = {}}}
                   ELSE {{}} :
          /\ kinds = <<"text">> => texts < MaxTexts /\ format \in Whole \cup {"openai"}
          /\ texts' = texts + Len(kinds)
          /\ sent' = sent \cup last
          /\ \/ /\ format \in Holding
                /\ finish' = "pending" /\ Emit(kinds, {}, FALSE)
             \/ /\ format # "responses"
                /\ finish' = "emitted"
                /\ Emit(Append(kinds, "done"), IF format \in Whole THEN last ELSE assembled,
                        format \notin Holding)
    /\ UNCHANGED <<format, assembled>>

\* The event with the usage releases the final chunk that was held.
ScanUsage ==
    /\ finish = "pending" /\ format = "openai"
    /\ finish' = "emitted"
    /\ Emit(<<"done">>, assembled, FALSE)
    /\ UNCHANGED <<serverVars, assembled>>

\* Mutant of ScanBadLine: the parser reads on.
ScanBadLineScansOn ==
    /\ format \notin Lenient
    /\ finish' = IF finish = "pending" THEN "emitted" ELSE finish
    /\ Emit(<<"error">>, {}, FALSE)
    /\ UNCHANGED <<serverVars, assembled>>

\* A line that does not parse; it drops the final chunk that was held.
ScanBadLine ==
    /\ format \notin Lenient
    /\ finish' = IF finish = "pending" THEN "emitted" ELSE finish
    /\ Emit(<<"error">>, {}, TRUE)
    /\ UNCHANGED <<serverVars, assembled>>

\* The final chunk owed when nothing more can be read.
Owed(broken) ==
    IF \/ finish = "pending"
       \/ finish = "no" /\ format \in Forgiving /\ (format = "hunyuan" => ~ broken)
    THEN <<"done">> ELSE <<>>

EndKinds(broken) == Owed(broken) \o (IF broken THEN <<"error">> ELSE <<>>)

\* The end of the body, [DONE], or a read that fails.
ScanEnd ==
    /\ \E broken \in BOOLEAN : Emit(EndKinds(broken), assembled, TRUE)
    /\ finish' = IF finish = "pending" THEN "emitted" ELSE finish
    /\ UNCHANGED <<serverVars, assembled>>

ScanStep ==
    /\ parser = "scan"
    /\ \/ ScanText \/ ScanCall \/ ScanFinish \/ ScanUsage
       \/ ScanBadLine \/ ScanEnd

\* What follows the select on Head(todo); giving a text up ends the parser.
AfterSend(gaveUp) ==
    /\ todo' = Tail(todo)
    /\ parser' = IF gaveUp /\ Head(todo).kind = "text" THEN "closed"
                 ELSE IF Tail(todo) # <<>> THEN "send"
                 ELSE IF ends THEN "closed" ELSE "scan"
    /\ UNCHANGED <<serverVars, assembled, finish, produced, ends>>
=============================================================================
