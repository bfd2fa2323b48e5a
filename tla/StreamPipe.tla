----------------------------- MODULE StreamPipe -----------------------------
(***************************************************************************)
(* One streaming completion, from the parser to the consumer.              *)
(*                                                                         *)
(* The goroutines hand the chunks on through channels: the parser, the     *)
(* forwarder of OpenAIProvider's Stream, which the other providers do      *)
(* without, and wrapStream of client.go, which records Stats.  The         *)
(* consumer folds the chunks into a result as StreamAccumulator of         *)
(* stream_result.go does; it is CollectStream, or a caller that ranges     *)
(* over the channel and may leave at any time.  The context is the         *)
(* caller's, which may end at any time.                                    *)
(***************************************************************************)
EXTENDS StreamParser

CONSTANT Buffer    \* capacity of each channel (16 in the code)

ASSUME PipeAssumption == Buffer \in Nat \ {0}

VARIABLES ch,         \* channel from the parser to the forwarder
          fwd,        \* the forwarder: "receive", "send", "closed" or "none"
          fitem,      \* the chunk in its hands
          in,         \* channel to wrapStream
          wrap,       \* wrapStream's goroutine: "select", "send" or "closed"
          witem,      \* the chunk in its hands
          success,    \* its local: no error chunk seen
          usage,      \* its locals: tokens of the last chunk marked Done, which
                      \* an error chunk is too, without any
          out,        \* channel from wrapStream to the consumer
          consumer,   \* "reading", "ended" (channel closed) or "left"
          got,        \* chunks the consumer has received
          result,     \* its StreamAccumulator
          cancelled,  \* the context has ended
          recorded    \* calls of Stats.RecordRequest: [ok, usage]

fwdVars == <<ch, fwd, fitem>>
wrapVars == <<wrap, success, usage, witem, recorded>>
consumerVars == <<consumer, got, result>>
vars == <<parserVars, fwdVars, in, wrapVars, out, consumerVars, cancelled>>

\* The parser's channel goes to the forwarder, not to wrapStream.
Forwarded == format \in Holding
\* The provider's channel has no buffer and its parser ignores the context.
Unbuffered == format = "hunyuan"

Full(c) == Len(c) = Buffer

TypeOK ==
    /\ ParserTypeOK
    /\ \A c \in {ch, in, out} : c \in Seq(ChunkType) /\ Len(c) <= Buffer
    /\ got \in Seq(ChunkType)
    /\ {success, usage, cancelled} \subseteq BOOLEAN
    /\ fwd \in {"receive", "send", "closed", "none"}
    /\ wrap \in {"select", "send", "closed"}
    /\ {fitem, witem} \subseteq ChunkType
    /\ consumer \in {"reading", "ended", "left"}
    /\ result \in [texts : Nat, calls : SUBSET Parts, usage : BOOLEAN,
                   err : BOOLEAN, finished : BOOLEAN]
    /\ recorded \in Seq([ok : BOOLEAN, usage : BOOLEAN])

Init ==
    /\ ParserInit
    /\ ch = <<>> /\ in = <<>> /\ out = <<>>
    /\ fwd = (IF Forwarded THEN "receive" ELSE "none") /\ fitem = NoItem
    /\ wrap = "select" /\ success = TRUE /\ usage = FALSE /\ witem = NoItem
    /\ consumer = "reading" /\ got = <<>>
    /\ result = [texts |-> 0, calls |-> {}, usage |-> FALSE, err |-> FALSE, finished |-> FALSE]
    /\ cancelled = FALSE
    /\ recorded = <<>>
-----------------------------------------------------------------------------
(* The parser *)

Scan == ScanStep /\ UNCHANGED <<fwdVars, in, wrapVars, out, consumerVars, cancelled>>

\* select { case ch <- chunk: case <-ctx.Done(): }
ParserSend ==
    /\ parser = "send" /\ ~ Unbuffered
    /\ \/ /\ Forwarded /\ ~ Full(ch) /\ ch' = Append(ch, Head(todo))
          /\ UNCHANGED in /\ AfterSend(FALSE)
       \/ /\ ~ Forwarded /\ ~ Full(in) /\ in' = Append(in, Head(todo))
          /\ UNCHANGED ch /\ AfterSend(FALSE)
       \/ cancelled /\ UNCHANGED <<ch, in>> /\ AfterSend(TRUE)
    /\ UNCHANGED <<fwd, fitem, wrapVars, out, consumerVars, cancelled>>
-----------------------------------------------------------------------------
(* The forwarder: for c := range parseSSEStream { out <- c } *)

\* Mutants of Forward: it drops a chunk the channel has no room for; it does
\* not close the channel.
ForwardDropping ==
    /\ \/ /\ fwd = "receive" /\ ch # <<>>
          /\ fitem' = Head(ch) /\ ch' = Tail(ch)
          /\ fwd' = "send" /\ UNCHANGED in
       \/ /\ fwd = "receive" /\ ch = <<>> /\ parser = "closed"
          /\ fwd' = "closed" /\ UNCHANGED <<ch, fitem, in>>
       \/ /\ fwd = "send"
          /\ in' = IF Full(in) THEN in ELSE Append(in, fitem)
          /\ fwd' = "receive" /\ UNCHANGED <<ch, fitem>>
    /\ UNCHANGED <<parserVars, wrapVars, out, consumerVars, cancelled>>
ForwardNeverCloses ==
    /\ \/ /\ fwd = "receive" /\ ch # <<>>
          /\ fitem' = Head(ch) /\ ch' = Tail(ch)
          /\ fwd' = "send" /\ UNCHANGED in
       \/ /\ fwd = "send" /\ ~ Full(in)
          /\ in' = Append(in, fitem)
          /\ fwd' = "receive" /\ UNCHANGED <<ch, fitem>>
    /\ UNCHANGED <<parserVars, wrapVars, out, consumerVars, cancelled>>

Forward ==
    /\ \/ /\ fwd = "receive" /\ ch # <<>>
          /\ fitem' = Head(ch) /\ ch' = Tail(ch)
          /\ fwd' = "send" /\ UNCHANGED in
       \/ /\ fwd = "receive" /\ ch = <<>> /\ parser = "closed"
          /\ fwd' = "closed" /\ UNCHANGED <<ch, fitem, in>>
       \/ /\ fwd = "send" /\ ~ Full(in)
          /\ in' = Append(in, fitem)
          /\ fwd' = "receive" /\ UNCHANGED <<ch, fitem>>
    /\ UNCHANGED <<parserVars, wrapVars, out, consumerVars, cancelled>>
-----------------------------------------------------------------------------
(* wrapStream *)

\* The next chunk: from the channel, or from the hands of an unbuffered sender.
Take(c) ==
    \/ /\ in # <<>> /\ c = Head(in) /\ in' = Tail(in)
       /\ UNCHANGED parserVars
    \/ /\ Unbuffered /\ parser = "send" /\ c = Head(todo)
       /\ AfterSend(FALSE) /\ UNCHANGED in

\* Mutant of WrapReceive: an error chunk is not noticed.
WrapReceiveBlind ==
    /\ wrap = "select"
    /\ \E c \in {Head(q) : q \in {in, todo} \ {<<>>}} :
          /\ Take(c)
          /\ witem' = c
          /\ usage' = IF c.kind = "text" THEN usage ELSE c.kind = "done"
    /\ wrap' = "send"
    /\ UNCHANGED <<fwdVars, success, out, consumerVars, cancelled, recorded>>

WrapReceive ==
    /\ wrap = "select"
    /\ \E c \in {Head(q) : q \in {in, todo} \ {<<>>}} :
          /\ Take(c)
          /\ witem' = c
          /\ success' = (success /\ c.kind # "error")
          /\ usage' = IF c.kind = "text" THEN usage ELSE c.kind = "done"
    /\ wrap' = "send"
    /\ UNCHANGED <<fwdVars, out, consumerVars, cancelled, recorded>>

WrapSend ==
    /\ wrap = "send"
    /\ ~ Full(out)
    /\ out' = Append(out, witem)
    /\ wrap' = "select"
    /\ UNCHANGED <<parserVars, fwdVars, in, success, usage, witem, consumerVars,
                   cancelled, recorded>>

WrapExit(ok, tokens) ==
    /\ recorded' = Append(recorded, [ok |-> ok, usage |-> tokens])
    /\ wrap' = "closed"
    /\ UNCHANGED <<parserVars, fwdVars, in, success, usage, witem, out, consumerVars, cancelled>>

\* The goroutine that has the body has closed its channel and the body.
SourceClosed == IF Forwarded THEN fwd = "closed" ELSE parser = "closed"

\* The channel from the provider is closed.
WrapEnd == wrap = "select" /\ in = <<>> /\ SourceClosed /\ WrapExit(success, usage)

\* Mutant of WrapCancelled: only the first select looks at the context.
WrapCancelledOnReceive == wrap = "select" /\ cancelled /\ WrapExit(FALSE, FALSE)

\* The context ends, in either select.
WrapCancelled == wrap # "closed" /\ cancelled /\ WrapExit(FALSE, FALSE)
-----------------------------------------------------------------------------
(* The consumer *)

\* StreamAccumulator.Add: the calls of the last chunk that has any, the tokens
\* of the last one marked Done.
Add(c) ==
    [texts |-> IF c.kind = "text" THEN result.texts + 1 ELSE result.texts,
     calls |-> IF c.calls # {} THEN c.calls ELSE result.calls,
     usage |-> IF c.kind = "text" THEN result.usage ELSE c.kind = "done",
     err |-> result.err \/ c.kind = "error",
     finished |-> result.finished \/ c.kind = "done"]

\* An error chunk ends CollectStream at once; another caller may read on.
Receive ==
    /\ consumer = "reading"
    /\ out # <<>>
    /\ got' = Append(got, Head(out))
    /\ result' = Add(Head(out))
    /\ out' = Tail(out)
    /\ consumer' \in IF Head(out).kind = "error" THEN {"left", "reading"} ELSE {"reading"}
    /\ UNCHANGED <<parserVars, fwdVars, in, wrapVars, cancelled>>

ReceiveEnd ==
    /\ consumer = "reading"
    /\ out = <<>> /\ wrap = "closed"
    /\ consumer' = "ended"
    /\ UNCHANGED <<parserVars, fwdVars, in, wrapVars, out, got, result, cancelled>>

\* CollectStream returns as its context ends; any other caller may just stop.
Leave ==
    /\ consumer = "reading"
    /\ consumer' = "left"
    /\ UNCHANGED <<parserVars, fwdVars, in, wrapVars, out, got, result, cancelled>>

\* The caller ends the context, before or after it has stopped reading.
Cancel ==
    /\ ~ cancelled
    /\ cancelled' = TRUE
    /\ UNCHANGED <<parserVars, fwdVars, in, wrapVars, out, consumerVars>>

WrapStep == WrapReceive \/ WrapSend \/ WrapEnd \/ WrapCancelled
ParserStep == Scan \/ ParserSend

Next ==
    \/ ParserStep
    \/ Forward
    \/ WrapStep
    \/ Receive \/ ReceiveEnd \/ Leave
    \/ Cancel

Spec == Init /\ [][Next]_vars

\* Goroutines are scheduled; the HTTP client's timeout covers the body, so
\* scanning goes on (transport.go:57); a consumer that has not left reads.
FairSpec ==
    /\ Spec
    /\ WF_vars(ParserStep) /\ WF_vars(Forward) /\ WF_vars(WrapStep)
    /\ WF_vars(Receive \/ ReceiveEnd)
-----------------------------------------------------------------------------
Seen(kind) == \E k \in DOMAIN got : got[k].kind = kind
EndsWith(kind) == got # <<>> /\ got[Len(got)].kind = kind

\* The consumer gets the chunks in the order they were parsed, none twice, and
\* none missing as long as the context lives.
InOrder ==
    /\ \A k \in 1..(Len(got) - 1) : got[k].n < got[k + 1].n
    /\ ~ cancelled => \A k \in DOMAIN got : got[k].n = k

\* Stats record a stream once, however it ends, and agree with the consumer's
\* accumulator: of a stream read to its end under a living context both know
\* the same outcome, and both have its tokens or neither, though wrapStream
\* and StreamAccumulator keep them apart (client.go:503-541,
\* stream_result.go:44-79).
StatsTellTheTruth ==
    /\ Len(recorded) <= 1
    /\ consumer = "ended" => Len(recorded) = 1
    /\ consumer = "ended" /\ ~ cancelled =>
          recorded = <<[ok |-> ~ result.err, usage |-> result.usage]>>

\* When the final chunk of a message the server has finished arrives, the
\* result has every tool call, put together from all its fragments, for the
\* providers that send fragments; and no result has half a call, unless the
\* body of a Responses stream ended before the message (openai.go:1041-1050).
CallsArrive ==
    result.finished =>
       /\ format \in Assembling /\ finish # "no" => result.calls = sent
       /\ \/ format = "responses" /\ finish = "no"
          \/ \A i \in 1..MaxCalls : result.calls \cap Call(i) \in {{}, Call(i)}

\* An error chunk is the end of the stream whoever made it: CollectStream, which
\* returns at it without reading on, leaves no goroutine and no body behind,
\* and the stream is recorded.
ErrorEndsStream == EndsWith("error") ~> SourceClosed /\ wrap = "closed"

\* A consumer that keeps reading sees the stream end: the goroutines never
\* wait for each other in a circle.
StreamEnds == consumer = "reading" ~> consumer # "reading"

\* "guards against the consumer stopping mid-stream by honouring ctx
\* cancellation on every send" (client.go:504-505): when the context ends,
\* wrapStream ends, and the stream is recorded.
WrapEndsOnCancel == cancelled ~> wrap = "closed"

-----------------------------------------------------------------------------
\* "Stats are recorded when the returned channel is fully consumed (closed or
\* done chunk received)" (client.go:367-368): a stream whose final chunk has
\* been received counts as a success.  A caller that ends its context on the
\* final chunk races the closing of the channel, and wrapStream may record a
\* failure without tokens (client.go:534-536).
DoneIsCounted ==
    Seen("done") /\ recorded # <<>> => recorded[1].ok \/ produced > Len(got)

\* "Function/tool use on providers with an official tool-call API, including
\* streaming assembly" (README.md:20): the result of a finished message has
\* every tool call.  The streams of Gemini and Ollama take the calls of the
\* finishing event and drop those that came before it (gemini.go:303-345,
\* ollama.go:284-313).
EveryCallArrives == result.finished /\ finish # "no" => result.calls = sent

\* "returns any chunk error with partial content and final usage collected up
\* to that point" (stream_result.go:102-103).  An error chunk is marked Done
\* and has no tokens, so that Add overwrites those of the final chunk before.
UsageSurvivesError == Seen("done") => result.usage

\* A result that looks complete is one the server has finished.  Without the
\* finishing event most streams just end, and two make up a final chunk.
CleanEndIsFinished == consumer = "ended" /\ ~ cancelled /\ ~ result.err => finish # "no"

\* "The channel is closed when the stream ends or an error occurs"
\* (types.go:17), says Provider of the channel that its Stream returns: when
\* the parser of a cancelled stream is through, that channel is closed.  It is
\* the forwarder's, which sends without a look at the context
\* (openai.go:330-332): with wrapStream gone and the channel full it blocks for
\* ever and closes neither the channel nor the body.  The parser of Hunyuan
\* (hunyuan.go:133) blocks alike.
ChannelCloses == cancelled /\ parser = "closed" ~> SourceClosed
=============================================================================
