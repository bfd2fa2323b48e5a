# A TLA+ verification of deebus

deebus is a Go library that gives programs one interface to many AI providers.
It wraps every call in a reliability stack (circuit breaker, retry, rate
limiter, fallback), streams answers through goroutines and channels, runs
long tasks at vendors, runs an agent loop with tools, and talks to MCP servers.
This directory holds TLA+ modules that model the parts with concurrency, failure
and time in them, TLC configurations that check them on small instances, and
TLAPS proofs for every value of their constants.

    tlc -config CircuitBreaker.cfg MCCircuitBreaker
    tlapm CircuitBreaker_proofs.tla

## 1. The system

| Component | Code | State | Operations | What is hard |
|---|---|---|---|---|
| Circuit breaker | `internal/circuit/breaker.go`, `middleware/circuit.go` | state, failures, halfOpenSent, lastFailTime | Allow, RecordSuccess, RecordFailure | outcomes recorded long after their admission; half-open slots |
| Rate limiter | `middleware/ratelimit.go` | tokens, lastCheck | acquire, tryAcquire | waiters race for tokens; a wait rounded to a Duration |
| Retry | `middleware/retry.go` and the retry methods of `media.go`, `operation.go`, `batch.go` | attempt, context | the loop, backoff, sleepWithContext | overflow, context against timer |
| Client | `client.go`, `media.go`, `count.go`, `operation.go`, `batch.go`, `cache.go` | providers, Stats | Complete, Stream, Embed, media, tasks, caches | fallback over the layers below, concurrent calls |
| Stats | `stats.go` | eight atomic counters | RecordRequest, Get | no lock |
| Streaming | the stream parsers of `providers/*.go`, `client.go` wrapStream, `stream_result.go` | up to three channels and goroutines; the parts of tool calls | parse, forward, wrap, collect | context, consumer and body end at any time; calls that come in pieces |
| Chat adapters | `providers/*.go`, `providers/helpers.go` | none between calls | conversions of a conversation | tool results must find their calls |
| Tasks | `operation.go`, `batch.go`, `media.go`, `providers/*_operation.go`, `providers/*batch.go` | at the vendor | Submit, Get, Cancel | a submission is repeated; nine vendors, each with its words |
| Agent | `agent.go` | the conversation | RunAgent, RunAgentStream, dispatchTools, trimHistory | parallel tools, trimming |
| MCP over stdio | `mcp/conn.go`, `mcp/stdio.go` | pending calls, the two pipes | call, readLoop, close | responses against cancellation and exit; writes that block |
| MCP over HTTP | `mcp/http.go`, `mcp/client.go` | session id, lastID | initialize, call, notify, close | answers as JSON or as a stream; sessions that are lost |
| MCP tools | `mcp/client.go` | toolsCache, toolsDirty | Tools, fetchAllTools, notification | invalidation during a fetch |
| Request policy | `request_policy.go`, `request_limits.go`, `request_clone.go`, `request_snapshot.go` | none | ApplyContext, Validate, reports | one request, many calls; order of steps |
| The rest | `cost.go`, logging, configuration, registry, auth, HTTP transport, examples | none that others read | | |

A `Client` builds one provider object per configured provider, wrapped as
Logging -> CircuitBreaker -> Retry -> RateLimit -> provider (`client.go:575-625`).
All calls share these objects. The breaker and the bucket have a mutex each,
held only inside their own methods, so everything between `allow` and `record`,
or between two `tryAcquire`s, interleaves with other calls. The request policy
works on a clone of the caller's request before each provider is tried. The
agent calls the client, whose adapters turn the conversation into the vendor's
form; its tools may be an MCP client's `Execute`. Contexts run through
everything.

The hazards, each at its line and with the properties that watch it, are in
`PROJECT.json`. What makes each component correct is stated as named properties
in its module.

## 2. The modules

    Errors   <- Breaker <- CircuitBreaker (implements Gate)
             <- Client (with Breaker), Retry, RequestPolicy
    Client   <- ClientCircuits (implements CircuitBreaker, per provider)
             <- Vendors <- Tasks
    History  <- Wire <- Agent
    StreamParser <- StreamPipe
    McpConn, McpHttp (both implement Transport) <- McpClient
    RateLimit and ToolsCache stand alone

An `MC*` module gives the constants of a specification their values, and
`*_proofs` its theorems.

**Errors.** An error is the record of the fields the layers read: is it a
`*ProviderError`, its status, retryable, fallback. Wrapping does not change it.

**Breaker, CircuitBreaker, Gate.** The breaker is a record, its methods are
functions of it. The code compares only `time.Since(lastFailTime)` with
`ResetTimeout`; the model keeps that age in ticks, saturated at the timeout.
Callers are admitted, rejected, and record an outcome at any later time
(`Admit`/`Reject` is `allow`, `Record` is `record`). A call admitted in the
half-open period now running is a "probe"; it turns "ordinary" when the period
ends. `Gate` is the promise without the counters: a gate shuts after
`MaxFailures` failures in a row, lets a few probe after a quiet time, and obeys
the first outcome that arrives.

**RateLimit.** One shared bucket. Tokens are counted in units of `1/Second` of a
token, so that the refill of a tick is a whole number; the wait is truncated
to whole ticks as the code truncates to nanoseconds. The history `debt` is a
meter (a leaky bucket) that stays within capacity iff every window of time obeys
the rate.

**Retry.** The loop all methods of `RetryMiddleware` share, for one call.
Durations are in units of 250 ms. The jitter is a choice from its interval. The
float to integer conversion beyond 2^63 is either result that platforms give.

**Client.** Concurrent calls over routes of providers, with one `Breaker` per
provider. A client method is a record of what distinguishes it: its route, the
capability it needs, what Stats count, when the request policy runs. Each step
of a call between two accesses to shared state is an action: `Allowed` (breaker
in), `Send` (limiter out), `Answer`, `Abort`, `Retry`, `Record` (breaker out and
the fallback decision). The requests sent are counted for each place of the route.
The limiter is reduced to its two outcomes, which
`RateLimit` models in full.

**ClientCircuits.** `Client` with, for each provider, the histories that
`CircuitBreaker` keeps: the probes of the half-open period, the run of failures,
the age of the open period. `AtBreaker` and `Recorded` are `Allowed` and `Record`,
`TimePasses` is `Tick`, and `Elsewhere` is any other step, which leaves the
histories alone. `Circuit(p)` is `CircuitBreaker` with a caller's phase (`CallAt`)
read off its program counter: in flight from `Allowed` to `Record`, through all
its retries, and idle elsewhere, whatever the call does at other providers.

**StreamParser.** The goroutines that parse a body into chunks, for seven
formats: the OpenAI-compatible one, Responses, Anthropic, Cohere, Gemini, Ollama
and Hunyuan. Where they differ (calls in fragments or whole, a final chunk that
is held back, lines that do not parse, bodies that just end) is a set of formats;
a chunk is its number, its kind and the parts of tool calls it has.

**StreamPipe.** The parser, the forwarder that only the formats of
`OpenAIProvider` have, wrapStream and a consumer, joined by channels: bounded
ones, or the unbuffered one of Hunyuan. The consumer folds the chunks as
StreamAccumulator does. It may leave, the context may end, the body may break at
any time.

**History, Wire, Agent.** trimHistory as an operator on sequences of messages
(role, number of tool calls, turn); what each adapter makes of such a sequence,
as items with the ids by which a vendor matches results to calls; and the agent
loop with a tool per goroutine or one after the other. The model and the tools
are the environment.

**Vendors, Tasks.** A vendor's adapter is a record: whether it looks for the id
in the answer to a submission, of which codes it makes an error, and the status
and the result it makes of an answer's word, result, error and code. `Tasks` is
one submission over a route with its retries and fallbacks, during which a task
may be created and its answer be lost, be unreadable or lack the id; then the
caller's polling, which may fail at any time and always does for an ID without a
task (`Readable`), and cancelling.

**McpConn.** Callers, the read loop split at its lock, and a server that reads
when it likes or never, answers in any order, twice, with unknown ids or oversized
lines, and may exit. The pipe to the server holds `PipeCapacity` requests; a write
blocks while it is full, without a look at the context. `CloseStdin` is what ends it,
and once the process has exited `WaitReturns` closes the other pipe, with whatever has
not been read from it.

**McpHttp.** The handshake, calls that are an exchange each, and a server that
keeps sessions or not, answers in JSON or by a stream that also carries
requests of its own and notifications, fails, and forgets sessions. `Close` ends
the session and leaves calls under way alone.

**Transport, McpClient.** What an MCP client expects of either: a call returns a
result only after the server answered that request. `McpClient` is a client over
one of the two.

**ToolsCache.** Concurrent `Tools` calls, the page loop of fetchAllTools and the
notification handler, over a server whose list has versions.

**RequestPolicy.** A request is a function from its mutable parts to cells of a
heap, so that a clone that is not deep enough is a shared cell. Calls clone the
caller's request, govern it for each provider of the chain (limits, store,
cache key and retention, prompt-cache breaker, limits again), report and send. Each
step reports its own changes (`Changes`); that they are all there are is what
`AuditIsExact` says.

## 3. The runs

One run per specification checks its safety and its liveness properties. The
type invariants are stated in the modules; those of the modules with proofs are
part of the inductive invariants there.

| Run | Shows | Bounds, and why they are enough |
|---|---|---|
| `CircuitBreaker` | `ClosedCountsStreak`; `ImplementsGate`; `ClosesAfterRecovery` | 3 callers: a late outcome, a probe and a newcomer; 3 failures, 2 ticks, 2 probes; one outcome of each class |
| `RateLimit` | `TokensConserved`, `NoSleepOnToken`; `SomebodyGetsThrough` | 3 callers race for a bucket of 2; 6 ticks a second, so that waits are whole ticks |
| `Retry` | `EveryRetryWaits`, `CancelEndsLoop` | 37 retries: the backoff overflows at the 36th, and both properties are claimed up to there |
| `Client` | `SendsBounded`, `CountedOnce`, `ReliableProviderServes`, `NothingAfterFinalAnswer`; `CircuitsAreCircuits` | 2 concurrent calls, a flaky and a reliable provider and an unknown one, 1 retry, one method of each shape, capabilities that are missing, cancellation; circuits of 1 failure, as the count of failures is checked by `CircuitBreaker`, and of 2 probes, so that both calls can be trials of one period |
| `StreamPipe` | `InOrder`, `StatsTellTheTruth`, `CallsArrive`; `ErrorEndsStream`; `StreamEnds`, `WrapEndsOnCancel` | seven formats, channels of 1 (16 in the code) and up to 3 texts, enough to fill every channel; 2 tool calls in two fragments each |
| `Agent` | `RequestsAreValid`, `WireIsPaired`, `NoToolLeftRunning`, `FirstErrorIsTheCause`; `AgentEnds` | 3 configurations: parallel one-shot with a limit of 4 messages, sequential streaming with 3, parallel streaming without one; up to 3 tools and 3 iterations; 4 kinds of conversation, one of them resumed with two old tool turns; six adapters |
| `Tasks` | `TasksAccounted`, `EndIsTrue`; `ReportedMovesForward`; `PollingEnds` | each of the nine adapters alone and four routes that fall back from one sort of adapter to another; 1 retry; every answer that its vendor may give to a task in each state |
| `McpConn` | `PendingIsExact`, `NoLostResponse`, `SessionIsKept`; `ImplementsTransport`; `EveryCallReturns`, `PipeIsDrained` | 2 callers; pipes: 2 requests over a pipe that holds 1, so that a write blocks, and 2 messages of the server (both answers in either order, or an answer and a duplicate, a notification or a line too long); HTTP: 3 exchanges (the handshake and a call of each), streams of up to 2 events |
| `ToolsCache` | `StaleOnlyIfOvertaken`; `FetchEnds` | 2 callers, 3 pages and 3 cursors so that cursors repeat and the cap is reached, 2 versions of the list |
| `RequestPolicy` | `CallerUntouched`, `EachProviderAfresh`, `AuditIsExact`, `ReportsHideText` | 2 calls on one request, 2 providers, 4 policies (tight, loose and no limits; keys of each kind; with and without a retention; lenient and strict reporting), texts that just fit before a marker is replaced by a longer one |

`Client`, a run of `ClientCircuits`, identifies states that differ by a permutation of
its callers; it checks no liveness property. `CircuitsAreCircuits` says
`\A p \in Configured : Circuit(p)!Spec` with one initial predicate and one action, as
TLC takes no temporal formula under a quantifier over providers. Runs whose system
stops by itself (bounded counters, loops that end) do not check deadlock.

### Where code and documentation differ

Each of these runs checks a sentence of the documentation and ends in a
counterexample.

| Run and property | Sentence | What happens |
|---|---|---|
| `StreamPipe_leak`, `ChannelCloses` | `types.go:17` | the forwarder of a cancelled stream blocks for ever and never closes the channel that `Stream` returned |
| `StreamPipe_calls`, `EveryCallArrives` | `README.md:20` | Gemini and Ollama streams lose the calls of every event but the last |

Smaller disagreements are stated in the modules, under a comment that quotes the
sentence, and belong to no run. TLC refutes each when it is added to the
configuration named here.

| Property | Configuration | What happens |
|---|---|---|
| `OpenForResetTimeout` | `CircuitBreaker.cfg` | a late failure prolongs the open period |
| `RateCapped` | `RateLimit.cfg` with `Rate = 3`, `Second = 4` | a wait truncated to 0 admits a call without a token (by less than a nanosecond of refill a time) |
| `EveryRetryWaits`, `CancelEndsLoop` without `BeforeOverflow` | `Retry.cfg` | from the 36th retry on the loop neither waits nor looks at its context |
| `BlamesOnlyFailures` | `Client.cfg` | cancelled calls, and calls for a capability a provider lacks, open the circuit of a healthy one |
| `DoneIsCounted` | `StreamPipe.cfg` | a stream cancelled on its done chunk counts as a failure |
| `UsageSurvivesError` | `StreamPipe.cfg` | an error chunk is marked Done and erases the usage received before |
| `CleanEndIsFinished` | `StreamPipe.cfg` | a body that just ends looks like an answer without a finish reason |
| `NewestTurnIsKept` | `Agent.cfg` with as many system messages as the limit | trimming drops the newest turn |
| `WireIsPairedAfterFallback` | `Agent.cfg` | calls of Gemini or Ollama have no ids; another provider cannot match their results |
| `DoneMeansAnswered` | `Agent.cfg` | a stream without its final chunk ends in EventDone |
| `TextIsDeliveredOnce` | `Agent.cfg` with the chunk kind `"text and done"` | text in a final chunk is sent twice |
| `HistoryIsSent` | `Agent.cfg` | an ended context drops the history |
| `SucceededHasResult` | `Tasks.cfg` | several adapters report a success that names no result |
| `HandleNamesATask` | `Tasks.cfg` | the adapters of OpenAI, DashScope, Zhipu and Kling and both kinds of batch take an answer without an id for a success, and return an ID that nothing can be polled with |
| `FailureIsReported` | `Tasks.cfg` | a failed task of Jimeng answers every poll with an error for ever; Gemini's error without a message, and the end of an Anthropic batch, read as a success |
| `DeliveredIsReturned` | `McpConn.cfg` | a delivered response is lost to "connection closed" |
| `CancelledReturns` | `McpConn.cfg` | a call whose context has ended is stuck in the write to a server that does not read |
| `CacheRefreshed` | `ToolsCache.cfg` | a notification during a fetch is wiped out |

Read off the code while modelling, and left as they are:

- SubmitBatch applies the limits and nothing else of the request
  policy; ReadBatch reads the output file and never the error file.
- Over HTTP, an error status for `notifications/initialized` counts as confirmed;
  what a stream carries after the response is not read, and there is no stream of
  the server's own; a `data:` line without the space is ignored; a session opened
  by a handshake that then fails stays open; a 404 ends a call and keeps the dead
  session id; the id of a JSON response is not compared.
- A Responses stream that is cut short yields a final chunk with half a call.
  Assembled calls come out in the order of a map. The one-shot answer of Anthropic
  keeps its last text block only.
- Scope and client parts of a cache key are joined by a separator they may
  contain, so two clients can share one. Override with a key that normalises to
  nothing erases the caller's and reports a change.

## 4. Fairness

- `CircuitBreaker`: time passes and calls in flight return (every request has
  the timeout of the HTTP client, `providers/transport.go`). That callers keep
  coming, `CallersKeepComing`, is a hypothesis of `ClosesAfterRecovery` alone.
- `RateLimit`: time passes and a goroutine whose timer has fired is scheduled.
- `Agent`: model calls and tools return, and the consumer of RunAgentStream keeps
  reading or ends the context (`agent.go:187-194` waits for either).
- `StreamPipe`: goroutines are scheduled, the body is read to an end (the HTTP
  timeout covers it), a consumer that has not left keeps reading.
- `Tasks`: the caller keeps polling, an answer that can be read does reach it some
  time, and no vendor works for ever.
- `McpConn`: goroutines are scheduled and the handler returns; nothing is
  assumed of a server behind pipes, which may neither read nor answer nor exit:
  `EveryCallReturns` is about the calls that something can still wake. Over HTTP every exchange ends, by the
  `Timeout` of the http.Client if by nothing else (`http.go:43-62`).
- `ToolsCache`: the server answers.
- `Retry`, `Client` and `RequestPolicy` assume nothing.

Cancellation is never fair: nobody has to cancel.

## 5. What is proved

`CircuitBreaker_proofs`: the safety properties of `CircuitBreaker` for any finite
set of callers, any outcomes and any configuration, and that it implements
`Gate`. `HalfOpenHasProbe`, which the gate has by itself, is not inductive. The invariant `IInv` adds that a
half-open period has started (`halfOpenSent` between 1 and the budget) and that
`halfOpenSent` counts the probes; `ProbesCounted` with a positive count then
gives a probe. The lemmas about `Allow` split it into the three ways it can go;
each action has its lemma. `GateImplemented` takes the same invariant: a probe of
the gate is a caller the breaker has let through and not yet heard of.

`Middleware_proofs`: of the rate limiter, types and `NoSleepOnToken` for every rate,
from the invariant that a running timer never outlives the refill of the missing
part of a token. `TokensAreConserved` and `RateIsCapped` assume `RateDividesClock`,
that a token takes a whole number of ticks: without it they are false, as section 3
says. Of the retry loop, `EveryRetryWaits` and `CancelEndsLoop` for any outcomes,
hints and number of retries. Below the attempt at which it overflows, the delay is
capped by at least two units and the jitter keeps half of that; a hint is positive
by itself.

`McpClient_proofs`: of the connection over the pipes, the table of pending calls is
exact, no response to a waiting call is lost, none reaches another call, and the
connection implements `Transport`. The inductive invariant `CInv` joins them to two
facts: ids are fresh (a request of a call that has not been written is neither in the
pipe to the server nor known to it), and whatever is in the pipe, in the loop's hands or in a channel is an
answer the server gave. Then of a client over either transport, that it implements
`Transport` and `SessionIsKept`, for any number of callers, calls, messages and
events. The invariant `HInv` says that the exchange of the handshake is alone, that a
reply which has a response belongs to a request the server answered, and that from
the reply to initialize on the session has a holder at every moment: first the reply,
then `sessionID` and every call's header, while the server has it open or has
forgotten it.

`Client_proofs`: `SendsBounded`, `CountedOnce`, `NothingAfterFinalAnswer` and
`ReliableProviderServes` for any number of callers, providers and retries. The first
three need of a call only facts about itself: how many sends its position and attempt
allow at each place of its route (`Within`), what it has counted (`Counted`), and that once an answer forbids
the fallback it is on its way out (`OnTheWayOut`). The last needs the calls together.
A half-open circuit has a trial under way that will record (`TrialIsRunning`,
`TrialAlwaysEnds`), and while no context has ended and no capability was missing, the
breaker of a reliable provider is closed without a failure, so nothing turns a call
away from it (`Served`).

The same module proves the refinement: `CircuitsImplemented` is the property of the
run, `CircuitImplemented` says `CircuitSpec => Circuit(p)!Spec` of each provider `p`.
So what `CircuitBreaker_proofs` shows of every behaviour of `CircuitBreaker`, for
finitely many callers, holds of every circuit of the client: half-open slots are
counted exactly and never orphaned, and the count of failures is the true run. Beyond
`IInv` the argument needs that a probe of a circuit is a call that circuit has
admitted and not yet heard of (`CircuitIInv`). `ElsewhereKeeps` shows that no step
above or below a breaker gives or takes an admission; `AtBreakerKeeps` and
`RecordedKeeps` that the two steps at a breaker change that of one call at one
provider; the `...Maps` lemmas turn each into a step of the instance or none.

`StreamPipe_proofs`: `InOrder`, `StatsTellTheTruth` and `CallsArrive` for any capacity
of the channels, any number of texts and calls, and all formats. The invariant looks
at the pipe as one line of chunks (`Line`): what the consumer has, then the channel to
it, what wrapStream holds, the channel before, the forwarder, its channel, and what
the parser is about to send. A move from one to the next leaves the line as it is; a
scan lengthens it at its end; only the end of the context takes a chunk out
(`Order`). `wrapStream`'s locals tell of the part of the line that it has taken
(`Stats`), the accumulator of the part the consumer has (`Accumulated`), and at the
end of the stream these are the same. `ParserInv` says which calls a final chunk may
have (`Finals`), a set that only grows.

`Agent_proofs`: `RequestsAreValid`, `WireIsPaired`, `NoToolLeftRunning` and
`FirstErrorIsTheCause` for every well-formed conversation and any number of tools,
iterations and messages. The first rests on `TrimmedIsWellFormed`: `trimHistory` makes a well-formed conversation of
a well-formed one, whatever its length and the limit. `Picked`, the loop that parts the
system messages from the others, is a recursive function on the naturals; what it
picks is proved by the least position at which it would go wrong, since the naturals
are well-founded. `WireIsPaired`, for each of the six adapters, is proved of the
vendor's form of such a conversation: the loop that joins what the messages become
(`FlattenSeq` as a loop) is followed message by message; in step with it
(`InStep`), the n-th result follows the n-th call (`ResultsFollowCalls`) and has its id, and
ids, which an adapter makes of turn and place or takes from the provider, are
different for different calls because no two tool turns share their turn. That
is an invariant of the loop by itself (`TurnsInOrder`): a run gives its turns the
numbers of its iterations, above those of any history it resumed.

`RequestPolicy_proofs`: `CallerUntouched`, `EachProviderAfresh`, `AuditIsExact` and
`ReportsHideText` for any number of calls on one request, any chain and any set of
policies. The invariant is about ownership: the cells of the caller, of a call's clone
and of each provider's copy are different ones, and a call writes to its own copies
only (`OwnsCopies`), so that each holds what the policy made of the original;
`Recorded` relates what a call has sent to what it has reported.

`Remote_proofs`: of a task, `TasksAccounted`, `EndIsTrue` and `ReportedMovesForward`
for every set of routes and any number of retries. The first is not inductive:
`Attempted` adds that no more tasks were created at the present provider than
attempts made there, and that one which answered has not been asked again. `Reading` is
the one status that an
adapter gives a task in each state, proved of all nine from their tables of words
(`StatusFollows`), but for Gemini's error without a message (`Misread`). The invariant is
that the caller has been told nothing the task will
fall behind of (`Told`). `EndIsTrue` names the two answers that hide how a task ended, and
the proof shows that there is no third. Of the tools cache, `StaleOnlyIfOvertaken` for any number of callers, pages and changes: a page in the pipe
is of the current version unless a change is announced behind it (`PagesAreCurrent`),
so is a fetch that none has overtaken once none is to come (`FetchesAreCurrent`), and
who waits has one request or one page on its way, so that no page of a call that was
given up gets into another (`OneAnswer`).

TLC finds these inductive invariants (`IInv` of `Client_proofs`, `StreamPipe_proofs`,
`Agent_proofs` and `RequestPolicy_proofs`, `TurnsInOrder` of `Agent_proofs`, `TaskInv` and `CacheInv` of
`Remote_proofs`) true on the instances of the runs.

The assumptions are those the modules name: positive parameters, at least one
possible success among the outcomes, a finite set of callers, a rate no faster than
the clock, capacities that are not zero, requests and histories of the right shape, a
well-formed initial conversation whose tool turns are told apart
(`HistoriesArePast`: a provider does not use an id again), and that an answer with
status 400 is classified as `parseError` does.

Only model-checked: every liveness property (fairness and ENABLED are beyond the
prover). Every safety and action property and every refinement that a passing run
checks is stated by a theorem. No module uses RECURSIVE.

## 6. Not modelled

- Cost, logging, configuration, the provider registry, authentication, the
  construction of the HTTP transport, and the examples: no state that the rest
  reads, or set up once before there is any concurrency.
- Media and cache adapters: one request and a mapping of its answer each. How the
  client routes, retries and counts them is in `Client`.
- Of the chat adapters the wording of requests, images and options, and one-shot
  answers. Of tasks ReadOperation and ReadBatch, which change nothing.
- Of the request policy the shortening and normalisation of keys, and which
  metadata a report includes. CloneRequest shares `Stop` and `ToolChoice` with the
  caller's request (`request_clone.go:10`): nothing in the policy writes to them, and no
  modelled part shows them. The cache options are one pointer in the code, two cells
  here. A reporter that is nil is one that never fails, and
  the zero policy the one that changes nothing.
- Of Stats the separate atomic adds of RecordRequest, and loads of Get that may
  fall between them (against `client.go:255`): they concern nothing else in the
  program. `Health` bypasses every layer.
- Of the connection over pipes `notify`, which writes to the same pipe and waits for
  nothing.
- Panics of providers (`record` is not deferred: one that the caller recovers from would keep
  a half-open slot), float64 rounding of the bucket, and contents of messages.

## 7. The plan

The modules above model what the plan set out to, but for one part: `Registry` and
`Validate`, configuration as a relation between what is accepted and what the
client then assumes.
