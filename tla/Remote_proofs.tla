---------------------------- MODULE Remote_proofs ---------------------------
(***************************************************************************)
(* What the client knows of state that lives elsewhere: a long-running     *)
(* task at a vendor, for every set of routes and every number of retries,  *)
(* and the cached tool list of an MCP server, for every set of callers and *)
(* cursors and every number of pages and changes.                          *)
(***************************************************************************)
EXTENDS Tasks, ToolsCache, SequenceTheorems, TLAPS

-----------------------------------------------------------------------------
(* The words of the vendors *)

\* The case that lists the word, when only one does; default when none does.
LEMMA SwitchReads ==
    ASSUME NEW cases, NEW default
    PROVE  \A s \in DOMAIN cases, w \in Words :
              w \in cases[s] /\ (\A t \in DOMAIN cases : w \in cases[t] => t = s) =>
                  Switch(cases, default)[w] = s
<1> SUFFICES ASSUME NEW s \in DOMAIN cases, NEW w \in Words, w \in cases[s],
                    \A t \in DOMAIN cases : w \in cases[t] => t = s
             PROVE  Switch(cases, default)[w] = s
  OBVIOUS
<1>1. (CHOOSE t \in DOMAIN cases : w \in cases[t]) = s
  OBVIOUS
<1> QED
  BY <1>1 DEF Switch

LEMMA OpenAIVideoWords ==
    /\ \A w \in {"queued"} : mapOpenAIVideoStatus[w] = "queued"
    /\ \A w \in {"in_progress"} : mapOpenAIVideoStatus[w] = "running"
    /\ \A w \in {"completed"} : mapOpenAIVideoStatus[w] = "succeeded"
    /\ \A w \in {"failed"} : mapOpenAIVideoStatus[w] = "failed"
<1> DEFINE cases ==
       [queued |-> {"queued"},
        running |-> {"in_progress"},
        succeeded |-> {"completed"},
        failed |-> {"failed"}]
<1>1. /\ DOMAIN cases = {"queued", "running", "succeeded", "failed"}
      /\ cases["queued"] = {"queued"}
      /\ cases["running"] = {"in_progress"}
      /\ cases["succeeded"] = {"completed"}
      /\ cases["failed"] = {"failed"}
  OBVIOUS
<1>2. {"queued", "in_progress", "completed", "failed"} \subseteq Words
  BY DEF Words
<1> HIDE DEF cases
<1>3. mapOpenAIVideoStatus = Switch(cases, "running")
  BY DEF mapOpenAIVideoStatus, cases
<1> QED
  BY <1>1, <1>2, <1>3, SwitchReads

LEMMA DashScopeWords ==
    /\ \A w \in {"pending"} : mapDashScopeStatus[w] = "queued"
    /\ \A w \in {"running"} : mapDashScopeStatus[w] = "running"
    /\ \A w \in {"succeeded"} : mapDashScopeStatus[w] = "succeeded"
    /\ \A w \in {"failed", "unknown"} : mapDashScopeStatus[w] = "failed"
    /\ \A w \in {"canceled", "cancelled"} : mapDashScopeStatus[w] = "cancelled"
<1> DEFINE cases ==
       [queued |-> {"pending"},
        running |-> {"running"},
        succeeded |-> {"succeeded"},
        failed |-> {"failed", "unknown"},
        cancelled |-> {"canceled", "cancelled"}]
<1>1. /\ DOMAIN cases = {"queued", "running", "succeeded", "failed", "cancelled"}
      /\ cases["queued"] = {"pending"}
      /\ cases["running"] = {"running"}
      /\ cases["succeeded"] = {"succeeded"}
      /\ cases["failed"] = {"failed", "unknown"}
      /\ cases["cancelled"] = {"canceled", "cancelled"}
  OBVIOUS
<1>2. {"pending", "running", "succeeded", "failed", "unknown", "canceled", "cancelled"}
          \subseteq Words
  BY DEF Words
<1> HIDE DEF cases
<1>3. mapDashScopeStatus = Switch(cases, "running")
  BY DEF mapDashScopeStatus, cases
<1> QED
  BY <1>1, <1>2, <1>3, SwitchReads

LEMMA ZhipuWords ==
    /\ \A w \in {"pending"} : mapZhipuStatus[w] = "queued"
    /\ \A w \in {"processing", "processing_queue"} : mapZhipuStatus[w] = "running"
    /\ \A w \in {"success"} : mapZhipuStatus[w] = "succeeded"
    /\ \A w \in {"fail", "failed"} : mapZhipuStatus[w] = "failed"
<1> DEFINE cases ==
       [queued |-> {"pending"},
        running |-> {"processing", "processing_queue"},
        succeeded |-> {"success"},
        failed |-> {"fail", "failed"}]
<1>1. /\ DOMAIN cases = {"queued", "running", "succeeded", "failed"}
      /\ cases["queued"] = {"pending"}
      /\ cases["running"] = {"processing", "processing_queue"}
      /\ cases["succeeded"] = {"success"}
      /\ cases["failed"] = {"fail", "failed"}
  OBVIOUS
<1>2. {"pending", "processing", "processing_queue", "success", "fail", "failed"} \subseteq Words
  BY DEF Words
<1> HIDE DEF cases
<1>3. mapZhipuStatus = Switch(cases, "running")
  BY DEF mapZhipuStatus, cases
<1> QED
  BY <1>1, <1>2, <1>3, SwitchReads

LEMMA DoubaoWords ==
    /\ \A w \in {"queued"} : mapDoubaoStatus[w] = "queued"
    /\ \A w \in {"running"} : mapDoubaoStatus[w] = "running"
    /\ \A w \in {"succeeded"} : mapDoubaoStatus[w] = "succeeded"
    /\ \A w \in {"failed"} : mapDoubaoStatus[w] = "failed"
    /\ \A w \in {"cancelled", "canceled"} : mapDoubaoStatus[w] = "cancelled"
<1> DEFINE cases ==
       [queued |-> {"queued"},
        running |-> {"running"},
        succeeded |-> {"succeeded"},
        failed |-> {"failed"},
        cancelled |-> {"cancelled", "canceled"}]
<1>1. /\ DOMAIN cases = {"queued", "running", "succeeded", "failed", "cancelled"}
      /\ cases["queued"] = {"queued"}
      /\ cases["running"] = {"running"}
      /\ cases["succeeded"] = {"succeeded"}
      /\ cases["failed"] = {"failed"}
      /\ cases["cancelled"] = {"cancelled", "canceled"}
  OBVIOUS
<1>2. {"queued", "running", "succeeded", "failed", "cancelled", "canceled"} \subseteq Words
  BY DEF Words
<1> HIDE DEF cases
<1>3. mapDoubaoStatus = Switch(cases, "running")
  BY DEF mapDoubaoStatus, cases
<1> QED
  BY <1>1, <1>2, <1>3, SwitchReads

LEMMA JimengWords ==
    /\ \A w \in {"empty", "in_queue"} : mapJimengStatus[w] = "queued"
    /\ \A w \in {"generating"} : mapJimengStatus[w] = "running"
    /\ \A w \in {"done"} : mapJimengStatus[w] = "succeeded"
    /\ \A w \in {"not_found", "expired"} : mapJimengStatus[w] = "failed"
<1> DEFINE cases ==
       [queued |-> {"empty", "in_queue"},
        running |-> {"generating"},
        succeeded |-> {"done"},
        failed |-> {"not_found", "expired"}]
<1>1. /\ DOMAIN cases = {"queued", "running", "succeeded", "failed"}
      /\ cases["queued"] = {"empty", "in_queue"}
      /\ cases["running"] = {"generating"}
      /\ cases["succeeded"] = {"done"}
      /\ cases["failed"] = {"not_found", "expired"}
  OBVIOUS
<1>2. {"empty", "in_queue", "generating", "done", "not_found", "expired"} \subseteq Words
  BY DEF Words
<1> HIDE DEF cases
<1>3. mapJimengStatus = Switch(cases, "running")
  BY DEF mapJimengStatus, cases
<1> QED
  BY <1>1, <1>2, <1>3, SwitchReads

LEMMA KlingWords ==
    /\ \A w \in {"submitted"} : mapKlingStatus[w] = "queued"
    /\ \A w \in {"processing"} : mapKlingStatus[w] = "running"
    /\ \A w \in {"succeed", "succeeded"} : mapKlingStatus[w] = "succeeded"
    /\ \A w \in {"failed"} : mapKlingStatus[w] = "failed"
<1> DEFINE cases ==
       [queued |-> {"submitted"},
        running |-> {"processing"},
        succeeded |-> {"succeed", "succeeded"},
        failed |-> {"failed"}]
<1>1. /\ DOMAIN cases = {"queued", "running", "succeeded", "failed"}
      /\ cases["queued"] = {"submitted"}
      /\ cases["running"] = {"processing"}
      /\ cases["succeeded"] = {"succeed", "succeeded"}
      /\ cases["failed"] = {"failed"}
  OBVIOUS
<1>2. {"submitted", "processing", "succeed", "succeeded", "failed"} \subseteq Words
  BY DEF Words
<1> HIDE DEF cases
<1>3. mapKlingStatus = Switch(cases, "running")
  BY DEF mapKlingStatus, cases
<1> QED
  BY <1>1, <1>2, <1>3, SwitchReads

LEMMA OpenAIBatchWords ==
    /\ \A w \in {"validating", "in_progress", "finalizing", "cancelling"}
           : mapOpenAIBatchStatus[w] = "running"
    /\ \A w \in {"completed"} : mapOpenAIBatchStatus[w] = "succeeded"
    /\ \A w \in {"failed", "expired"} : mapOpenAIBatchStatus[w] = "failed"
    /\ \A w \in {"cancelled", "canceled"} : mapOpenAIBatchStatus[w] = "cancelled"
<1> DEFINE cases ==
       [running |-> {"validating", "in_progress", "finalizing", "cancelling"},
        succeeded |-> {"completed"},
        failed |-> {"failed", "expired"},
        cancelled |-> {"cancelled", "canceled"}]
<1>1. /\ DOMAIN cases = {"running", "succeeded", "failed", "cancelled"}
      /\ cases["running"] = {"validating", "in_progress", "finalizing", "cancelling"}
      /\ cases["succeeded"] = {"completed"}
      /\ cases["failed"] = {"failed", "expired"}
      /\ cases["cancelled"] = {"cancelled", "canceled"}
  OBVIOUS
<1>2. {"validating", "in_progress", "finalizing", "cancelling", "completed", "failed",
       "expired", "cancelled", "canceled"} \subseteq Words
  BY DEF Words
<1> HIDE DEF cases
<1>3. mapOpenAIBatchStatus = Switch(cases, "queued")
  BY DEF mapOpenAIBatchStatus, cases
<1> QED
  BY <1>1, <1>2, <1>3, SwitchReads

LEMMA AnthropicBatchWords ==
    /\ \A w \in {"in_progress", "canceling"} : mapAnthropicBatchStatus[w] = "running"
    /\ \A w \in {"ended"} : mapAnthropicBatchStatus[w] = "succeeded"
<1> DEFINE cases ==
       [running |-> {"in_progress", "canceling"},
        succeeded |-> {"ended"}]
<1>1. /\ DOMAIN cases = {"running", "succeeded"}
      /\ cases["running"] = {"in_progress", "canceling"}
      /\ cases["succeeded"] = {"ended"}
  OBVIOUS
<1>2. {"in_progress", "canceling", "ended"} \subseteq Words
  BY DEF Words
<1> HIDE DEF cases
<1>3. mapAnthropicBatchStatus = Switch(cases, "queued")
  BY DEF mapAnthropicBatchStatus, cases
<1> QED
  BY <1>1, <1>2, <1>3, SwitchReads

-----------------------------------------------------------------------------
(* What a status says *)

\* The status each adapter gives a task in each state of the vendor's, but for
\* an error of Gemini without a message.
Reading(n, state) ==
    CASE state = "waiting" ->
             IF n \in {"openai", "dashscope", "zhipu", "doubao", "jimeng", "kling"}
             THEN "queued" ELSE "running"
      [] state = "working" -> "running"
      [] state = "done" -> "succeeded"
      [] state = "failed" -> IF n = "claudeBatch" THEN "succeeded" ELSE "failed"
      [] state = "cancelled" ->
             IF n = "claudeBatch" THEN "succeeded"
                 ELSE IF n = "gemini" THEN "failed" ELSE "cancelled"
      [] state = "forgotten" -> IF n = "claudeBatch" THEN "succeeded" ELSE "failed"

Misread(n, state, a) == n = "gemini" /\ state \in {"failed", "cancelled"} /\ a.error = "blank"

StatusOf(n, state, a) == IF Misread(n, state, a) THEN "succeeded" ELSE Reading(n, state)

ReadsAs(n) ==
    \A state \in StatesOf(n) : \A a \in AnswersTo(n, state) :
        Adapters[n].read[a].status = StatusOf(n, state, a)

LEMMA NamesAre ==
    Names = {"openai", "dashscope", "zhipu", "doubao", "gemini", "jimeng", "kling",
             "openaiBatch", "claudeBatch"}
BY DEF Names, Adapters

LEMMA OpenAIReads == ReadsAs("openai")
<1> SUFFICES ASSUME NEW state \in StatesOf("openai"), NEW a \in AnswersTo("openai", state)
             PROVE  Adapters["openai"].read[a].status = Reading("openai", state)
  BY DEF ReadsAs, StatusOf, Misread
<1>1. a \in Answers /\ a.word \in Says("openai", state)
  BY DEF AnswersTo
<1>2. Adapters["openai"].read[a].status = mapOpenAIVideoStatus[a.word]
  BY <1>1 DEF Adapters, openai, Adapter, openAIVideo
<1>3. state \in {"waiting", "working", "done", "failed"}
  BY DEF StatesOf
<1> QED
  BY <1>1, <1>2, <1>3, OpenAIVideoWords DEF Says, Reading

LEMMA DashScopeReads == ReadsAs("dashscope")
<1> SUFFICES ASSUME NEW state \in StatesOf("dashscope"), NEW a \in AnswersTo("dashscope", state)
             PROVE  Adapters["dashscope"].read[a].status = Reading("dashscope", state)
  BY DEF ReadsAs, StatusOf, Misread
<1>1. a \in Answers /\ a.word \in Says("dashscope", state)
  BY DEF AnswersTo
<1>2. Adapters["dashscope"].read[a].status = mapDashScopeStatus[a.word]
  BY <1>1 DEF Adapters, dashscope, Adapter, Mapped
<1>3. state \in {"waiting", "working", "done", "failed", "cancelled", "forgotten"}
  BY DEF StatesOf, States
<1> QED
  BY <1>1, <1>2, <1>3, DashScopeWords DEF Says, Reading

LEMMA ZhipuReads == ReadsAs("zhipu")
<1> SUFFICES ASSUME NEW state \in StatesOf("zhipu"), NEW a \in AnswersTo("zhipu", state)
             PROVE  Adapters["zhipu"].read[a].status = Reading("zhipu", state)
  BY DEF ReadsAs, StatusOf, Misread
<1>1. a \in Answers /\ a.word \in Says("zhipu", state)
  BY DEF AnswersTo
<1>2. Adapters["zhipu"].read[a].status = mapZhipuStatus[a.word]
  BY <1>1 DEF Adapters, zhipu, Adapter, Mapped
<1>3. state \in {"waiting", "working", "done", "failed"}
  BY DEF StatesOf, States
<1> QED
  BY <1>1, <1>2, <1>3, ZhipuWords DEF Says, Reading

LEMMA DoubaoReads == ReadsAs("doubao")
<1> SUFFICES ASSUME NEW state \in StatesOf("doubao"), NEW a \in AnswersTo("doubao", state)
             PROVE  Adapters["doubao"].read[a].status = Reading("doubao", state)
  BY DEF ReadsAs, StatusOf, Misread
<1>1. a \in Answers /\ a.word \in Says("doubao", state)
  BY DEF AnswersTo
<1>2. Adapters["doubao"].read[a].status = mapDoubaoStatus[a.word]
  BY <1>1 DEF Adapters, doubao, Adapter, Mapped
<1>3. state \in {"waiting", "working", "done", "failed", "cancelled"}
  BY DEF StatesOf, States
<1> QED
  BY <1>1, <1>2, <1>3, DoubaoWords DEF Says, Reading

LEMMA JimengReads == ReadsAs("jimeng")
<1> SUFFICES ASSUME NEW state \in StatesOf("jimeng"), NEW a \in AnswersTo("jimeng", state)
             PROVE  Adapters["jimeng"].read[a].status = Reading("jimeng", state)
  BY DEF ReadsAs, StatusOf, Misread
<1>1. a \in Answers /\ a.word \in Says("jimeng", state) /\ a.ok = ~ (state = "failed")
  BY DEF AnswersTo
<1>2. /\ a.ok => Adapters["jimeng"].read[a].status = mapJimengStatus[a.word]
      /\ ~ a.ok => Adapters["jimeng"].read[a].status = "failed"
  BY <1>1 DEF Adapters, jimeng, Adapter, jimengEnvelope
<1>3. state \in {"waiting", "working", "done", "failed", "forgotten"}
  BY DEF StatesOf, States
<1>4. CASE state = "failed"
  BY <1>1, <1>2, <1>4 DEF Reading
<1>5. CASE state # "failed"
  <2>1. Adapters["jimeng"].read[a].status = mapJimengStatus[a.word]
    BY <1>1, <1>2, <1>5
  <2>2. state \in {"waiting", "working", "done", "forgotten"}
    BY <1>3, <1>5
  <2> QED
    BY <1>1, <2>1, <2>2, JimengWords DEF Says, Reading
<1> QED
  BY <1>4, <1>5

LEMMA KlingReads == ReadsAs("kling")
<1> SUFFICES ASSUME NEW state \in StatesOf("kling"), NEW a \in AnswersTo("kling", state)
             PROVE  Adapters["kling"].read[a].status = Reading("kling", state)
  BY DEF ReadsAs, StatusOf, Misread
<1>1. a \in Answers /\ a.word \in Says("kling", state) /\ a.ok
  BY DEF AnswersTo
<1>2. Adapters["kling"].read[a].status = mapKlingStatus[a.word]
  BY <1>1 DEF Adapters, kling, Adapter, klingEnvelope
<1>3. state \in {"waiting", "working", "done", "failed"}
  BY DEF StatesOf, States
<1> QED
  BY <1>1, <1>2, <1>3, KlingWords DEF Says, Reading

LEMMA OpenAIBatchReads == ReadsAs("openaiBatch")
<1> SUFFICES ASSUME NEW state \in StatesOf("openaiBatch"), NEW a \in AnswersTo("openaiBatch", state)
             PROVE  Adapters["openaiBatch"].read[a].status = Reading("openaiBatch", state)
  BY DEF ReadsAs, StatusOf, Misread
<1>1. a \in Answers /\ a.word \in Says("openaiBatch", state)
  BY DEF AnswersTo
<1>2. Adapters["openaiBatch"].read[a].status = mapOpenAIBatchStatus[a.word]
  BY <1>1 DEF Adapters, openaiBatch, Adapter, Mapped
<1>3. state \in {"waiting", "working", "done", "failed", "cancelled"}
  BY DEF StatesOf, States
<1> QED
  BY <1>1, <1>2, <1>3, OpenAIBatchWords DEF Says, Reading

LEMMA AnthropicBatchReads == ReadsAs("claudeBatch")
<1> SUFFICES ASSUME NEW state \in StatesOf("claudeBatch"), NEW a \in AnswersTo("claudeBatch", state)
             PROVE  Adapters["claudeBatch"].read[a].status = Reading("claudeBatch", state)
  BY DEF ReadsAs, StatusOf, Misread
<1>1. a \in Answers /\ a.word \in Says("claudeBatch", state)
  BY DEF AnswersTo
<1>2. Adapters["claudeBatch"].read[a].status = mapAnthropicBatchStatus[a.word]
  BY <1>1 DEF Adapters, claudeBatch, Adapter, anthropicBatch
<1>3. state \in {"waiting", "working", "done", "failed", "cancelled"}
  BY DEF StatesOf, States
<1> QED
  BY <1>1, <1>2, <1>3, AnthropicBatchWords DEF Says, Reading

LEMMA GeminiReads == ReadsAs("gemini")
<1> SUFFICES ASSUME NEW state \in StatesOf("gemini"), NEW a \in AnswersTo("gemini", state)
             PROVE  Adapters["gemini"].read[a].status = StatusOf("gemini", state, a)
  BY DEF ReadsAs
<1>1. /\ a \in Answers /\ a.word \in Says("gemini", state)
      /\ state \in {"waiting", "working", "done"} => a.error = "absent"
      /\ state \in {"failed", "cancelled"} => a.error # "absent"
      /\ a.error \in {"absent", "blank", "message"}
  BY DEF AnswersTo, Answers
<1>2. Adapters["gemini"].read[a].status =
          IF a.error = "message" THEN "failed"
              ELSE IF a.word # "done" THEN "running" ELSE "succeeded"
  BY <1>1 DEF Adapters, gemini, Adapter, geminiOperation
<1>3. state \in {"waiting", "working", "done", "failed", "cancelled"}
  BY DEF StatesOf, States
<1> QED
  BY <1>1, <1>2, <1>3 DEF Says, Reading, StatusOf, Misread

\* Whatever an adapter is told, the status follows from the state of the task,
\* and from the error alone if it is Gemini's.
LEMMA StatusFollows ==
    ASSUME NEW n \in Names, NEW state \in StatesOf(n), NEW a \in AnswersTo(n, state)
    PROVE  Adapters[n].read[a].status = StatusOf(n, state, a)
<1>1. ReadsAs(n)
  BY NamesAre, OpenAIReads, DashScopeReads, ZhipuReads, DoubaoReads, GeminiReads, JimengReads,
     KlingReads, OpenAIBatchReads, AnthropicBatchReads
<1> QED
  BY <1>1 DEF ReadsAs

\* What Anthropic says of a batch that has ended, however it did.
LEMMA OneWordForTheEnd ==
    ASSUME NEW state \in {"done", "failed", "cancelled"}, NEW a \in AnswersTo("claudeBatch", state)
    PROVE  a.word = "ended"
BY DEF AnswersTo, Says

\* A new task waits, and what the adapter says of it is what it will read; a
\* task that can be cancelled is read as cancelled.
LEMMA AdapterFacts ==
    ASSUME NEW n \in Names
    PROVE  /\ "waiting" \in StatesOf(n) /\ StatesOf(n) \subseteq States /\ None # n
           /\ Adapters[n].first \in {"mapped", Reading(n, "waiting")}
           /\ Adapters[n].cancels => "cancelled" \in StatesOf(n)
<1>1. "waiting" \in StatesOf(n) /\ StatesOf(n) \subseteq States /\ None # n
  BY NamesAre DEF StatesOf, States, None
<1>2. CASE n \in {"doubao", "gemini", "jimeng"}
  <2>1. Adapters[n].first = Reading(n, "waiting")
    BY <1>2 DEF Adapters, Adapter, doubao, gemini, jimeng, Reading
  <2>2. Adapters[n].cancels => "cancelled" \in StatesOf(n)
    BY <1>2 DEF Adapters, Adapter, doubao, gemini, jimeng, StatesOf, States
  <2> QED
    BY <1>1, <2>1, <2>2
<1>3. CASE n \in {"openai", "dashscope", "zhipu", "kling"}
  <2>1. Adapters[n].first = "mapped" /\ Adapters[n].cancels = FALSE
    BY <1>3 DEF Adapters, Adapter, openai, dashscope, zhipu, kling
  <2> QED
    BY <1>1, <2>1
<1>4. CASE n \in {"openaiBatch", "claudeBatch"}
  <2>1. Adapters[n].first = "mapped"
    BY <1>4 DEF Adapters, Adapter, openaiBatch, claudeBatch
  <2>2. "cancelled" \in StatesOf(n)
    BY <1>4 DEF StatesOf, States
  <2> QED
    BY <1>1, <2>1, <2>2
<1> QED
  BY <1>2, <1>3, <1>4, NamesAre

Ended == {"done", "failed", "cancelled", "forgotten"}

\* A status is terminal when the task has ended, tells how it did, and none
\* that follows it ranks lower.
LEMMA ReadingFacts ==
    ASSUME NEW n \in Names, NEW state \in States
    PROVE  /\ Reading(n, state) \in Statuses
           /\ Reading(n, state) \in Terminal <=> state \in Ended
           /\ Reading(n, state) = "succeeded" /\ state # "forgotten"
                  => state = "done" \/ n = "claudeBatch"
           /\ Reading(n, state) = "failed" /\ state # "forgotten" =>
                 state = "failed" \/ (n = "gemini" /\ state = "cancelled")
           /\ Reading(n, state) = "cancelled" => state = "cancelled"
           /\ Rank(Reading(n, state)) \in Nat
           /\ Rank(Reading(n, "waiting")) <= Rank(Reading(n, state))
           /\ state \in Ended => Rank(Reading(n, state)) = 3
           /\ Rank(Reading(n, "working")) = 2 /\ Rank(Reading(n, state)) <= 3
<1>1. /\ Reading(n, state) \in Statuses
      /\ Reading(n, state) \in Terminal <=> state \in Ended
      /\ state \in {"waiting", "working"} => Reading(n, state) \in {"queued", "running"}
      /\ Reading(n, "working") = "running" /\ Reading(n, "waiting") \in {"queued", "running"}
  BY DEF States, Reading, Statuses, Terminal, Ended
<1>2. /\ Reading(n, state) = "succeeded" /\ state # "forgotten"
             => state = "done" \/ n = "claudeBatch"
      /\ Reading(n, state) = "failed" /\ state # "forgotten" =>
             state = "failed" \/ (n = "gemini" /\ state = "cancelled")
      /\ Reading(n, state) = "cancelled" => state = "cancelled"
  BY DEF States, Reading
<1>3. /\ Rank("queued") = 1 /\ Rank("running") = 2
      /\ \A s \in Terminal : Rank(s) = 3
  BY DEF Rank, Terminal, None
<1>4. Rank(Reading(n, "waiting")) <= Rank(Reading(n, state))
  <2>1. CASE state = "waiting"
    BY <1>1, <1>3, <2>1
  <2>2. CASE state # "waiting"
    <3>1. Rank(Reading(n, state)) \in {2, 3}
      BY <1>1, <1>3, <2>2 DEF States, Ended
    <3> QED
      BY <1>1, <1>3, <3>1
  <2> QED
    BY <2>1, <2>2
<1> QED
  BY <1>1, <1>2, <1>3, <1>4 DEF States, Ended

-----------------------------------------------------------------------------
(* The task *)

\* Until the caller is given an ID there is nothing to poll; while it polls
\* it has been told nothing that the task will fall behind of; what it was
\* told last is how the task has ended.
Told ==
    /\ pc \in {"submit", "create", "failed"} =>
          handle = None /\ ~ named /\ task = None /\ reported = None
    /\ pc \in {"poll", "ended"} =>
          handle \in Names /\ reported \in Statuses /\ (named => task \in StatesOf(handle))
    /\ pc = "poll" =>
          reported \notin Terminal /\ (named => Rank(reported) <= Rank(Reading(handle, task)))
    /\ pc = "ended" => named /\ reported \in Terminal /\ task \in Ended

\* While the submission goes on, each attempt at this provider has created one
\* task at most, and every answer that came was an error.
Attempted == pc \in {"submit", "create"} => created[at] <= attempt /\ unnamed[at] = 0

TaskInv == TypeOK /\ Told /\ Attempted /\ TasksAccounted /\ EndIsTrue

LEMMA RouteFacts ==
    ASSUME TypeOK
    PROVE  /\ route \in Seq(Names) /\ at \in Nat /\ route[at] \in Names /\ at \in DOMAIN route
           /\ DOMAIN route = 1..Len(route) /\ Len(route) \in Nat
<1>1. route \in Seq(Names) /\ at \in 1..Len(route)
  BY TasksConfig DEF TypeOK
<1> QED
  BY <1>1

LEMMA CountFacts ==
    ASSUME TypeOK
    PROVE  /\ attempt \in Nat /\ attempt <= MaxRetries /\ MaxRetries \in Nat
           /\ \A k \in DOMAIN route :
                 k \in Nat /\ created[k] \in Nat /\ lost[k] \in Nat /\ unnamed[k] \in Nat
<1>1. MaxRetries \in Nat /\ attempt \in 0..MaxRetries
  BY TasksConfig DEF TypeOK
<1>2. \A k \in DOMAIN route : created[k] \in Nat /\ lost[k] \in Nat /\ unnamed[k] \in Nat
  BY DEF TypeOK
<1>3. DOMAIN route \subseteq Nat
  BY RouteFacts
<1> QED
  BY <1>1, <1>2, <1>3

LEMMA InitTaskInv == Init => TaskInv
<1> SUFFICES ASSUME Init PROVE TaskInv
  OBVIOUS
<1>1. /\ at \in 1..Len(route) /\ attempt \in 0..MaxRetries /\ MaxRetries \in Nat
      /\ at = 1 /\ attempt = 0 /\ at \in DOMAIN route /\ DOMAIN route \subseteq Nat
  <2>1. route \in Seq(Names) /\ route # <<>>
    BY TasksConfig DEF Init
  <2>2. MaxRetries \in Nat /\ at = 1 /\ attempt = 0
    BY TasksConfig DEF Init
  <2> QED
    BY <2>1, <2>2
<1>2. /\ {created, lost, unnamed} \subseteq [DOMAIN route -> Nat]
      /\ \A k \in DOMAIN route : created[k] = 0 /\ lost[k] = 0 /\ unnamed[k] = 0
  BY DEF Init
<1>3. TypeOK
  BY <1>1, <1>2 DEF Init, TypeOK
<1>4. TasksAccounted
  <2>1. handle = None /\ \A k \in DOMAIN route : Held(k) = 0
    BY DEF Init, Held
  <2> QED
    BY <1>1, <1>2, <2>1 DEF TasksAccounted
<1>5. Attempted
  BY <1>1, <1>2 DEF Attempted
<1> QED
  BY <1>3, <1>4, <1>5 DEF Init, TaskInv, Told, EndIsTrue

\* An error ends the submission or begins the next attempt at it.
Again == at' = at /\ attempt < MaxRetries /\ attempt' = attempt + 1 /\ pc' = "submit"
Onward == at < Len(route) /\ at' = at + 1 /\ attempt' = 0 /\ pc' = "submit"
GaveUp == at' = at /\ attempt' = 0 /\ pc' = "failed"

LEMMA AfterErrorFacts ==
    ASSUME TypeOK, NEW e, AfterError(e)
    PROVE  /\ (Again /\ IsRetryable(e)) \/ Onward \/ GaveUp
           /\ at' \in 1..Len(route) /\ attempt' \in 0..MaxRetries /\ pc' \in {"submit", "failed"}
<1>1. at \in 1..Len(route) /\ attempt \in 0..MaxRetries /\ Len(route) \in Nat /\ MaxRetries \in Nat
  BY TasksConfig, RouteFacts DEF TypeOK
<1>2. (Again /\ IsRetryable(e)) \/ Onward \/ GaveUp
  BY DEF AfterError, Again, Onward, GaveUp
<1>3. ASSUME Again PROVE at' \in 1..Len(route) /\ attempt' \in 0..MaxRetries
  BY <1>1, <1>3 DEF Again
<1>4. ASSUME Onward PROVE at' \in 1..Len(route) /\ attempt' \in 0..MaxRetries
  BY <1>1, <1>4 DEF Onward
<1>5. ASSUME GaveUp PROVE at' \in 1..Len(route) /\ attempt' \in 0..MaxRetries
  BY <1>1, <1>5 DEF GaveUp
<1>6. pc' \in {"submit", "failed"}
  BY <1>2 DEF Again, Onward, GaveUp
<1> QED
  BY <1>2, <1>3, <1>4, <1>5, <1>6

\* An attempt that fails may leave a task, lost or, if its error is not for
\* the retry, without a name.
Left(l, u) ==
    \A k \in DOMAIN route :
        /\ created'[k] = created[k] + (IF k = at THEN l + u ELSE 0)
        /\ lost'[k] = lost[k] + (IF k = at THEN l ELSE 0)
        /\ unnamed'[k] = unnamed[k] + (IF k = at THEN u ELSE 0)

LEMMA ErrorAccounts ==
    ASSUME TaskInv, pc \in {"submit", "create"}, NEW e, AfterError(e),
           NEW l \in {0, 1}, NEW u \in {0, 1}, l + u <= 1, u = 1 => ~ IsRetryable(e),
           UNCHANGED <<route, handle, named>>, Left(l, u)
    PROVE  TasksAccounted' /\ Attempted'
<1>1. /\ handle = None /\ ~ named /\ at \in DOMAIN route
      /\ created[at] <= attempt /\ unnamed[at] = 0
  BY RouteFacts DEF TaskInv, Told, Attempted
<1>2. /\ attempt \in Nat /\ attempt <= MaxRetries /\ MaxRetries \in Nat /\ at \in Nat
      /\ \A k \in DOMAIN route :
            k \in Nat /\ created[k] \in Nat /\ lost[k] \in Nat /\ unnamed[k] \in Nat
  BY CountFacts, RouteFacts DEF TaskInv
<1>3. /\ (Again /\ IsRetryable(e)) \/ Onward \/ GaveUp
      /\ at' = at \/ at' = at + 1
  BY AfterErrorFacts DEF TaskInv, Again, Onward, GaveUp
<1>4. \A k : Held(k) = 0 /\ Held(k)' = 0
  BY <1>1 DEF Held
<1>5. ASSUME NEW k \in DOMAIN route
      PROVE  /\ created'[k] <= MaxRetries + 1
             /\ unnamed'[k] <= 1
             /\ created'[k] = lost'[k] + unnamed'[k]
             /\ k > at' => created'[k] = 0
  <2>1. /\ created[k] <= MaxRetries + 1 /\ unnamed[k] <= 1
        /\ created[k] = lost[k] + unnamed[k] /\ (k > at => created[k] = 0)
    <3>1. /\ unnamed[k] + 0 <= 1 /\ created[k] = lost[k] + unnamed[k] + 0
          /\ created[k] <= MaxRetries + 1 /\ (k > at => created[k] = 0)
      BY <1>4 DEF TaskInv, TasksAccounted
    <3> QED
      BY <1>2, <3>1
  <2>2. CASE k = at
    BY <1>1, <1>2, <1>3, <2>1, <2>2 DEF Left
  <2>3. CASE k # at
    <3>1. created'[k] = created[k] /\ lost'[k] = lost[k] /\ unnamed'[k] = unnamed[k]
      BY <1>2, <2>3 DEF Left
    <3> QED
      BY <1>2, <1>3, <2>1, <2>3, <3>1
  <2> QED
    BY <2>2, <2>3
<1>6. TasksAccounted'
  <2>1. \A k \in DOMAIN route : unnamed'[k] \in Nat /\ lost'[k] \in Nat
    BY <1>2 DEF Left
  <2> QED
    BY <1>1, <1>4, <1>5, <2>1 DEF TasksAccounted
<1>7. Attempted'
  <2>1. CASE Again /\ IsRetryable(e)
    <3>1. u = 0 /\ created'[at] = created[at] + l /\ unnamed'[at] = unnamed[at]
      BY <1>1, <1>2, <2>1 DEF Left
    <3> QED
      BY <1>1, <1>2, <2>1, <3>1 DEF Again, Attempted
  <2>2. CASE Onward
    <3>1. at + 1 \in DOMAIN route /\ at + 1 > at /\ at + 1 # at
      BY <2>2, RouteFacts DEF TaskInv, Onward
    <3>2. created[at + 1] = 0 /\ unnamed[at + 1] = 0
      <4>1. /\ created[at + 1] = 0
            /\ created[at + 1] = lost[at + 1] + unnamed[at + 1] + 0
        BY <1>4, <3>1 DEF TaskInv, TasksAccounted
      <4> QED
        BY <1>2, <3>1, <4>1
    <3>3. created'[at + 1] = 0 /\ unnamed'[at + 1] = 0
      BY <3>1, <3>2 DEF Left
    <3> QED
      BY <2>2, <3>3 DEF Onward, Attempted
  <2>3. CASE GaveUp
    BY <2>3 DEF GaveUp, Attempted
  <2> QED
    BY <1>3, <2>1, <2>2, <2>3
<1> QED
  BY <1>6, <1>7

\* Nothing was created.
LEMMA RefuseKeeps == ASSUME TaskInv, Refuse PROVE TaskInv'
<1>1. PICK e : AfterError(e)
  BY DEF Refuse
<1>2. /\ at' \in 1..Len(route) /\ attempt' \in 0..MaxRetries /\ pc' \in {"submit", "failed"}
      /\ pc \in {"submit", "create"}
      /\ UNCHANGED <<route, kind, image, created, lost, unnamed>>
      /\ UNCHANGED <<handle, named, task, answer, reported>>
  BY <1>1, AfterErrorFacts DEF Refuse, request, counts, told, TaskInv
<1>3. TypeOK'
  BY <1>2 DEF TaskInv, TypeOK
<1>4. Left(0, 0)
  BY <1>2, CountFacts DEF TaskInv, Left
<1>5. TasksAccounted' /\ Attempted'
  BY <1>1, <1>2, <1>4, ErrorAccounts
<1> QED
  BY <1>2, <1>3, <1>5 DEF TaskInv, Told, EndIsTrue

LEMMA UploadKeeps == ASSUME TaskInv, Upload PROVE TaskInv'
<1>1. /\ pc = "submit" /\ pc' = "create"
      /\ UNCHANGED <<route, kind, image, at, attempt, created, lost, unnamed>>
      /\ UNCHANGED <<handle, named, task, answer, reported>>
  BY DEF Upload, request, counts, told
<1>2. TypeOK'
  BY <1>1 DEF TaskInv, TypeOK
<1>3. TasksAccounted' /\ Attempted'
  BY <1>1 DEF TaskInv, TasksAccounted, Held, Attempted
<1> QED
  BY <1>1, <1>2, <1>3 DEF TaskInv, Told, EndIsTrue

\* The vendor has one task more.
LEMMA SentFacts ==
    ASSUME TaskInv, Sent
    PROVE  /\ pc \in {"submit", "create"} /\ route[at] \in Names /\ at \in DOMAIN route
           /\ handle = None /\ ~ named /\ task = None /\ reported = None
           /\ created' \in [DOMAIN route -> Nat]
           /\ \A k \in DOMAIN route : created'[k] = created[k] + (IF k = at THEN 1 ELSE 0)
<1>1. pc \in {"submit", "create"}
  BY DEF Sent
<1>2. handle = None /\ ~ named /\ task = None /\ reported = None
  BY <1>1 DEF TaskInv, Told
<1>3. route[at] \in Names /\ at \in DOMAIN route
  BY RouteFacts DEF TaskInv
<1>4. created \in [DOMAIN route -> Nat]
  BY DEF TaskInv, TypeOK
<1>5. created' = [created EXCEPT ![at] = created[at] + 1]
  BY DEF Sent
<1> HIDE DEF TaskInv
<1> QED
  BY <1>1, <1>2, <1>3, <1>4, <1>5

LEMMA LoseAnswerKeeps == ASSUME TaskInv, LoseAnswer PROVE TaskInv'
<1>1. PICK e : AfterError(e)
  BY DEF LoseAnswer
<1>2. /\ at' \in 1..Len(route) /\ attempt' \in 0..MaxRetries /\ pc' \in {"submit", "failed"}
      /\ UNCHANGED <<route, kind, image, unnamed>>
      /\ UNCHANGED <<handle, named, task, answer, reported>>
      /\ lost' = [lost EXCEPT ![at] = lost[at] + 1]
  BY <1>1, AfterErrorFacts DEF LoseAnswer, request, told, TaskInv
<1>3. /\ pc \in {"submit", "create"} /\ at \in DOMAIN route
      /\ created' \in [DOMAIN route -> Nat]
      /\ \A k \in DOMAIN route : created'[k] = created[k] + (IF k = at THEN 1 ELSE 0)
  BY SentFacts DEF LoseAnswer
<1>4. /\ lost' \in [DOMAIN route -> Nat] /\ unnamed \in [DOMAIN route -> Nat]
      /\ \A k \in DOMAIN route : lost'[k] = lost[k] + (IF k = at THEN 1 ELSE 0)
  <2>1. lost \in [DOMAIN route -> Nat] /\ unnamed \in [DOMAIN route -> Nat]
    BY DEF TaskInv, TypeOK
  <2> QED
    BY <1>2, <1>3, <2>1
<1>5. TypeOK'
  BY <1>2, <1>3, <1>4 DEF TaskInv, TypeOK
<1>6. Left(1, 0)
  BY <1>2, <1>3, <1>4 DEF Left
<1>7. TasksAccounted' /\ Attempted'
  BY <1>1, <1>2, <1>3, <1>6, ErrorAccounts
<1> QED
  BY <1>2, <1>3, <1>5, <1>7 DEF TaskInv, Told, EndIsTrue

LEMMA MisreadAnswerKeeps == ASSUME TaskInv, MisreadAnswer PROVE TaskInv'
<1>1. AfterError(PlainError) /\ ~ IsRetryable(PlainError)
  BY DEF MisreadAnswer, IsRetryable, PlainError
<1>2. /\ at' \in 1..Len(route) /\ attempt' \in 0..MaxRetries /\ pc' \in {"submit", "failed"}
      /\ UNCHANGED <<route, kind, image, lost>>
      /\ UNCHANGED <<handle, named, task, answer, reported>>
      /\ unnamed' = [unnamed EXCEPT ![at] = unnamed[at] + 1]
  BY <1>1, AfterErrorFacts DEF MisreadAnswer, request, told, TaskInv
<1>3. /\ pc \in {"submit", "create"} /\ at \in DOMAIN route
      /\ created' \in [DOMAIN route -> Nat]
      /\ \A k \in DOMAIN route : created'[k] = created[k] + (IF k = at THEN 1 ELSE 0)
  BY SentFacts DEF MisreadAnswer
<1>4. /\ unnamed' \in [DOMAIN route -> Nat] /\ lost \in [DOMAIN route -> Nat]
      /\ \A k \in DOMAIN route : unnamed'[k] = unnamed[k] + (IF k = at THEN 1 ELSE 0)
  <2>1. lost \in [DOMAIN route -> Nat] /\ unnamed \in [DOMAIN route -> Nat]
    BY DEF TaskInv, TypeOK
  <2> QED
    BY <1>2, <1>3, <2>1
<1>5. TypeOK'
  BY <1>2, <1>3, <1>4 DEF TaskInv, TypeOK
<1>6. Left(0, 1)
  BY <1>2, <1>3, <1>4 DEF Left
<1>7. TasksAccounted' /\ Attempted'
  BY <1>1, <1>2, <1>3, <1>6, ErrorAccounts
<1> QED
  BY <1>2, <1>3, <1>5, <1>7 DEF TaskInv, Told, EndIsTrue

\* The caller is told of a new task, and of nothing that has ended.
LEMMA GivenFacts ==
    ASSUME TaskInv, NEW a \in AnswersTo(route[at], "waiting"), Given(a)
    PROVE  /\ UNCHANGED <<route, kind, image, at, attempt, lost>>
           /\ handle' = route[at] /\ handle' \in Names /\ pc' = "poll" /\ answer' \in Answers
           /\ "waiting" \in StatesOf(route[at]) /\ "waiting" \in States
           /\ reported' \in Statuses /\ reported' \notin Terminal
           /\ Rank(reported') <= Rank(Reading(route[at], "waiting"))
<1>1. /\ UNCHANGED <<route, kind, image, at, attempt, lost>>
      /\ handle' = route[at] /\ pc' = "poll" /\ answer' = a /\ a \in Answers
      /\ reported' = IF Adapters[route[at]].first = "mapped"
                     THEN Adapters[route[at]].read[a].status ELSE Adapters[route[at]].first
  BY DEF Given, request, adapter, AnswersTo
<1>2. route[at] \in Names
  BY RouteFacts DEF TaskInv
<1>3. "waiting" \in StatesOf(route[at]) /\ "waiting" \in States
  BY <1>2, AdapterFacts
<1>4. Adapters[route[at]].read[a].status = Reading(route[at], "waiting")
  BY <1>2, <1>3, StatusFollows DEF StatusOf, Misread
<1>5. reported' = Reading(route[at], "waiting")
  BY <1>1, <1>2, <1>4, AdapterFacts
<1>6. /\ reported' \in Statuses /\ reported' \notin Terminal
      /\ Rank(reported') <= Rank(Reading(route[at], "waiting"))
  BY <1>2, <1>3, <1>5, ReadingFacts DEF Ended
<1> QED
  BY <1>1, <1>2, <1>3, <1>6

\* The ID that is given names the task, or u is one.
NamedOr(u) == (named' /\ u = 0) \/ (~ named' /\ u = 1)

\* The attempt has left one task, held by the caller or without a name.
LEMMA GivenAccounts ==
    ASSUME TaskInv, pc \in {"submit", "create"},
           UNCHANGED <<route, at, attempt, lost>>, pc' = "poll", handle' = route[at],
           NEW u \in {0, 1}, NamedOr(u),
           \A k \in DOMAIN route :
               /\ created'[k] = created[k] + (IF k = at THEN 1 ELSE 0)
               /\ unnamed'[k] = unnamed[k] + (IF k = at THEN u ELSE 0)
    PROVE  TasksAccounted' /\ Attempted'
<1>1. /\ ~ named /\ at \in DOMAIN route
      /\ created[at] <= attempt /\ unnamed[at] = 0
  BY RouteFacts DEF TaskInv, Told, Attempted
<1>2. /\ attempt \in Nat /\ attempt <= MaxRetries /\ MaxRetries \in Nat /\ at \in Nat
      /\ \A k \in DOMAIN route :
            k \in Nat /\ created[k] \in Nat /\ lost[k] \in Nat /\ unnamed[k] \in Nat
  BY CountFacts, RouteFacts DEF TaskInv
<1>3. \A k : Held(k) = 0 /\ Held(k)' = IF k = at THEN 1 - u ELSE 0
  <2>1. CASE named' /\ u = 0
    BY <1>1, <2>1 DEF Held
  <2>2. CASE ~ named' /\ u = 1
    BY <1>1, <2>2 DEF Held
  <2> QED
    BY <2>1, <2>2 DEF NamedOr
<1>4. ASSUME NEW k \in DOMAIN route
      PROVE  /\ created'[k] <= MaxRetries + 1
             /\ unnamed'[k] + Held(k)' <= 1
             /\ created'[k] = lost'[k] + unnamed'[k] + Held(k)'
             /\ k > at' => created'[k] = 0
  <2>1. /\ created[k] <= MaxRetries + 1 /\ unnamed[k] <= 1
        /\ created[k] = lost[k] + unnamed[k] /\ (k > at => created[k] = 0)
    <3>1. /\ unnamed[k] + 0 <= 1 /\ created[k] = lost[k] + unnamed[k] + 0
          /\ created[k] <= MaxRetries + 1 /\ (k > at => created[k] = 0)
      BY <1>3 DEF TaskInv, TasksAccounted
    <3> QED
      BY <1>2, <3>1
  <2>2. CASE k = at
    <3>1. /\ created'[k] = created[k] + 1 /\ unnamed'[k] = unnamed[k] + u
          /\ Held(k)' = 1 - u /\ lost'[k] = lost[k] /\ ~ (k > at')
      BY <1>2, <1>3, <2>2
    <3> QED
      BY <1>1, <1>2, <2>1, <2>2, <3>1
  <2>3. CASE k # at
    <3>1. /\ created'[k] = created[k] /\ lost'[k] = lost[k] /\ unnamed'[k] = unnamed[k]
          /\ Held(k)' = 0
      BY <1>2, <1>3, <2>3
    <3> QED
      BY <1>2, <2>1, <2>3, <3>1
  <2> QED
    BY <2>2, <2>3
<1> QED
  BY <1>4 DEF TasksAccounted, Attempted

LEMMA SubmittedKeeps ==
    ASSUME TaskInv, Submitted \/ SubmittedUnnamed
    PROVE  TaskInv' /\ reported = None
<1>1. /\ pc \in {"submit", "create"} /\ at \in DOMAIN route
      /\ handle = None /\ ~ named /\ task = None /\ reported = None
      /\ created' \in [DOMAIN route -> Nat]
      /\ \A k \in DOMAIN route : created'[k] = created[k] + (IF k = at THEN 1 ELSE 0)
  BY SentFacts DEF Submitted, SubmittedUnnamed
<1>2. PICK a \in AnswersTo(route[at], "waiting") : Given(a)
  BY DEF Submitted, SubmittedUnnamed
<1>3. /\ UNCHANGED <<route, kind, image, at, attempt, lost>>
      /\ handle' = route[at] /\ handle' \in Names /\ pc' = "poll" /\ answer' \in Answers
      /\ "waiting" \in StatesOf(route[at]) /\ "waiting" \in States
      /\ reported' \in Statuses /\ reported' \notin Terminal
      /\ Rank(reported') <= Rank(Reading(route[at], "waiting"))
  BY <1>2, GivenFacts
<1>4. /\ unnamed' \in [DOMAIN route -> Nat] /\ lost \in [DOMAIN route -> Nat]
      /\ named' \in BOOLEAN /\ task' \in {"waiting", None} /\ (named' => task' = "waiting")
      /\ \E u \in {0, 1} : NamedOr(u) /\
             \A k \in DOMAIN route : unnamed'[k] = unnamed[k] + (IF k = at THEN u ELSE 0)
  <2>1. /\ lost \in [DOMAIN route -> Nat] /\ unnamed \in [DOMAIN route -> Nat]
        /\ \A k \in DOMAIN route : unnamed[k] \in Nat
    BY DEF TaskInv, TypeOK
  <2>2. CASE Submitted
    <3>1. named' = TRUE /\ task' = "waiting" /\ unnamed' = unnamed
      BY <2>2 DEF Submitted
    <3>2. NamedOr(0)
      BY <3>1 DEF NamedOr
    <3>3. \A k \in DOMAIN route : unnamed'[k] = unnamed[k] + (IF k = at THEN 0 ELSE 0)
      BY <2>1, <3>1
    <3> QED
      BY <2>1, <3>1, <3>2, <3>3
  <2>3. CASE SubmittedUnnamed
    <3>1. named' = FALSE /\ task' = None /\ unnamed' = [unnamed EXCEPT ![at] = unnamed[at] + 1]
      BY <2>3 DEF SubmittedUnnamed
    <3>2. /\ unnamed' \in [DOMAIN route -> Nat]
          /\ \A k \in DOMAIN route : unnamed'[k] = unnamed[k] + (IF k = at THEN 1 ELSE 0)
      BY <1>1, <2>1, <3>1
    <3>3. NamedOr(1)
      BY <3>1 DEF NamedOr
    <3> QED
      BY <2>1, <3>1, <3>2, <3>3
  <2> QED
    BY <2>2, <2>3
<1>5. TypeOK'
  BY <1>1, <1>3, <1>4 DEF TaskInv, TypeOK
<1>6. Told'
  BY <1>3, <1>4 DEF Told
<1>7. TasksAccounted' /\ Attempted'
  <2>1. PICK u \in {0, 1} :
            /\ NamedOr(u)
            /\ \A k \in DOMAIN route : unnamed'[k] = unnamed[k] + (IF k = at THEN u ELSE 0)
    BY <1>4
  <2> QED
    BY <1>1, <1>3, <2>1, GivenAccounts
<1> QED
  BY <1>1, <1>3, <1>5, <1>6, <1>7 DEF TaskInv, EndIsTrue

\* What a success may stand for.
MayBeSuccess(name, state, a) ==
    \/ state = "done"
    \/ name = "claudeBatch" /\ a.word = "ended"
    \/ name = "gemini" /\ a.error = "blank"

\* The caller is told how the task stands.
LEMMA GetKeeps ==
    ASSUME TaskInv, Get
    PROVE  TaskInv' /\ Rank(reported) <= Rank(reported') /\ reported \notin Terminal
<1>1. /\ UNCHANGED <<route, kind, image, at, attempt, created, lost, unnamed>>
      /\ UNCHANGED <<handle, named, task>>
      /\ pc = "poll" /\ pc' = IF reported' \in Terminal THEN "ended" ELSE "poll"
      /\ reported' = Adapters[handle].read[answer'].status
      /\ named /\ answer' \in AnswersTo(handle, task) /\ answer' \in Answers
  BY DEF Get, request, counts, Readable, AnswersTo
<1>2. /\ handle \in Names /\ task \in StatesOf(handle) /\ task \in States
      /\ reported \notin Terminal /\ Rank(reported) <= Rank(Reading(handle, task))
  BY <1>1, AdapterFacts DEF TaskInv, Told
<1>3. reported' = StatusOf(handle, task, answer')
  BY <1>1, <1>2, StatusFollows
<1>4. /\ reported' \in Statuses
      /\ reported' \in Terminal <=> task \in Ended
      /\ Rank(reported') = Rank(Reading(handle, task)) /\ Rank(reported') \in Nat
  <2>1. CASE Misread(handle, task, answer')
    <3>1. reported' = "succeeded" /\ task \in Ended
      BY <1>3, <2>1 DEF StatusOf, Misread, Ended
    <3>2. Rank(reported') = 3
      BY <3>1 DEF Rank, None
    <3> QED
      BY <1>2, <3>1, <3>2, ReadingFacts DEF Statuses, Terminal
  <2>2. CASE ~ Misread(handle, task, answer')
    BY <1>2, <1>3, <2>2, ReadingFacts DEF StatusOf
  <2> QED
    BY <2>1, <2>2
<1>5. task # "forgotten" =>
         /\ reported' = "succeeded" => MayBeSuccess(handle, task, answer')
         /\ reported' = "failed" => task = "failed" \/ (handle = "gemini" /\ task = "cancelled")
         /\ reported' = "cancelled" => task = "cancelled"
  <2> SUFFICES ASSUME task # "forgotten"
               PROVE  /\ reported' = "succeeded" => MayBeSuccess(handle, task, answer')
                      /\ reported' = "failed" =>
                             task = "failed" \/ (handle = "gemini" /\ task = "cancelled")
                      /\ reported' = "cancelled" => task = "cancelled"
    OBVIOUS
  <2>1. CASE Misread(handle, task, answer')
    BY <1>3, <2>1 DEF StatusOf, Misread, MayBeSuccess
  <2>2. CASE ~ Misread(handle, task, answer')
    <3>1. reported' = Reading(handle, task)
      BY <1>3, <2>2 DEF StatusOf
    <3>2. /\ reported' = "succeeded" => task = "done" \/ handle = "claudeBatch"
          /\ reported' = "failed" => task = "failed" \/ (handle = "gemini" /\ task = "cancelled")
          /\ reported' = "cancelled" => task = "cancelled"
      BY <1>2, <3>1, ReadingFacts
    <3>3. ASSUME reported' = "succeeded", handle = "claudeBatch" PROVE answer'.word = "ended"
      <4>1. task \in {"done", "failed", "cancelled"}
        BY <1>4, <3>3 DEF Ended, Terminal
      <4> QED
        BY <1>1, <3>3, <4>1, OneWordForTheEnd
    <3> QED
      BY <3>2, <3>3 DEF MayBeSuccess
  <2> QED
    BY <2>1, <2>2
<1>6. TypeOK'
  BY <1>1, <1>2, <1>4 DEF TaskInv, TypeOK
<1>7. Told'
  <2>1. Rank(reported') <= Rank(Reading(handle, task))
    BY <1>4
  <2> QED
    BY <1>1, <1>2, <1>4, <2>1 DEF Told
<1>8. TasksAccounted' /\ Attempted'
  BY <1>1 DEF TaskInv, TasksAccounted, Held, Attempted
<1>9. EndIsTrue'
  BY <1>1, <1>4, <1>5 DEF EndIsTrue, Terminal, MayBeSuccess
<1>10. Rank(reported) <= Rank(reported')
  BY <1>2, <1>4
<1> QED
  BY <1>2, <1>6, <1>7, <1>8, <1>9, <1>10 DEF TaskInv

LEMMA GetFailsKeeps == ASSUME TaskInv, GetFails PROVE TaskInv'
<1>1. /\ UNCHANGED <<route, kind, image, at, attempt, pc, created, lost, unnamed>>
      /\ UNCHANGED <<handle, named, task, reported>> /\ answer' = NoAnswer /\ pc = "poll"
  BY DEF GetFails, request, counts
<1>2. TypeOK'
  BY <1>1 DEF TaskInv, TypeOK
<1>3. Told' /\ EndIsTrue'
  BY <1>1 DEF TaskInv, Told, EndIsTrue
<1>4. TasksAccounted' /\ Attempted'
  BY <1>1 DEF TaskInv, TasksAccounted, Held, Attempted
<1> QED
  BY <1>2, <1>3, <1>4 DEF TaskInv

\* The vendor's task moves on, or ends, and what was reported of it stays true.
LEMMA TaskMovesKeeps ==
    ASSUME TaskInv, named, task' \in StatesOf(handle),
           \/ task = "waiting" /\ task' \in {"working", "failed", "cancelled"}
           \/ task = "working" /\ task' \in {"done", "failed", "cancelled"}
           \/ task \in Ended /\ task' = "forgotten",
           UNCHANGED <<route, kind, image, at, attempt, pc, created, lost, unnamed>>,
           UNCHANGED <<handle, named, answer, reported>>
    PROVE  TaskInv'
<1>1. /\ pc \in {"poll", "ended"} /\ handle \in Names /\ task \in States /\ task' \in States
      /\ reported \in Statuses
  <2>1. pc \in {"poll", "ended"}
    BY DEF TaskInv, TypeOK, Told
  <2> QED
    BY <2>1, AdapterFacts DEF TaskInv, Told
<1>2. TypeOK'
  BY <1>1 DEF TaskInv, TypeOK
<1>3. Rank(Reading(handle, task)) <= Rank(Reading(handle, task'))
  <2>1. CASE task = "waiting"
    BY <1>1, <2>1, ReadingFacts
  <2>2. CASE task = "working"
    <3>1. Rank(Reading(handle, task)) = 2 /\ Rank(Reading(handle, task')) = 3
      BY <1>1, <2>2, ReadingFacts DEF Ended
    <3> QED
      BY <3>1
  <2>3. CASE task \in Ended
    <3>1. Rank(Reading(handle, task)) = 3 /\ Rank(Reading(handle, task')) = 3
      BY <1>1, <2>3, ReadingFacts DEF Ended
    <3> QED
      BY <3>1
  <2> QED
    BY <2>1, <2>2, <2>3
<1>4. Told'
  <2>1. pc = "poll" => Rank(reported) <= Rank(Reading(handle, task'))
    <3>1. Rank(reported) \in Nat
      BY <1>1 DEF Rank, Statuses, None
    <3>2. /\ Rank(Reading(handle, task)) \in Nat
          /\ Rank(Reading(handle, task')) \in Nat
      BY <1>1, ReadingFacts
    <3> QED
      BY <1>3, <3>1, <3>2 DEF TaskInv, Told
  <2>2. pc = "ended" => task' \in Ended
    BY DEF TaskInv, Told, Ended
  <2> QED
    BY <1>1, <2>1, <2>2 DEF TaskInv, Told
<1>5. TasksAccounted' /\ Attempted'
  BY DEF TaskInv, TasksAccounted, Held, Attempted
<1>6. EndIsTrue'
  <2>1. pc = "ended" => task' = "forgotten"
    BY DEF TaskInv, Told, Ended
  <2> QED
    BY <2>1 DEF EndIsTrue
<1> QED
  BY <1>2, <1>4, <1>5, <1>6 DEF TaskInv

LEMMA ProgressKeeps == ASSUME TaskInv, Progress PROVE TaskInv'
<1>1. \/ task = "waiting" /\ task' \in {"working", "failed", "cancelled"}
      \/ task = "working" /\ task' \in {"done", "failed", "cancelled"}
      \/ task \in Ended /\ task' = "forgotten"
  BY DEF Progress, Ended
<1> QED
  BY <1>1, TaskMovesKeeps DEF Progress, request, counts

LEMMA CancelKeeps == ASSUME TaskInv, Cancel PROVE TaskInv'
<1>1. handle \in Names
  BY DEF Cancel, TaskInv, Told
<1>2. "cancelled" \in StatesOf(handle)
  BY <1>1, AdapterFacts DEF Cancel
<1> QED
  BY <1>2, TaskMovesKeeps DEF Cancel, request, counts

LEMMA TaskInvAlways == Spec => []TaskInv
<1>1. TaskInv /\ [Next]_vars => TaskInv'
  <2> SUFFICES ASSUME TaskInv, [Next]_vars PROVE TaskInv'
    OBVIOUS
  <2>1. CASE UNCHANGED vars
    BY <2>1 DEF vars, request, counts, told, TaskInv, TypeOK, Told, TasksAccounted, Held,
                Attempted, EndIsTrue
  <2> QED
    BY <2>1, RefuseKeeps, UploadKeeps, LoseAnswerKeeps, MisreadAnswerKeeps, SubmittedKeeps,
       GetKeeps, GetFailsKeeps, ProgressKeeps, CancelKeeps DEF Next
<1> QED
  BY <1>1, InitTaskInv, PTL DEF Spec

\* For every route and any number of retries a submission leaves at most one
\* task for each attempt at a provider, asks no provider again that has
\* answered, and gives the caller at most one of its tasks to poll, at the
\* provider that named it (operation.go:37-42, middleware/operation.go:50-58).
THEOREM TasksAreAccounted == Spec => []TasksAccounted
<1>1. TaskInv => TasksAccounted
  BY DEF TaskInv
<1> QED
  BY <1>1, TaskInvAlways, PTL

\* Each adapter's end of a task is how the task has ended, but for the two
\* answers that are read as a success however it did (operation.go:20-29).
THEOREM EndsAreTrue == Spec => []EndIsTrue
<1>1. TaskInv => EndIsTrue
  BY DEF TaskInv
<1> QED
  BY <1>1, TaskInvAlways, PTL

\* The status a caller sees never goes back, and not out of a terminal one
\* (operation.go:20-29).
THEOREM StatusMovesForward == Spec => ReportedMovesForward
<1>1. ASSUME TaskInv, [Next]_vars
      PROVE  [/\ Rank(reported) <= Rank(reported')
              /\ reported \in Terminal => reported' = reported]_vars
  <2>1. CASE Refuse \/ Upload \/ LoseAnswer \/ MisreadAnswer \/ GetFails \/ Progress \/ Cancel
    <3>1. reported' = reported
      BY <2>1 DEF Refuse, Upload, LoseAnswer, MisreadAnswer, GetFails, Progress, Cancel, told
    <3>2. Rank(reported) \in Nat
      BY <1>1 DEF TaskInv, TypeOK, Rank, Statuses
    <3> QED
      BY <3>1, <3>2
  <2>2. CASE Submitted \/ SubmittedUnnamed
    <3>1. reported = None /\ TaskInv'
      BY <2>2, <1>1, SubmittedKeeps
    <3>2. Rank(None) = 0 /\ Rank(reported') \in Nat /\ None \notin Terminal
      BY <3>1 DEF TaskInv, TypeOK, Rank, Statuses, Terminal, None
    <3> QED
      BY <3>1, <3>2
  <2>3. CASE Get
    BY <1>1, <2>3, GetKeeps
  <2> QED
    BY <1>1, <2>1, <2>2, <2>3 DEF Next
<1> QED
  BY <1>1, TaskInvAlways, PTL DEF Spec, ReportedMovesForward

-----------------------------------------------------------------------------
(* The tools cache *)

Waits(c) == caller[c] = "wait"
Fetching(c) == caller[c] \in {"ask", "wait", "store"}
IsPage(k) == pipe[k] # Changed
NoneAfter(k) == \A j \in DOMAIN pipe : j > k => IsPage(j)
PageType == [kind : {"page"}, to : Callers, version : Int, next : {NoCursor} \cup Cursors]

CacheTypes ==
    /\ version \in Int
    /\ requests \subseteq Callers
    /\ pipe \in Seq({Changed} \cup PageType)
    /\ caller \in [Callers -> {"idle", "ask", "wait", "store"}]
    /\ fetch \in [Callers -> [page : Nat, seen : SUBSET Cursors, all : SUBSET Int]]
    /\ overtaken \in [Callers -> BOOLEAN]

\* A caller that waits has one request with the server or one page in the pipe,
\* and nobody else has any.
OneAnswer ==
    /\ \A c \in requests : Waits(c) /\ Awaited(c) = {}
    /\ \A k \in DOMAIN pipe : IsPage(k) => Waits(pipe[k].to)
    /\ \A j, k \in DOMAIN pipe : IsPage(j) /\ IsPage(k) /\ pipe[j].to = pipe[k].to => j = k

\* A page is of the current version unless a change is announced behind it.
PagesAreCurrent ==
    \A k \in DOMAIN pipe : IsPage(k) /\ NoneAfter(k) => pipe[k].version = version

\* So is a fetch that no change has overtaken, once there is none to come.
FetchesAreCurrent ==
    \A c \in Callers :
        /\ caller[c] = "ask" /\ fetch[c].page = 0 => fetch[c].all = {}
        /\ Fetching(c) /\ ~ overtaken[c] /\ NoneAfter(0) => fetch[c].all \subseteq {version}

PipeInv == OneAnswer /\ PagesAreCurrent
CacheInv == CacheTypes /\ PipeInv /\ FetchesAreCurrent /\ StaleOnlyIfOvertaken

\* A page is not an announcement.
LEMMA PagesDiffer ==
    /\ \A c, v, n : Page(c, v, n) # Changed
    /\ \A c, v, n : /\ Page(c, v, n).to = c
                    /\ Page(c, v, n).version = v
                    /\ Page(c, v, n).next = n
    /\ \A m \in PageType : m # Changed /\ m.to \in Callers /\ m.version \in Int
          /\ m.next \in {NoCursor} \cup Cursors
BY DEF Page, Changed, PageType

LEMMA PipeFacts ==
    ASSUME CacheTypes
    PROVE  /\ Len(pipe) \in Nat /\ DOMAIN pipe = 1..Len(pipe)
           /\ \A k \in DOMAIN pipe : IsPage(k) => pipe[k] \in PageType
           /\ Contains(pipe, Changed) <=> ~ NoneAfter(0)
<1>1. Len(pipe) \in Nat /\ DOMAIN pipe = 1..Len(pipe)
  BY DEF CacheTypes
<1>2. \A k \in DOMAIN pipe : pipe[k] \in {Changed} \cup PageType
  BY DEF CacheTypes
<1>3. Contains(pipe, Changed) <=> ~ NoneAfter(0)
  BY <1>1 DEF Contains, NoneAfter, IsPage
<1> QED
  BY <1>1, <1>2, <1>3 DEF IsPage

\* Nothing in the pipe.
LEMMA InitCacheInv == CacheInit => CacheInv
<1> SUFFICES ASSUME CacheInit PROVE CacheInv
  OBVIOUS
<1>1. CacheTypes
  BY DEF CacheInit, CacheTypes, NoFetch
<1>2. DOMAIN pipe = {}
  BY DEF CacheInit
<1>3. PipeInv
  BY <1>2 DEF CacheInit, PipeInv, OneAnswer, PagesAreCurrent
<1>4. FetchesAreCurrent /\ StaleOnlyIfOvertaken
  BY DEF CacheInit, FetchesAreCurrent, Fetching, StaleOnlyIfOvertaken, Fresh
<1> QED
  BY <1>1, <1>3, <1>4 DEF CacheInv

\* A step that leaves the pipe alone keeps what it holds, and what is known of
\* the fetches, if the callers that wait do.
LEMMA CallerKeepsPipe ==
    ASSUME CacheInv, UNCHANGED <<pipe, version>>, NEW c \in Callers,
           requests' \subseteq requests \cup {c},
           c \in requests' => Waits(c)' /\ Awaited(c) = {},
           ~ Waits(c) \/ Waits(c)',
           \A d \in Callers \ {c} : caller'[d] = caller[d]
    PROVE  PipeInv'
<1>1. \A d \in Callers : Waits(d) => Waits(d)'
  BY DEF Waits
<1>2. \A k \in DOMAIN pipe : IsPage(k) => pipe[k].to \in Callers
  BY PipeFacts, PagesDiffer DEF CacheInv
<1>3. \A d : Awaited(d)' = Awaited(d)
  BY DEF Awaited
<1>4. requests \subseteq Callers
  BY DEF CacheInv, CacheTypes
<1> QED
  BY <1>1, <1>2, <1>3, <1>4 DEF CacheInv, PipeInv, OneAnswer, PagesAreCurrent, IsPage, NoneAfter

\* A caller that does not wait has nothing in the pipe.
LEMMA NothingAwaited ==
    ASSUME CacheInv, NEW c \in Callers, ~ Waits(c) PROVE Awaited(c) = {} /\ c \notin requests
BY DEF CacheInv, PipeInv, OneAnswer, Awaited, IsPage

LEMMA MissKeeps == ASSUME CacheInv, NEW c \in Callers, Miss(c) PROVE CacheInv'
<1>1. CacheTypes'
  BY DEF CacheInv, CacheTypes, Miss, NoFetch
<1>2. PipeInv'
  <2>1. /\ UNCHANGED <<pipe, version, requests>> /\ ~ Waits(c)
        /\ \A d \in Callers \ {c} : caller'[d] = caller[d]
    BY DEF CacheInv, CacheTypes, Miss, Waits
  <2>2. c \notin requests
    BY <2>1, NothingAwaited
  <2> QED
    BY <2>1, <2>2, CallerKeepsPipe
<1>3. FetchesAreCurrent'
  <2>1. fetch'[c].all = {} /\ \A d \in Callers \ {c}
            : UNCHANGED <<caller[d], fetch[d], overtaken[d]>>
    BY DEF CacheInv, CacheTypes, Miss, NoFetch
  <2>2. NoneAfter(0)' <=> NoneAfter(0)
    BY DEF NoneAfter, IsPage, Miss
  <2> QED
    BY <2>1, <2>2 DEF CacheInv, FetchesAreCurrent, Fetching, Miss
<1>4. StaleOnlyIfOvertaken'
  BY DEF CacheInv, StaleOnlyIfOvertaken, Fresh, Contains, Miss
<1> QED
  BY <1>1, <1>2, <1>3, <1>4 DEF CacheInv

LEMMA AskKeeps == ASSUME CacheInv, NEW c \in Callers, Ask(c) PROVE CacheInv'
<1>1. CacheTypes'
  BY DEF CacheInv, CacheTypes, Ask
<1>2. PipeInv'
  <2>1. /\ UNCHANGED <<pipe, version>> /\ ~ Waits(c) /\ Waits(c)' /\ requests' = requests \cup {c}
        /\ \A d \in Callers \ {c} : caller'[d] = caller[d]
    BY DEF CacheInv, CacheTypes, Ask, Waits
  <2>2. Awaited(c) = {}
    BY <2>1, NothingAwaited
  <2> QED
    BY <2>1, <2>2, CallerKeepsPipe
<1>3. FetchesAreCurrent'
  <2>1. /\ caller[c] = "ask" /\ caller'[c] = "wait" /\ UNCHANGED <<fetch, overtaken, version>>
        /\ \A d \in Callers \ {c} : caller'[d] = caller[d]
    BY DEF CacheInv, CacheTypes, Ask
  <2>2. NoneAfter(0)' <=> NoneAfter(0)
    BY DEF NoneAfter, IsPage, Ask
  <2> QED
    BY <2>1, <2>2 DEF CacheInv, FetchesAreCurrent, Fetching
<1>4. StaleOnlyIfOvertaken'
  BY DEF CacheInv, StaleOnlyIfOvertaken, Fresh, Contains, Ask
<1> QED
  BY <1>1, <1>2, <1>3, <1>4 DEF CacheInv

LEMMA StoreKeeps == ASSUME CacheInv, NEW c \in Callers, Store(c) PROVE CacheInv'
<1>0. /\ UNCHANGED <<pipe, version, requests, fetch, overtaken>>
      /\ caller[c] = "store" /\ caller'[c] = "idle"
      /\ \A d \in Callers \ {c} : caller'[d] = caller[d]
  BY DEF CacheInv, CacheTypes, Store
<1>1. CacheTypes'
  BY DEF CacheInv, CacheTypes, Store
<1>2. PipeInv'
  <2>1. ~ Waits(c) /\ c \notin requests
    BY <1>0, NothingAwaited DEF Waits
  <2> QED
    BY <1>0, <2>1, CallerKeepsPipe
<1>3. (NoneAfter(0)' <=> NoneAfter(0)) /\ (Contains(pipe, Changed)' <=> ~ NoneAfter(0))
  BY <1>0, PipeFacts DEF NoneAfter, IsPage, CacheInv
<1>4. FetchesAreCurrent'
  BY <1>0, <1>3 DEF CacheInv, FetchesAreCurrent, Fetching
<1>5. ASSUME ~ suspect', cache' # {}, NoneAfter(0) PROVE cache' = {version'}
  <2>1. cache' = fetch[c].all /\ ~ overtaken[c]
    BY <1>5 DEF Store
  <2>2. fetch[c].all \subseteq {version}
    BY <1>0, <1>5, <2>1 DEF CacheInv, FetchesAreCurrent, Fetching
  <2> QED
    BY <1>0, <1>5, <2>1, <2>2
<1>6. StaleOnlyIfOvertaken'
  BY <1>3, <1>5 DEF StaleOnlyIfOvertaken, Fresh
<1> QED
  BY <1>1, <1>2, <1>4, <1>6 DEF CacheInv

\* What is left of a sequence without its i-th element.
LEMMA RemoveAtFacts ==
    ASSUME NEW S, NEW s \in Seq(S), NEW i \in 1..Len(s)
    PROVE  /\ RemoveAt(s, i) \in Seq(S)
           /\ Len(RemoveAt(s, i)) = Len(s) - 1
           /\ \A k \in 1..(Len(s) - 1) : RemoveAt(s, i)[k] = s[IF k < i THEN k ELSE k + 1]
<1> DEFINE front == SubSeq(s, 1, i - 1)
           rest == SubSeq(s, i + 1, Len(s))
<1>1. Len(s) \in Nat /\ i \in Nat
  OBVIOUS
<1>2. /\ front \in Seq(S) /\ Len(front) = i - 1
      /\ \A k \in 1..(i - 1) : front[k] = s[k]
  BY SubSeqProperties
<1>3. /\ rest \in Seq(S) /\ Len(rest) = Len(s) - i
      /\ \A k \in 1..(Len(s) - i) : rest[k] = s[i + k]
  BY SubSeqProperties
<1> HIDE DEF front, rest
<1>4. /\ front \o rest \in Seq(S) /\ Len(front \o rest) = Len(s) - 1
      /\ \A k \in 1..(Len(s) - 1) :
            (front \o rest)[k] = IF k <= i - 1 THEN front[k] ELSE rest[k - (i - 1)]
  <2>1. Len(front) + Len(rest) = Len(s) - 1
    BY <1>1, <1>2, <1>3
  <2>2. /\ front \o rest \in Seq(S) /\ Len(front \o rest) = Len(front) + Len(rest)
        /\ \A k \in 1..(Len(front) + Len(rest)) :
              (front \o rest)[k] = IF k <= Len(front) THEN front[k] ELSE rest[k - Len(front)]
    BY <1>2, <1>3, ConcatProperties
  <2> QED
    BY <1>2, <2>1, <2>2
<1>5. \A k \in 1..(Len(s) - 1) : (front \o rest)[k] = s[IF k < i THEN k ELSE k + 1]
  BY <1>1, <1>2, <1>3, <1>4
<1> QED
  BY <1>4, <1>5 DEF RemoveAt, front, rest

\* The pipe loses its i-th message: a page, or an announcement at its head.
LEMMA RemovalKeeps ==
    ASSUME CacheInv, NEW i \in DOMAIN pipe, pipe' \in Seq({Changed} \cup PageType),
           Len(pipe') = Len(pipe) - 1,
           \A k \in 1..(Len(pipe) - 1) : pipe'[k] = pipe[IF k < i THEN k ELSE k + 1],
           IsPage(i) \/ i = 1,
           version' = version, requests' \subseteq requests,
           \A d \in requests' : Waits(d)',
           \A d \in Callers : Waits(d) =>
               Waits(d)' \/ (IsPage(i) /\ pipe[i].to = d) \/ Awaited(d) = {}
    PROVE  PipeInv' /\ (IsPage(i) /\ NoneAfter(0)' => NoneAfter(0))
<1> DEFINE from(k) == IF k < i THEN k ELSE k + 1
<1>1. /\ Len(pipe) \in Nat /\ DOMAIN pipe = 1..Len(pipe)
      /\ \A k \in DOMAIN pipe : IsPage(k) => pipe[k].to \in Callers
  BY PipeFacts, PagesDiffer DEF CacheInv
<1>2. DOMAIN pipe' = 1..(Len(pipe) - 1)
  BY <1>1
<1>3. \A k \in DOMAIN pipe' : /\ from(k) \in DOMAIN pipe \ {i} /\ pipe'[k] = pipe[from(k)]
                              /\ k \in Nat /\ from(k) \in Nat
  BY <1>1, <1>2
<1>4. \A j, k \in DOMAIN pipe' : (from(j) = from(k) => j = k) /\ (j > k <=> from(j) > from(k))
  BY <1>1, <1>2
<1>5. \A j \in DOMAIN pipe : j # i => \E k \in DOMAIN pipe' : from(k) = j
  <2> SUFFICES ASSUME NEW j \in DOMAIN pipe, j # i PROVE \E k \in DOMAIN pipe' : from(k) = j
    OBVIOUS
  <2>1. CASE j < i
    BY <1>1, <1>2, <2>1
  <2>2. CASE j > i
    <3>1. j - 1 \in DOMAIN pipe' /\ from(j - 1) = j
      BY <1>1, <1>2, <2>2
    <3> QED
      BY <3>1
  <2> QED
    BY <1>1, <2>1, <2>2
<1> HIDE DEF from
<1>6. \A k \in DOMAIN pipe' : IsPage(k)' <=> IsPage(from(k))
  BY <1>3 DEF IsPage
<1>7. ASSUME NEW k \in DOMAIN pipe', IsPage(k)' PROVE caller'[pipe[from(k)].to] = "wait"
  <2>1. /\ IsPage(from(k)) /\ from(k) \in DOMAIN pipe \ {i} /\ pipe[from(k)].to \in Callers
    BY <1>1, <1>3, <1>6, <1>7
  <2>2. Waits(pipe[from(k)].to) /\ from(k) \in Awaited(pipe[from(k)].to)
    BY <2>1 DEF CacheInv, PipeInv, OneAnswer, Awaited, IsPage
  <2>3. ~ (IsPage(i) /\ pipe[i].to = pipe[from(k)].to)
    BY <2>1 DEF CacheInv, PipeInv, OneAnswer
  <2> QED
    BY <2>1, <2>2, <2>3 DEF Waits
<1>8. ASSUME NEW c \in requests' PROVE Awaited(c)' = {}
  <2>1. Awaited(c) = {}
    BY <1>8 DEF CacheInv, PipeInv, OneAnswer
  <2> QED
    BY <1>3, <1>6, <2>1 DEF Awaited, IsPage
<1>9. OneAnswer'
  <2>1. \A k \in DOMAIN pipe' : IsPage(k)' => caller'[pipe'[k].to] = "wait"
    BY <1>3, <1>7
  <2>2. \A j, k \in DOMAIN pipe' : IsPage(j)' /\ IsPage(k)' /\ pipe'[j].to = pipe'[k].to => j = k
    BY <1>3, <1>4, <1>6 DEF CacheInv, PipeInv, OneAnswer
  <2> QED
    BY <1>8, <2>1, <2>2 DEF OneAnswer, Waits
<1>10. ASSUME NEW k \in DOMAIN pipe', NoneAfter(k)' PROVE NoneAfter(from(k))
  <2> SUFFICES ASSUME NEW j \in DOMAIN pipe, j > from(k) PROVE IsPage(j)
    BY DEF NoneAfter
  <2>1. CASE j = i
    <3>1. i # 1
      BY <1>3, <2>1, <1>1
    <3> QED
      BY <2>1, <3>1
  <2>2. CASE j # i
    <3>1. PICK m \in DOMAIN pipe' : from(m) = j
      BY <1>5, <2>2
    <3>2. m > k
      BY <1>4, <3>1
    <3> QED
      BY <1>6, <1>10, <3>1, <3>2 DEF NoneAfter
  <2> QED
    BY <2>1, <2>2
<1>11. PagesAreCurrent'
  BY <1>3, <1>6, <1>10 DEF CacheInv, PipeInv, PagesAreCurrent
<1>12. ASSUME IsPage(i), NoneAfter(0)' PROVE NoneAfter(0)
  <2> SUFFICES ASSUME NEW j \in DOMAIN pipe, j # i PROVE IsPage(j)
    BY <1>12 DEF NoneAfter
  <2>1. PICK m \in DOMAIN pipe' : from(m) = j
    BY <1>5
  <2>2. m > 0
    BY <1>1, <1>2
  <2> QED
    BY <1>6, <1>12, <2>1, <2>2 DEF NoneAfter
<1> QED
  BY <1>9, <1>11, <1>12 DEF PipeInv

\* The cache stays as true as it is when no announcement gets lost.
LEMMA CacheStays ==
    ASSUME CacheInv, CacheTypes', UNCHANGED <<version, cache, dirty, suspect>>,
           NoneAfter(0)' => NoneAfter(0)
    PROVE  StaleOnlyIfOvertaken'
<1>1. Contains(pipe, Changed) <=> ~ NoneAfter(0)
  BY PipeFacts DEF CacheInv
<1>2. (Contains(pipe, Changed) <=> ~ NoneAfter(0))'
  <2>1. DOMAIN pipe' = 1..Len(pipe') /\ Len(pipe') \in Nat
    BY DEF CacheTypes
  <2> QED
    BY <2>1 DEF Contains, NoneAfter, IsPage
<1> QED
  BY <1>1, <1>2 DEF CacheInv, StaleOnlyIfOvertaken, Fresh

LEMMA FailKeeps == ASSUME CacheInv, NEW c \in Callers, Fail(c) PROVE CacheInv'
<1>0. /\ UNCHANGED <<version, cache, dirty, fetch, overtaken, suspect>> /\ caller'[c] = "idle"
      /\ requests' = requests \ {c} /\ \A d \in Callers \ {c} : caller'[d] = caller[d]
      /\ caller' \in [Callers -> {"idle", "ask", "wait", "store"}]
  BY DEF CacheInv, CacheTypes, Fail
<1>1. pipe' \in Seq({Changed} \cup PageType) /\ PipeInv' /\ (NoneAfter(0)' => NoneAfter(0))
  <2>0. /\ pipe \in Seq({Changed} \cup PageType)
        /\ DOMAIN pipe = 1..Len(pipe) /\ Len(pipe) \in Nat
    BY DEF CacheInv, CacheTypes
  <2>1. CASE Awaited(c) = {}
    <3>1. pipe' = pipe
      BY <2>1 DEF Fail
    <3>2. \A k \in DOMAIN pipe : IsPage(k) => pipe[k].to \in Callers \ {c}
      BY <2>1, PipeFacts, PagesDiffer DEF Awaited, IsPage, CacheInv
    <3>3. \A d : Awaited(d)' = Awaited(d)
      BY <3>1 DEF Awaited
    <3>4. requests \subseteq Callers
      BY DEF CacheInv, CacheTypes
    <3> QED
      BY <1>0, <2>0, <3>1, <3>2, <3>3, <3>4
      DEF CacheInv, PipeInv, OneAnswer, PagesAreCurrent, IsPage, NoneAfter, Waits
  <2>2. CASE Awaited(c) # {}
    <3>1. PICK i \in Awaited(c) : pipe' = RemoveAt(pipe, i)
      BY <2>2 DEF Fail
    <3>2. i \in DOMAIN pipe /\ IsPage(i) /\ pipe[i].to = c
      BY <3>1 DEF Awaited, IsPage
    <3>3. /\ pipe' \in Seq({Changed} \cup PageType)
          /\ Len(pipe') = Len(pipe) - 1
          /\ \A k \in 1..(Len(pipe) - 1) : pipe'[k] = pipe[IF k < i THEN k ELSE k + 1]
      <4>1. i \in 1..Len(pipe)
        BY <2>0, <3>2
      <4> QED
        BY <2>0, <3>1, <4>1, RemoveAtFacts
    <3>4. /\ requests' \subseteq requests /\ \A d \in requests' : Waits(d)'
          /\ \A d \in Callers : Waits(d) => Waits(d)' \/ (IsPage(i) /\ pipe[i].to = d)
      BY <1>0, <3>2 DEF CacheInv, CacheTypes, PipeInv, OneAnswer, Waits
    <3> QED
      BY <1>0, <3>2, <3>3, <3>4, RemovalKeeps
  <2> QED
    BY <2>1, <2>2
<1>2. CacheTypes'
  BY <1>0, <1>1 DEF CacheInv, CacheTypes
<1>3. FetchesAreCurrent'
  BY <1>0, <1>1 DEF CacheInv, FetchesAreCurrent, Fetching
<1>4. StaleOnlyIfOvertaken'
  BY <1>0, <1>1, <1>2, CacheStays
<1> QED
  BY <1>1, <1>2, <1>3, <1>4 DEF CacheInv

\* The message at the head is taken off the pipe.
LEMMA TailFacts ==
    ASSUME CacheInv, pipe # <<>>, pipe' = Tail(pipe)
    PROVE  /\ 1 \in DOMAIN pipe /\ Head(pipe) = pipe[1]
           /\ pipe' \in Seq({Changed} \cup PageType)
           /\ Len(pipe') = Len(pipe) - 1
           /\ \A k \in 1..(Len(pipe) - 1) : pipe'[k] = pipe[IF k < 1 THEN k ELSE k + 1]
<1>1. pipe \in Seq({Changed} \cup PageType)
  BY DEF CacheInv, CacheTypes
<1> HIDE DEF CacheInv
<1>2. Len(pipe) \in Nat /\ Len(pipe) > 0 /\ DOMAIN pipe = 1..Len(pipe) /\ Head(pipe) = pipe[1]
  BY <1>1
<1>3. pipe' \in Seq({Changed} \cup PageType) /\ Len(pipe') = Len(pipe) - 1
  BY <1>1, <1>2
<1>4. \A k \in 1..(Len(pipe) - 1) : pipe'[k] = pipe[k + 1]
  BY <1>1, <1>2
<1> QED
  BY <1>2, <1>3, <1>4

LEMMA ReceiveChangedKeeps == ASSUME CacheInv, ReceiveChanged PROVE CacheInv'
<1>0. /\ UNCHANGED <<version, requests, cache, caller, fetch, suspect>> /\ dirty' = TRUE
      /\ pipe # <<>> /\ pipe' = Tail(pipe) /\ Head(pipe) = Changed
      /\ \A d \in Callers : overtaken'[d] = (overtaken[d] \/ Begun(d))
      /\ overtaken' \in [Callers -> BOOLEAN]
  <2>1. \A d \in Callers : overtaken[d] \/ Begun(d) \in BOOLEAN
    BY DEF Begun
  <2> QED
    BY <2>1, Zenon DEF ReceiveChanged
<1>1. CacheTypes'
  BY <1>0, TailFacts DEF CacheInv, CacheTypes
<1>2. PipeInv'
  <2>1. /\ \A d \in requests' : Waits(d)'
        /\ \A d \in Callers : Waits(d) => Waits(d)'
    BY <1>0 DEF CacheInv, PipeInv, OneAnswer, Waits
  <2> QED
    BY <1>0, <2>1, TailFacts, RemovalKeeps
<1>3. FetchesAreCurrent'
  <2>1. \A d \in Callers : Fetching(d) /\ ~ overtaken'[d] => caller[d] = "ask" /\ fetch[d].page = 0
    BY <1>0 DEF Begun, Fetching
  <2> QED
    BY <1>0, <2>1 DEF CacheInv, FetchesAreCurrent, Fetching
<1>4. StaleOnlyIfOvertaken'
  BY <1>0 DEF StaleOnlyIfOvertaken, Fresh
<1> QED
  BY <1>1, <1>2, <1>3, <1>4 DEF CacheInv

LEMMA ReceivePageKeeps == ASSUME CacheInv, ReceivePage PROVE CacheInv'
<1> DEFINE m == pipe[1]
           f == fetch[m.to]
           after == [page |-> f.page + 1, seen |-> f.seen \cup ({m.next} \ {NoCursor}),
                     all |-> f.all \cup {m.version}]
<1>1. /\ pipe # <<>> /\ pipe' = Tail(pipe) /\ Head(pipe) # Changed
      /\ UNCHANGED <<version, requests, cache, dirty, overtaken, suspect>>
      /\ caller'
             = [caller EXCEPT ![Head(pipe).to] =
                    AfterPage(fetch[Head(pipe).to], Head(pipe).next)]
      /\ fetch' = [fetch EXCEPT ![Head(pipe).to] =
             [page |-> fetch[Head(pipe).to].page + 1,
              seen |-> fetch[Head(pipe).to].seen \cup ({Head(pipe).next} \ {NoCursor}),
              all |-> fetch[Head(pipe).to].all \cup {Head(pipe).version}]]
  BY DEF ReceivePage
<1>2. 1 \in DOMAIN pipe /\ Head(pipe) = m
  BY <1>1, TailFacts
<1>3. /\ IsPage(1) /\ m.to \in Callers /\ m.version \in Int
      /\ m.next \in {NoCursor} \cup Cursors
      /\ f \in [page : Nat, seen : SUBSET Cursors, all : SUBSET Int]
  <2>1. IsPage(1)
    BY <1>1, <1>2 DEF IsPage
  <2>2. m.to \in Callers /\ m.version \in Int /\ m.next \in {NoCursor} \cup Cursors
    BY <1>2, <2>1, PipeFacts, PagesDiffer DEF CacheInv
  <2> QED
    BY <2>1, <2>2 DEF CacheInv, CacheTypes
<1>4. AfterPage(f, m.next) \in {"idle", "ask", "store"}
  BY DEF AfterPage
<1>5. /\ after \in [page : Nat, seen : SUBSET Cursors, all : SUBSET Int]
      /\ after.page # 0 /\ after.all = f.all \cup {m.version}
  <2>1. f.page + 1 \in Nat /\ f.page + 1 # 0
    BY <1>3
  <2>2. f.seen \cup ({m.next} \ {NoCursor}) \in SUBSET Cursors
    BY <1>3
  <2>3. f.all \cup {m.version} \in SUBSET Int
    BY <1>3
  <2> QED
    BY <2>1, <2>2, <2>3
<1> HIDE DEF after
<1>6. /\ caller' = [caller EXCEPT ![m.to] = AfterPage(f, m.next)]
      /\ fetch' = [fetch EXCEPT ![m.to] = after]
  BY <1>1, <1>2 DEF after
<1> HIDE DEF m, f
<1>7. /\ caller' \in [Callers -> {"idle", "ask", "wait", "store"}]
      /\ fetch' \in [Callers -> [page : Nat, seen : SUBSET Cursors, all : SUBSET Int]]
      /\ caller'[m.to] \in {"idle", "ask", "store"} /\ fetch'[m.to] = after
      /\ \A d \in Callers \ {m.to} : caller'[d] = caller[d] /\ fetch'[d] = fetch[d]
  BY <1>3, <1>4, <1>5, <1>6 DEF CacheInv, CacheTypes
<1>8. CacheTypes'
  BY <1>1, <1>7, TailFacts DEF CacheInv, CacheTypes
<1>9. PipeInv' /\ (NoneAfter(0)' => NoneAfter(0))
  <2>1. m.to \notin requests
    <3>1. 1 \in Awaited(m.to)
      BY <1>2, <1>3 DEF Awaited, IsPage, m
    <3> QED
      BY <3>1 DEF CacheInv, PipeInv, OneAnswer
  <2>2. /\ \A d \in requests' : Waits(d)'
        /\ \A d \in Callers : Waits(d) => Waits(d)' \/ (IsPage(1) /\ pipe[1].to = d)
    BY <1>1, <1>3, <1>7, <2>1 DEF CacheInv, CacheTypes, PipeInv, OneAnswer, Waits, m
  <2> QED
    BY <1>1, <1>2, <1>3, <2>2, TailFacts, RemovalKeeps
<1>10. FetchesAreCurrent'
  <2> SUFFICES ASSUME NEW d \in Callers
               PROVE  /\ caller'[d] = "ask" /\ fetch'[d].page = 0 => fetch'[d].all = {}
                      /\ Fetching(d)' /\ ~ overtaken'[d] /\ NoneAfter(0)' =>
                             fetch'[d].all \subseteq {version'}
    BY DEF FetchesAreCurrent
  <2>1. CASE d # m.to
    BY <1>1, <1>7, <1>9, <2>1 DEF CacheInv, FetchesAreCurrent, Fetching
  <2>2. CASE d = m.to
    <3>1. fetch'[d].page # 0
      BY <1>5, <1>7, <2>2
    <3>2. ASSUME ~ overtaken'[d], NoneAfter(0)' PROVE fetch'[d].all \subseteq {version'}
      <4>1. NoneAfter(0) /\ NoneAfter(1) /\ Waits(m.to)
        <5>1. Waits(m.to)
          BY <1>2, <1>3 DEF CacheInv, PipeInv, OneAnswer, m
        <5>2. DOMAIN pipe = 1..Len(pipe) /\ Len(pipe) \in Nat
          BY PipeFacts DEF CacheInv
        <5> QED
          BY <1>9, <3>2, <5>1, <5>2 DEF NoneAfter
      <4>2. m.version = version
        BY <1>2, <1>3, <4>1 DEF CacheInv, PipeInv, PagesAreCurrent, m
      <4>3. f.all \subseteq {version}
        BY <1>1, <2>2, <3>2, <4>1 DEF CacheInv, FetchesAreCurrent, Fetching, Waits, f
      <4> QED
        BY <1>1, <1>5, <1>7, <2>2, <4>2, <4>3
    <3> QED
      BY <3>1, <3>2
  <2> QED
    BY <2>1, <2>2
<1>11. StaleOnlyIfOvertaken'
  BY <1>1, <1>8, <1>9, CacheStays
<1> QED
  BY <1>8, <1>9, <1>10, <1>11 DEF CacheInv

\* The server puts a message at the end of the pipe.
LEMMA AppendFacts ==
    ASSUME CacheInv, NEW m \in {Changed} \cup PageType, pipe' = Append(pipe, m)
    PROVE  /\ pipe' \in Seq({Changed} \cup PageType)
          
           /\ DOMAIN pipe = 1..Len(pipe) /\ DOMAIN pipe' = 1..(Len(pipe) + 1) /\ Len(pipe) \in Nat
           /\ pipe'[Len(pipe) + 1] = m /\ \A k \in DOMAIN pipe : pipe'[k] = pipe[k]
<1>1. pipe \in Seq({Changed} \cup PageType)
  BY DEF CacheInv, CacheTypes
<1> QED
  BY <1>1, AppendProperties

LEMMA ListChangesKeeps == ASSUME CacheInv, ListChanges PROVE CacheInv'
<1>0. /\ UNCHANGED <<requests, cache, dirty, caller, fetch, overtaken, suspect>>
      /\ version' = version + 1
  BY DEF ListChanges
<1>1. /\ pipe' \in Seq({Changed} \cup PageType)
      /\ DOMAIN pipe = 1..Len(pipe) /\ DOMAIN pipe' = 1..(Len(pipe) + 1) /\ Len(pipe) \in Nat
      /\ pipe'[Len(pipe) + 1] = Changed /\ \A k \in DOMAIN pipe : pipe'[k] = pipe[k]
  BY AppendFacts DEF ListChanges
<1>2. /\ \A k \in DOMAIN pipe' : IsPage(k)' => k \in DOMAIN pipe /\ IsPage(k) /\ ~ NoneAfter(k)'
      /\ ~ NoneAfter(0)'
  <2>1. Len(pipe) + 1 \in DOMAIN pipe' /\ pipe'[Len(pipe) + 1] = Changed
        /\ \A k \in DOMAIN pipe : Len(pipe) + 1 > k
    BY <1>1 DEF IsPage
  <2>2. \A k \in DOMAIN pipe' : k \in DOMAIN pipe \/ k = Len(pipe) + 1
    BY <1>1
  <2>3. \A k \in DOMAIN pipe : IsPage(k)' => IsPage(k)
    BY <1>1 DEF IsPage
  <2>4. Len(pipe) + 1 > 0
    BY <1>1
  <2> QED
    BY <1>1, <2>1, <2>2, <2>3, <2>4 DEF NoneAfter, IsPage
<1>3. CacheTypes'
  BY <1>0, <1>1 DEF CacheInv, CacheTypes
<1>4. PipeInv'
  <2>1. PagesAreCurrent'
    BY <1>2 DEF PagesAreCurrent
  <2>2. \A d : Awaited(d) = {} => Awaited(d)' = {}
    BY <1>1, <1>2 DEF Awaited, IsPage
  <2>3. OneAnswer'
    BY <1>0, <1>1, <1>2, <2>2 DEF CacheInv, PipeInv, OneAnswer, Waits
  <2> QED
    BY <2>1, <2>3 DEF PipeInv
<1>5. FetchesAreCurrent'
  BY <1>0, <1>2 DEF CacheInv, FetchesAreCurrent, Fetching
<1>6. StaleOnlyIfOvertaken'
  <2>1. Contains(pipe', Changed)
    BY <1>1, <1>2 DEF Contains, NoneAfter, IsPage
  <2> QED
    BY <2>1 DEF StaleOnlyIfOvertaken, Fresh
<1> QED
  BY <1>3, <1>4, <1>5, <1>6 DEF CacheInv

LEMMA AnswerKeeps == ASSUME CacheInv, NEW c \in Callers, Answer(c) PROVE CacheInv'
<1>0. /\ UNCHANGED <<version, cache, dirty, caller, fetch, overtaken, suspect>>
      /\ c \in requests /\ requests' = requests \ {c}
  BY DEF Answer
<1>1. PICK cursor \in {NoCursor} \cup Cursors
          : pipe' = Append(pipe, Page(c, version, cursor))
  BY DEF Answer
<1> DEFINE m == Page(c, version, cursor)
<1>2. m \in PageType /\ m # Changed /\ m.to = c /\ m.version = version
  <2>1. version \in Int
    BY DEF CacheInv, CacheTypes
  <2>2. m \in PageType
    BY <2>1 DEF Page, PageType
  <2> QED
    BY <2>2, PagesDiffer
<1> HIDE DEF m
<1>3. /\ pipe' \in Seq({Changed} \cup PageType)
      /\ DOMAIN pipe = 1..Len(pipe) /\ DOMAIN pipe' = 1..(Len(pipe) + 1) /\ Len(pipe) \in Nat
      /\ pipe'[Len(pipe) + 1] = m /\ \A k \in DOMAIN pipe : pipe'[k] = pipe[k]
  BY <1>1, <1>2, AppendFacts DEF m
<1>4. \A k \in DOMAIN pipe' : k \in DOMAIN pipe \/ k = Len(pipe) + 1
  BY <1>3
<1>5. /\ \A k \in DOMAIN pipe : (IsPage(k)' <=> IsPage(k)) /\ (NoneAfter(k)' => NoneAfter(k))
      /\ NoneAfter(0)' => NoneAfter(0)
  <2>1. DOMAIN pipe \subseteq DOMAIN pipe'
    BY <1>3
  <2> QED
    BY <1>3, <2>1 DEF IsPage, NoneAfter
<1>6. Waits(c) /\ Awaited(c) = {}
  BY <1>0 DEF CacheInv, PipeInv, OneAnswer
<1>7. CacheTypes'
  BY <1>0, <1>3 DEF CacheInv, CacheTypes
<1>8. OneAnswer'
  <2>1. \A d \in requests' : Waits(d)' /\ Awaited(d)' = {}
    <3>1. \A d \in requests' : d # c /\ Waits(d) /\ Awaited(d) = {}
      BY <1>0 DEF CacheInv, PipeInv, OneAnswer
    <3> QED
      BY <1>0, <1>2, <1>3, <1>4, <3>1 DEF Awaited, Waits
  <2>2. \A k \in DOMAIN pipe' : IsPage(k)' => caller'[pipe'[k].to] = "wait"
    BY <1>0, <1>2, <1>3, <1>4, <1>5, <1>6 DEF CacheInv, PipeInv, OneAnswer, Waits
  <2>3. \A j \in DOMAIN pipe : IsPage(j) => pipe[j].to # c
    BY <1>6 DEF Awaited, IsPage
  <2>4. \A j, k \in DOMAIN pipe' : IsPage(j)' /\ IsPage(k)' /\ pipe'[j].to = pipe'[k].to => j = k
    BY <1>2, <1>3, <1>4, <1>5, <2>3 DEF CacheInv, PipeInv, OneAnswer
  <2> QED
    BY <2>1, <2>2, <2>4 DEF OneAnswer, Waits
<1>9. PagesAreCurrent'
  BY <1>0, <1>2, <1>3, <1>4, <1>5 DEF CacheInv, PipeInv, PagesAreCurrent
<1>10. FetchesAreCurrent'
  BY <1>0, <1>5 DEF CacheInv, FetchesAreCurrent, Fetching
<1>11. StaleOnlyIfOvertaken'
  BY <1>0, <1>5, <1>7, CacheStays
<1> QED
  BY <1>7, <1>8, <1>9, <1>10, <1>11 DEF CacheInv, PipeInv

LEMMA CacheInvAlways == CacheSpec => []CacheInv
<1>1. CacheInv /\ [CacheNext]_cacheVars => CacheInv'
  <2> SUFFICES ASSUME CacheInv, [CacheNext]_cacheVars PROVE CacheInv'
    OBVIOUS
  <2>1. CASE UNCHANGED cacheVars
    <3>1. /\ CacheTypes' /\ OneAnswer' /\ PagesAreCurrent'
      BY <2>1 DEF cacheVars, CacheInv, PipeInv, CacheTypes, OneAnswer, PagesAreCurrent, Waits,
                  Awaited, IsPage, NoneAfter
    <3>2. FetchesAreCurrent' /\ StaleOnlyIfOvertaken'
      BY <2>1 DEF cacheVars, CacheInv, FetchesAreCurrent, Fetching, NoneAfter, IsPage,
                  StaleOnlyIfOvertaken, Fresh, Contains
    <3> QED
      BY <3>1, <3>2 DEF CacheInv, PipeInv
  <2> QED
    BY <2>1, MissKeeps, AskKeeps, FailKeeps, StoreKeeps, AnswerKeeps, ReceivePageKeeps,
       ReceiveChangedKeeps, ListChangesKeeps DEF CacheNext
<1> QED
  BY <1>1, InitCacheInv, PTL DEF CacheSpec

\* The cached list is the server's current one or marked, unless a change was
\* announced during the very fetch that filled the cache, for every number of
\* callers, pages and changes (client.go:58-67, 132-153).
THEOREM CacheIsFreshOrMarked == CacheSpec => []StaleOnlyIfOvertaken
<1>1. CacheInv => StaleOnlyIfOvertaken
  BY DEF CacheInv
<1> QED
  BY <1>1, CacheInvAlways, PTL
=============================================================================
