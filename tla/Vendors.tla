------------------------------ MODULE Vendors ------------------------------
(***************************************************************************)
(* providers/*_operation.go, jimeng.go, kling.go, batch.go and             *)
(* anthropic_batch.go: how each adapter submits a long-running task, and   *)
(* how it reads what the vendor says about one.                            *)
(*                                                                         *)
(* A vendor's answer, an HTTP 200, is the word it has for the state of the *)
(* task, "empty" for none, whether it names a result, and its error:       *)
(* absent, without a message, or with one.  Gemini says "done" or, without *)
(* the word, "undone".  Jimeng and Kling add a code, which is ok or not.   *)
(***************************************************************************)
EXTENDS Errors

\* OperationStatus.
Statuses == {"queued", "running", "succeeded", "failed", "cancelled"}
Terminal == {"succeeded", "failed", "cancelled"}

Words == {"empty", "queued", "pending", "in_queue", "submitted", "validating", "running",
          "in_progress", "processing", "processing_queue", "generating", "finalizing",
          "cancelling", "canceling", "succeeded", "completed", "success", "done", "succeed",
          "ended", "failed", "fail", "unknown", "not_found", "expired", "cancelled",
          "canceled", "undone"}

Answers == [ok : BOOLEAN, word : Words, result : BOOLEAN,
            error : {"absent", "blank", "message"}]

\* A switch over lower-cased words: the case that lists the word, or default.
Switch(cases, default) ==
    [w \in Words |-> IF \E s \in DOMAIN cases : w \in cases[s]
                     THEN CHOOSE s \in DOMAIN cases : w \in cases[s]
                     ELSE default]

mapOpenAIVideoStatus ==
    Switch([queued |-> {"queued"}, running |-> {"in_progress"},
            succeeded |-> {"completed"}, failed |-> {"failed"}], "running")

\* Mutant of mapDashScopeStatus: a task the vendor has forgotten is still running.
mapDashScopeStatusForgets ==
    Switch([queued |-> {"pending"}, running |-> {"running"}, succeeded |-> {"succeeded"},
            failed |-> {"failed"}, cancelled |-> {"canceled", "cancelled"}], "running")

mapDashScopeStatus ==
    Switch([queued |-> {"pending"}, running |-> {"running"}, succeeded |-> {"succeeded"},
            failed |-> {"failed", "unknown"}, cancelled |-> {"canceled", "cancelled"}],
           "running")

mapZhipuStatus ==
    Switch([queued |-> {"pending"}, running |-> {"processing", "processing_queue"},
            succeeded |-> {"success"}, failed |-> {"fail", "failed"}], "running")

mapDoubaoStatus ==
    Switch([queued |-> {"queued"}, running |-> {"running"}, succeeded |-> {"succeeded"},
            failed |-> {"failed"}, cancelled |-> {"cancelled", "canceled"}], "running")

mapJimengStatus ==
    Switch([queued |-> {"empty", "in_queue"}, running |-> {"generating"}, succeeded |-> {"done"},
            failed |-> {"not_found", "expired"}], "running")

mapKlingStatus ==
    Switch([queued |-> {"submitted"}, running |-> {"processing"},
            succeeded |-> {"succeed", "succeeded"}, failed |-> {"failed"}], "running")

\* Mutant of mapOpenAIBatchStatus: a word for work under way is missing.
mapOpenAIBatchStatusShort ==
    Switch([running |-> {"validating", "in_progress", "cancelling"},
            succeeded |-> {"completed"}, failed |-> {"failed", "expired"},
            cancelled |-> {"cancelled", "canceled"}], "queued")

mapOpenAIBatchStatus ==
    Switch([running |-> {"validating", "in_progress", "finalizing", "cancelling"},
            succeeded |-> {"completed"}, failed |-> {"failed", "expired"},
            cancelled |-> {"cancelled", "canceled"}], "queued")

mapAnthropicBatchStatus ==
    Switch([running |-> {"in_progress", "canceling"}, succeeded |-> {"ended"}], "queued")

\* asOperation of the adapters: a status and whether there is a Result.  Most
\* map the word and take the URLs as they come.
Mapped(status) ==
    [a \in Answers |-> [status |-> status[a.word], result |-> a.result]]

\* The content of a finished OpenAI video has a fixed address.
openAIVideo ==
    [a \in Answers |-> LET s == mapOpenAIVideoStatus[a.word]
                       IN [status |-> s, result |-> s = "succeeded"]]

\* Mutant of geminiOperation: an error is looked for while the task runs only.
geminiOperationBlind ==
    [a \in Answers |->
        IF a.word = "done" THEN [status |-> "succeeded", result |-> a.result]
        ELSE [status |-> IF a.error = "message" THEN "failed" ELSE "running", result |-> FALSE]]

\* Gemini has no word for failure, only an error.
geminiOperation ==
    [a \in Answers |->
        IF a.error = "message" THEN [status |-> "failed", result |-> FALSE]
        ELSE IF a.word # "done" THEN [status |-> "running", result |-> FALSE]
        ELSE [status |-> "succeeded", result |-> a.result]]

\* The results of an Anthropic batch have a fixed address too.
anthropicBatch ==
    [a \in Answers |-> [status |-> mapAnthropicBatchStatus[a.word], result |-> TRUE]]

\* A code that is not ok makes it failed; call makes an error of it before.
jimengEnvelope ==
    [a \in Answers |-> [status |-> IF a.ok THEN mapJimengStatus[a.word] ELSE "failed",
                        result |-> a.ok /\ a.result]]
klingEnvelope ==
    [a \in Answers |-> [status |-> IF a.ok THEN mapKlingStatus[a.word] ELSE "failed",
                        result |-> a.result]]

AnyImage == {"none", "url", "bytes", "empty"}

\* What distinguishes an adapter.  images[kind]: the reference images it takes
\* for a kind, the others being refused before anything is sent; first: the
\* status of a new task, "mapped" when the answer's word decides; checksID: an
\* answer without a task id is an error; cancels: CancelOperation reaches the
\* vendor; refuses: the error it makes of an answer whose code is not ok.
Adapter(images, first, checksID, cancels, refuses, read) ==
    [images |-> images, first |-> first, checksID |-> checksID, cancels |-> cancels,
     refuses |-> refuses, read |-> read]

openai == Adapter([video |-> {"none", "bytes"}], "mapped", FALSE, FALSE, {}, openAIVideo)
dashscope == Adapter([image |-> AnyImage, video |-> {"none", "url"}], "mapped", FALSE, FALSE,
                     {}, Mapped(mapDashScopeStatus))
zhipu == Adapter([video |-> AnyImage], "mapped", FALSE, FALSE, {}, Mapped(mapZhipuStatus))
doubao == Adapter([video |-> {"none", "url"}], "queued", TRUE, FALSE, {},
                  Mapped(mapDoubaoStatus))
gemini == Adapter([video |-> {"none", "url", "bytes"}], "running", TRUE, TRUE, {},
                  geminiOperation)
jimeng == Adapter([image |-> {"none", "url"}, video |-> {"none", "url"}], "queued", TRUE,
                  FALSE, {PlainError}, jimengEnvelope)
kling == Adapter([image |-> AnyImage, video |-> {"none", "url"}], "mapped", FALSE, FALSE,
                 {ProviderError(502, FALSE, TRUE)}, klingEnvelope)
openaiBatch == Adapter([batch |-> {"none"}], "mapped", FALSE, TRUE, {},
                       Mapped(mapOpenAIBatchStatus))
claudeBatch == Adapter([batch |-> {"none"}], "mapped", FALSE, TRUE, {}, anthropicBatch)

\* The adapters by name; the names are those of the tasks' Provider.
Adapters ==
    [openai |-> openai, dashscope |-> dashscope, zhipu |-> zhipu, doubao |-> doubao,
     gemini |-> gemini, jimeng |-> jimeng, kling |-> kling,
     openaiBatch |-> openaiBatch, claudeBatch |-> claudeBatch]

\* The first check of every SubmitOperation that fails, NoError if none does.
\* An unsupported kind may fall back as such, a bad reference as any error.
Check(adapter, kind, image) ==
    IF kind \notin DOMAIN adapter.images THEN Unsupported
    ELSE IF image \notin adapter.images[kind] THEN PlainError
    ELSE NoError

\* The answers of which the adapter makes an error.
Refused(adapter, answer) == ~ answer.ok /\ adapter.refuses # {}
=============================================================================
