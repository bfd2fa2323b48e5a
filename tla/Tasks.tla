------------------------------- MODULE Tasks -------------------------------
(***************************************************************************)
(* The life of one long-running task: Submit over a route of providers,    *)
(* with the retries and the fallback that repeat it (client media.go,      *)
(* operation.go, batch.go, middleware/operation.go, batch.go), then the    *)
(* caller's polling of the handle it got.  Vendors has the adapters.       *)
(*                                                                         *)
(* The vendors are the environment: a request may create a task and its    *)
(* answer be lost, be cut short or come without a task id, which some      *)
(* adapters take for a success.  A task waits, works, and ends; a vendor   *)
(* may forget one that has ended.                                          *)
(***************************************************************************)
EXTENDS Vendors, Sequences, FiniteSets

CONSTANTS Routes,      \* routes a submission may take: sequences of adapters
          Kinds,       \* kinds of task the caller may ask for
          MaxRetries,  \* of the retry layer
          HttpErrors   \* errors of an answer that is not a success

Names == DOMAIN Adapters

ASSUME TasksConfig ==
    /\ MaxRetries \in Nat
    /\ \A r \in Routes : r \in Seq(Names) /\ r # <<>>

VARIABLES route, kind, image,   \* what is submitted, where to
          at,         \* the provider of the route now tried
          attempt,    \* of the retry layer
          pc,         \* "submit", "create", "poll", "ended", "failed"
          created,    \* tasks at the vendors, by the place in the route
          lost,       \* those of them whose answer did not arrive
          unnamed,    \* those whose answer did not name them
          handle,     \* the adapter the caller polls, None
          named,      \* the ID the caller has names a task
          task,       \* the vendor's state of that task
          answer,     \* what the caller was last told of it, NoAnswer for an error
          reported    \* the status it was given last

request == <<route, kind, image>>
counts == <<created, lost, unnamed>>
told == <<handle, named, task, answer, reported>>
vars == <<request, at, attempt, pc, counts, told>>

None == "none"
NoAnswer == [word |-> None]
States == {"waiting", "working", "done", "failed", "cancelled", "forgotten"}
adapter == Adapters[route[at]]

TypeOK ==
    /\ route \in Routes /\ kind \in Kinds /\ image \in AnyImage
    /\ at \in 1..Len(route)
    /\ attempt \in 0..MaxRetries
    /\ pc \in {"submit", "create", "poll", "ended", "failed"}
    /\ {created, lost, unnamed} \subseteq [DOMAIN route -> Nat]
    /\ handle \in Names \cup {None}
    /\ named \in BOOLEAN
    /\ task \in States \cup {None}
    /\ answer \in Answers \cup {NoAnswer}
    /\ reported \in Statuses \cup {None}

Init ==
    /\ route \in Routes /\ kind \in Kinds /\ image \in AnyImage
    /\ (kind = "batch") = (route[1] \in {"openaiBatch", "claudeBatch"})
    /\ kind = "batch" => image = "none"
    /\ at = 1 /\ attempt = 0
    /\ pc = "submit"
    /\ created = [k \in DOMAIN route |-> 0] /\ lost = created /\ unnamed = created
    /\ handle = None /\ named = FALSE /\ task = None /\ answer = NoAnswer /\ reported = None

\* What the vendors call the states of a task; a batch that was cancelled has
\* ended like any other for Anthropic.
Says(name, state) ==
    CASE name = "openai" ->
             [waiting |-> {"queued"}, working |-> {"in_progress"}, done |-> {"completed"},
              failed |-> {"failed"}][state]
      [] name = "dashscope" ->
             [waiting |-> {"pending"}, working |-> {"running"}, done |-> {"succeeded"},
              failed |-> {"failed"}, cancelled |-> {"canceled"}, forgotten |-> {"unknown"}][state]
      [] name = "zhipu" ->
             [waiting |-> {"pending"}, working |-> {"processing", "processing_queue"},
              done |-> {"success"}, failed |-> {"fail"}][state]
      [] name = "doubao" ->
             [waiting |-> {"queued"}, working |-> {"running"}, done |-> {"succeeded"},
              failed |-> {"failed"}, cancelled |-> {"cancelled"}][state]
      [] name = "gemini" ->
             IF state \in {"waiting", "working"} THEN {"undone"} ELSE {"done"}
      [] name = "jimeng" ->
             [waiting |-> {"empty", "in_queue"}, working |-> {"generating"}, done |-> {"done"},
              failed |-> {"empty"}, forgotten |-> {"not_found", "expired"}][state]
      [] name = "kling" ->
             [waiting |-> {"submitted"}, working |-> {"processing"},
              done |-> {"succeed"}, failed |-> {"failed"}][state]
      [] name = "openaiBatch" ->
             [waiting |-> {"validating"}, working |-> {"in_progress", "finalizing", "cancelling"},
              done |-> {"completed"}, failed |-> {"failed", "expired"},
              cancelled |-> {"cancelled"}][state]
      [] name = "claudeBatch" ->
             IF state \in {"waiting", "working"} THEN {"in_progress", "canceling"} ELSE {"ended"}

\* The states a vendor has.
StatesOf(name) ==
    CASE name \in {"openai", "zhipu", "kling"} -> {"waiting", "working", "done", "failed"}
      [] name = "dashscope" -> States
      [] name = "jimeng" -> {"waiting", "working", "done", "failed", "forgotten"}
      [] OTHER -> States \ {"forgotten"}

\* A vendor's answer about a task: a result only if it is done, an error only
\* if it ended otherwise, and always then from Gemini, which has no word for
\* it.  Jimeng has none either, and answers with another code.
AnswersTo(name, state) ==
    {a \in Answers :
        /\ a.ok = ~ (name = "jimeng" /\ state = "failed")
        /\ a.word \in Says(name, state)
        /\ a.result => state = "done"
        /\ state \in {"waiting", "working", "done"} => a.error = "absent"
        /\ name = "gemini" /\ state \in {"failed", "cancelled"} => a.error # "absent"}
-----------------------------------------------------------------------------
(* Submit *)

\* Mutant of AfterError: every error is retried.
AfterErrorAlways(e) ==
    IF attempt < MaxRetries
    THEN attempt' = attempt + 1 /\ pc' = "submit" /\ UNCHANGED at
    ELSE /\ attempt' = 0
         /\ IF IsFallback(e) /\ at < Len(route) THEN at' = at + 1 /\ pc' = "submit"
            ELSE pc' = "failed" /\ UNCHANGED at

\* The retry layer repeats the whole of SubmitOperation, then dispatch tries
\* the next provider of the route unless the error forbids it.
AfterError(e) ==
    IF IsRetryable(e) /\ attempt < MaxRetries
    THEN attempt' = attempt + 1 /\ pc' = "submit" /\ UNCHANGED at
    ELSE /\ attempt' = 0
         /\ IF IsFallback(e) /\ at < Len(route) THEN at' = at + 1 /\ pc' = "submit"
            ELSE pc' = "failed" /\ UNCHANGED at

\* The adapter refuses the request, or the vendor does, or the request never
\* arrives: there is no task.
Refuse ==
    /\ pc \in {"submit", "create"}
    /\ LET check == Check(adapter, kind, image)
       IN IF pc = "submit" /\ check # NoError THEN AfterError(check)
          ELSE \E e \in HttpErrors \cup adapter.refuses \cup {networkError} : AfterError(e)
    /\ UNCHANGED <<request, counts, told>>

\* The input file of an OpenAI batch is uploaded before the batch is created;
\* a retry begins with the upload again.
Upload ==
    /\ pc = "submit"
    /\ route[at] = "openaiBatch"
    /\ Check(adapter, kind, image) = NoError
    /\ pc' = "create"
    /\ UNCHANGED <<request, at, attempt, counts, told>>

Sent ==
    /\ pc = IF route[at] = "openaiBatch" THEN "create" ELSE "submit"
    /\ Check(adapter, kind, image) = NoError
    /\ created' = [created EXCEPT ![at] = @ + 1]

\* The vendor has created a task, and its answer never arrives, or an error on
\* the way arrives in its place.
LoseAnswer ==
    /\ Sent
    /\ lost' = [lost EXCEPT ![at] = @ + 1]
    /\ \E e \in HttpErrors \cup {networkError} : AfterError(e)
    /\ UNCHANGED <<request, unnamed, told>>

\* It arrives as a success that is cut short, does not decode or, where the
\* adapter looks for it, has no id.
MisreadAnswer ==
    /\ Sent
    /\ unnamed' = [unnamed EXCEPT ![at] = @ + 1]
    /\ AfterError(PlainError)
    /\ UNCHANGED <<request, lost, told>>

\* The caller is given an ID to poll and the status of a new task.
Given(a) ==
    /\ handle' = route[at]
    /\ answer' = a
    /\ reported' = IF adapter.first = "mapped" THEN adapter.read[a].status ELSE adapter.first
    /\ pc' = "poll"
    /\ UNCHANGED <<request, at, attempt, lost>>

Submitted ==
    /\ Sent
    /\ \E a \in AnswersTo(route[at], "waiting") : Given(a)
    /\ named' = TRUE /\ task' = "waiting"
    /\ UNCHANGED unnamed

\* An answer without an id is a success to the other adapters: the ID they
\* return is empty, or has an empty part for the task.
SubmittedUnnamed ==
    /\ Sent
    /\ ~ adapter.checksID
    /\ \E a \in AnswersTo(route[at], "waiting") : Given(a)
    /\ named' = FALSE /\ task' = None
    /\ unnamed' = [unnamed EXCEPT ![at] = @ + 1]
-----------------------------------------------------------------------------
(* Polling *)

\* What GetOperation or GetBatch may get to read, at the provider the handle
\* names: nothing for an ID that names no task, which it refuses.
Readable ==
    IF named THEN {a \in AnswersTo(handle, task) : ~ Refused(Adapters[handle], a)} ELSE {}

\* The caller stops at a terminal status.
Get ==
    /\ pc = "poll"
    /\ answer' \in Readable
    /\ reported' = Adapters[handle].read[answer'].status
    /\ pc' = IF reported' \in Terminal THEN "ended" ELSE "poll"
    /\ UNCHANGED <<request, at, attempt, counts, handle, named, task>>

\* The caller gets an error, for an answer that is refused, an ID that names no
\* task, or any failure on the way; it keeps the status it knew.
GetFails ==
    /\ pc = "poll"
    /\ answer' = NoAnswer
    /\ UNCHANGED <<request, at, attempt, pc, counts, handle, named, task, reported>>

\* The vendor gets on with the task, or cancels it on its own account.
Progress ==
    /\ named
    /\ \/ task = "waiting" /\ task' \in {"working", "failed"}
       \/ task = "working" /\ task' \in {"done", "failed"}
       \/ task \in {"waiting", "working"} /\ task' = "cancelled" /\ ~ Adapters[handle].cancels
       \/ task \in {"done", "failed", "cancelled"} /\ task' = "forgotten"
    /\ task' \in StatesOf(handle)
    /\ UNCHANGED <<request, at, attempt, pc, counts, handle, named, answer, reported>>

\* CancelOperation or CancelBatch, where the vendor has it and still can.
Cancel ==
    /\ pc = "poll" /\ named
    /\ Adapters[handle].cancels
    /\ task \in {"waiting", "working"}
    /\ task' = "cancelled"
    /\ UNCHANGED <<request, at, attempt, pc, counts, handle, named, answer, reported>>

Next ==
    \/ Refuse \/ Upload \/ LoseAnswer \/ MisreadAnswer \/ Submitted \/ SubmittedUnnamed
    \/ Get \/ GetFails
    \/ Progress \/ Cancel

Spec == Init /\ [][Next]_vars

\* The caller keeps polling, not every poll of an answer that can be read fails
\* on the way, and the vendor does not work on a task for ever.
FairSpec == Spec /\ WF_vars(Get) /\ WF_vars(Progress /\ task \in {"waiting", "working"})
-----------------------------------------------------------------------------
\* Nothing undoes a task that was created, so how many there are matters.  A
\* submission leaves at each provider of its route one for each attempt at
\* most.  A provider that answered is not asked again, even if the answer
\* cannot be read and whether or not the route goes on; it is asked again only
\* after an answer that was lost.  Of all these tasks the caller can poll one at
\* most, at the provider that gave it the ID (operation.go:37-42,
\* middleware/operation.go:50-58).
Held(k) == IF k = at /\ named THEN 1 ELSE 0
TasksAccounted ==
    /\ \A k \in DOMAIN route :
          /\ created[k] <= MaxRetries + 1
          /\ unnamed[k] + Held(k) <= 1
          /\ created[k] = lost[k] + unnamed[k] + Held(k)
          /\ k > at => created[k] = 0
    /\ handle # None => handle = route[at]

\* The status a caller sees never goes back: not from running to queued, and
\* not out of a terminal one, though each adapter maps the words of its vendor
\* on its own (operation.go:20-29).
Rank(status) == CASE status = None -> 0 [] status = "queued" -> 1 [] status = "running" -> 2
                  [] OTHER -> 3
ReportedMovesForward ==
    [][/\ Rank(reported) <= Rank(reported')
       /\ reported \in Terminal => reported' = reported]_vars

\* What was reported as the end of a task is how it ended, and a task that its
\* vendor has forgotten counts as failed.  Two answers are read as a success
\* however the task ended: the one word that Anthropic has for the end of a
\* batch, and an error of Gemini without a message (gemini_operation.go:152).
EndIsTrue ==
    pc = "ended" /\ task # "forgotten" =>
        CASE reported = "succeeded" ->
                 \/ task = "done"
                 \/ handle = "claudeBatch" /\ answer.word = "ended"
                 \/ handle = "gemini" /\ answer.error = "blank"
          [] reported = "failed" -> task = "failed" \/ (handle = "gemini" /\ task = "cancelled")
          [] reported = "cancelled" -> task = "cancelled"

\* A caller that polls sees the end of its task, as long as its polls do not
\* all end in an error: there is no word for an ended task that an adapter
\* reads as one still under way.  They all do for an ID that names no task, and
\* for a failed task of Jimeng (jimeng.go:184-190), until it is forgotten.
PollingEnds ==
    pc = "poll" ~> \/ pc = "ended"
                   \/ ~ named
                   \/ handle = "jimeng" /\ task = "failed"

-----------------------------------------------------------------------------
\* "result is available" (providers/operation.go:26): false of a task that its
\* vendor reports as done without naming a result, as Gemini does for a video
\* it filtered out.
SucceededHasResult ==
    pc = "ended" /\ reported = "succeeded" => Adapters[handle].read[answer].result

\* "The returned ID is provider-specific. Store it and poll with GetOperation"
\* (operation.go:12-13): an ID that is returned can be polled.  Four adapters
\* and both kinds of batch return an empty one as a success.
HandleNamesATask == handle # None => named

\* "provider reported failure" (providers/operation.go:27): a failed task that
\* is polled is reported as failed.  Of Jimeng every poll is an error; Gemini's
\* error without a message and Anthropic's end of a batch are successes.
FailureIsReported == pc = "poll" /\ task = "failed" ~> reported = "failed"
=============================================================================
