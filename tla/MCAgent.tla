------------------------------ MODULE MCAgent ------------------------------
(* Model checking Agent: conversations without and with system messages,    *)
(* old tool turns and stray text turns.                                     *)
EXTENDS Agent

Greeting == <<User>>
Instructed == <<System, User>>
Resumed ==
    <<User, AssistantMessage(-1, 1), ToolResultMessage(-1, 1),
      AssistantMessage(0, 2), ToolResultMessage(0, 1), ToolResultMessage(0, 2), User>>
MixedIn == <<User, AssistantMessage(0, 0), System, User>>

MCHistories == {Greeting, Instructed, Resumed, MixedIn}

Config(iterations, messages, sequential, stream) ==
    [maxIterations |-> iterations, maxHistoryMessages |-> messages,
     disableParallel |-> sequential, streaming |-> stream]
\* Parallel tools with a tight limit, streams with sequential tools, and a
\* stream with parallel tools and no limit.
MCConfigs == {Config(3, 4, FALSE, FALSE), Config(2, 3, TRUE, TRUE), Config(2, 0, FALSE, TRUE)}

ChatChunks == {"text", "done", "error"}
=============================================================================
