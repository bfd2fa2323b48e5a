------------------------------ MODULE MCClient ------------------------------
(* Model checking Client and its circuits: two callers, a flaky primary     *)
(* "p1" and a reliable fallback "p2".                                       *)
EXTENDS ClientCircuits, TLC

CONSTANTS c1, c2

MCCallers == {c1, c2}
CallerSymmetry == Permutations(MCCallers)

MCChain == <<"p1", "p2">>

MCConfigured == {"p1", "p2"}
MCReliable == {"p2"}
LacksSome == [p1 |-> {"media", "task"}, p2 |-> {"task"}]

\* One representative of each class of answer.
MCAnswers == {NoError, parseError(400), parseError(401), parseError(503)}

\* One of each shape; "p3" is not configured.
AllMethods == {Stream, Media(""), Media("p3"), SubmitBatch("p2")}
=============================================================================
