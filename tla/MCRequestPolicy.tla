--------------------------- MODULE MCRequestPolicy ---------------------------
(* Model checking RequestPolicy: two calls on one request, two providers.     *)
(* Texts that just fit, with markers that are replaced by a longer one.       *)
EXTENDS RequestPolicy

MCChain == <<"first", "second">>

MCSizeOf == [random |-> 1, other |-> 1, stable |-> 2, short |-> 1, tall |-> 3]

Texts == [header : BOOLEAN, cch : {Nil, "random", "other"}, rest : {"short", "tall"}]

MCRequests ==
    [store : {Nil, "kept"},
     key : {Nil, <<"own">>}, retention : {Nil, "day"},
     text : Texts]

Configured(maxText, key, scope, include, retain, override, text, strict) ==
    [maxText |-> maxText, store |-> "forbidden", cache |-> TRUE, key |-> key, scope |-> scope,
     client |-> "", retention |-> retain, includeProvider |-> include, override |-> override, breaker |-> TRUE,
     replacement |-> "stable", includeText |-> text, salt |-> "salt", strict |-> strict]

MCPolicies ==
    {Configured(2, <<>>, "tenant", TRUE, "hour", FALSE, FALSE, TRUE),
     Configured(4, <<>>, "", TRUE, Nil, TRUE, TRUE, FALSE),
     Configured(0, <<>>, "", FALSE, "hour", FALSE, FALSE, FALSE),
     Configured(5, <<"shared">>, "tenant", FALSE, "hour", TRUE, FALSE, TRUE)}
=============================================================================
