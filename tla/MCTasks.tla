------------------------------ MODULE MCTasks ------------------------------
(* Model checking Tasks: each adapter alone, and routes that fall back from *)
(* one of each sort (checks the id or not, refuses in a 200 or not).        *)
EXTENDS Tasks

MCRoutes ==
    {<<n>> : n \in Names}
        \cup {<<"gemini", "openai">>, <<"kling", "doubao">>, <<"jimeng", "dashscope">>,
              <<"openai", "zhipu">>}
MCKinds == {"image", "video", "batch"}
MCHttpErrors == {parseError(400), parseError(503)}
=============================================================================
