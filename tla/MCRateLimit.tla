---------------------------- MODULE MCRateLimit ----------------------------
(* Model checking RateLimit with three callers.                             *)
EXTENDS RateLimit

CONSTANTS c1, c2, c3

MCCallers == {c1, c2, c3}
=============================================================================
