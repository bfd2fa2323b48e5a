-------------------------- MODULE MCCircuitBreaker --------------------------
(* Model checking CircuitBreaker: one representative of every way an        *)
(* outcome is classified (success, 400, 401, 503, network, not a            *)
(* ProviderError).                                                          *)
EXTENDS CircuitBreaker

CONSTANTS c1, c2, c3

MCCallers == {c1, c2, c3}
MCOutcomes == {NoError, PlainError, networkError} \cup {parseError(s) : s \in {400, 401, 503}}
=============================================================================
