------------------------------ MODULE MCRetry ------------------------------
(* Model checking Retry: success, a final answer, a retryable answer and a  *)
(* network error; no hint, a short hint, and one beyond the cap.            *)
EXTENDS Retry

MCOutcomes == {NoError, parseError(400), parseError(429), networkError}
MCHints == {0, 3, 600}
=============================================================================
