----------------------------- MODULE MCMcpClient -----------------------------
(* Model checking McpClient with two callers; three calls over HTTP are the   *)
(* handshake and one call of each.                                            *)
EXTENDS McpClient

CONSTANTS c1, c2

MCCallers == {c1, c2}
=============================================================================
