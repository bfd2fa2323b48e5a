---------------------------- MODULE MCToolsCache ----------------------------
(* Model checking ToolsCache with two callers.                              *)
EXTENDS ToolsCache

CONSTANTS c1, c2, k1, k2, k3

MCCallers == {c1, c2}
MCCursors == {k1, k2, k3}
=============================================================================
