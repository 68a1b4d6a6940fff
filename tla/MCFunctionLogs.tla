--------------------------- MODULE MCFunctionLogs ---------------------------
(* Two pods, each with two lines, and channels that hold one. *)
EXTENDS FunctionLogs

CONSTANTS p1, p2, g
=============================================================================
