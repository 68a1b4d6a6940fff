------------------------- MODULE MCFunctionOperator -------------------------
(* Two FaSTPods of one function, and a deploy request. *)
EXTENDS FunctionOperator

CONSTANT r
=============================================================================
