------------------------- MODULE MCTransitionExport -------------------------
(* A small instance of TransitionExport: a sale costs one.                 *)
EXTENDS TransitionExport

MCSaleFee == [p \in Prices |-> 1]
=============================================================================
