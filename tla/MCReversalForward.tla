------------------------- MODULE MCReversalForward -------------------------
(* ReversalForward on small instances. *)
EXTENDS ReversalForward
============================================================================
