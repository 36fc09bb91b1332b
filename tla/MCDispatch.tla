----------------------------- MODULE MCDispatch -----------------------------
(* Dispatch on small sets.  Drivers and workers are told apart only by        *)
(* equality and no property names one of them, so they may be permuted.       *)
EXTENDS Dispatch, TLC

Symmetry == Permutations(Drivers) \cup Permutations(Workers)
=============================================================================
