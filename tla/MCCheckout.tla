----------------------------- MODULE MCCheckout -----------------------------
(* Checkout on small sets.  Calls are told apart only by equality and        *)
(* none of them is named by a property, so permuting them changes nothing.    *)
EXTENDS Checkout, TLC

Symmetry == Permutations(Calls)
=============================================================================
