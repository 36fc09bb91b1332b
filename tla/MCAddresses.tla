---------------------------- MODULE MCAddresses ----------------------------
(* Two requests over the four addresses that a customer creates in time.     *)
EXTENDS Addresses, TLC

Symmetry == Permutations(Workers)
=============================================================================
