----------------------------- MODULE MCGateway -----------------------------
(* One order, its customer, two drivers and one of the staff, on a socket    *)
(* that each may have in turn.  The kitchen joins rooms as the staff do.      *)
EXTENDS Gateway, TLC

CONSTANTS o1, u1, d1, d2, a1

OneOwner == o1 :> u1
Everyone == {u1, d1, d2, a1}
TwoDrivers == {d1, d2}

Symmetry == Permutations(TwoDrivers) \cup Permutations(Workers)
=============================================================================
