----------------------------- MODULE MCPayments -----------------------------
(* Small instances of Payments, over one order or two of different totals.    *)
EXTENDS Payments, TLC

CONSTANTS o1, o2, a1, a2, x1, x2, w1, w2

OneOrder == {o1}
TwoOrders == {o1, o2}
TotalOfOne == o1 :> 1
TotalOfTwo == o1 :> 1 @@ o2 :> 2

Symmetry == Permutations({a1, a2}) \cup Permutations({x1, x2}) \cup Permutations({w1, w2})
=============================================================================
