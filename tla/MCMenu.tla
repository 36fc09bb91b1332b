------------------------------- MODULE MCMenu -------------------------------
(* A plain dish and one with a half portion and an extra, each at two prices; *)
(* coupons that are flat, percentages with and without a cap, one above 100,  *)
(* one switched off.                                                          *)
EXTENDS Menu, TLC

Dal == [price |-> 9, half |-> Null, extra |-> Null, active |-> TRUE]
Thali == [price |-> 11, half |-> 7, extra |-> 2, active |-> TRUE]

MCRecipes == {Dal, Thali}

MCCarts ==
    {<<[dish |-> "d1", portion |-> "FULL", extra |-> FALSE, quantity |-> 1]>>,
     <<[dish |-> "d1", portion |-> "HALF", extra |-> TRUE, quantity |-> 2],
       [dish |-> "d2", portion |-> "FULL", extra |-> FALSE, quantity |-> 1]>>}

MCTerms ==
    {[type |-> "FLAT", value |-> 10, min |-> 9, cap |-> Null, usable |-> TRUE],
     [type |-> "PERCENT", value |-> 50, min |-> 0, cap |-> 5, usable |-> TRUE],
     [type |-> "PERCENT", value |-> 150, min |-> 10, cap |-> Null, usable |-> TRUE],
     [type |-> "FLAT", value |-> 10, min |-> 0, cap |-> Null, usable |-> FALSE]}

Symmetry == Permutations(Workers) \cup Permutations(Categories)
=============================================================================
