---------------------------- MODULE MCTwoFactor ----------------------------
(* Small instances of TwoFactor: two codes in the first batch, one in the     *)
(* second.                                                                    *)
EXTENDS TwoFactor, TLC

CONSTANTS s1, s2, k1, k2, k3, b1, b2, c1, c2, w1, w2

BatchOf == k1 :> b1 @@ k2 :> b1 @@ k3 :> b2

Symmetry == Permutations({s1, s2}) \cup Permutations({k1, k2})
              \cup Permutations({c1, c2}) \cup Permutations({w1, w2})
=============================================================================
