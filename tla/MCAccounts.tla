----------------------------- MODULE MCAccounts -----------------------------
(* A small instance of Accounts: two accounts at Google, each with an address *)
(* of its own, and one at Apple, which may come with either.                  *)
EXTENDS Accounts, TLC

CONSTANTS g1, g2, e1, e2

EmailOfTwo == g1 :> e1 @@ g2 :> e2

\* The two accounts at Google change places together with their addresses, which
\* leaves EmailOf as it is.
Swap == g1 :> g2 @@ g2 :> g1 @@ e1 :> e2 @@ e2 :> e1

Symmetry == Permutations(Users) \cup Permutations(Workers) \cup {Swap}
=============================================================================
