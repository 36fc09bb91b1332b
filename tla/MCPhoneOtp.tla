----------------------------- MODULE MCPhoneOtp -----------------------------
(* Small instances of PhoneOtp, with times scaled down in their order.        *)
EXTENDS PhoneOtp, TLC

Symmetry == Permutations(Rows) \cup Permutations(Workers)
=============================================================================
