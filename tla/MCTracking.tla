----------------------------- MODULE MCTracking -----------------------------
(* One order that two drivers take over from each other, and two requests.   *)
(* A unit of time stands for the 60 seconds of both thresholds.              *)
EXTENDS Tracking, TLC

CONSTANTS o1, d1, d2, w1, w2

MCOrders == {o1}
MCDrivers == {d1, d2}
MCWorkers == {w1, w2}

Symmetry == Permutations(MCDrivers) \cup Permutations(MCWorkers)
=============================================================================
