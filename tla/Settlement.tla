----------------------------- MODULE Settlement -----------------------------
(***************************************************************************)
(* What the payment service promises about money, and nothing else.  An     *)
(* order becomes paid when a payment that the gateway holds is credited to  *)
(* it, or when money made out to it is captured; it stays paid.  A payment   *)
(* is credited to at most one order, though not always to the one it was    *)
(* made for.                                                                *)
(***************************************************************************)
CONSTANTS Orders, Payments

VARIABLES held,         \* payments whose money the gateway holds
          captured,     \* orders for which it has captured a payment
          credits,      \* credits[o]: the payments the API shows for order o
          paid          \* orders the API shows as paid

vars == <<held, captured, credits, paid>>

Init ==
    /\ held = {} /\ captured = {} /\ paid = {}
    /\ credits = [o \in Orders |-> {}]

\* The gateway's own business: it never gives money back.
Receive ==
    /\ held' \in SUBSET Payments /\ held \subseteq held'
    /\ captured' \in SUBSET Orders /\ captured \subseteq captured'
    /\ UNCHANGED <<credits, paid>>

\* Order o is credited with x, in place of some of what it was credited with.
Credit(o, x) ==
    /\ x \in held
    /\ \A p \in Orders \ {o} : x \notin credits[p]
    /\ \E kept \in SUBSET credits[o] : credits' = [credits EXCEPT ![o] = kept \cup {x}]
    /\ paid' = paid \cup {o}
    /\ UNCHANGED <<held, captured>>

\* Order o is paid because money for it was captured, by whichever payment.
Recognise(o) ==
    /\ o \in captured
    /\ \E kept \in SUBSET credits[o] : credits' = [credits EXCEPT ![o] = kept]
    /\ paid' = paid \cup {o}
    /\ UNCHANGED <<held, captured>>

Next ==
    \/ Receive
    \/ \E o \in Orders : Recognise(o) \/ \E x \in Payments : Credit(o, x)

Spec == Init /\ [][Next]_vars
=============================================================================
