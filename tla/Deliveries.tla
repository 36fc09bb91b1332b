----------------------------- MODULE Deliveries -----------------------------
(***************************************************************************)
(* What the modules about deliveries have in common: orders, drivers and the *)
(* machine of a delivery (transitionDeliveryStatus of delivery.service.ts).  *)
(***************************************************************************)
EXTENDS Requests

CONSTANTS
    Orders,         \* rows of the table `orders' that may be delivered
    Drivers,        \* users who have, or may get, a driver profile
    None            \* SQL null

DeliveryStatus == {"ASSIGNED", "ACCEPTED", "PICKED_UP", "OUT_FOR_DELIVERY",
                   "DELIVERED", "CANCELLED"}

\* MUTANT of ValidTransitions: a picked up delivery may skip OUT_FOR_DELIVERY.
SkippingTransitions(s) ==
    CASE s = "ASSIGNED" -> {"ACCEPTED", "CANCELLED"}
      [] s = "ACCEPTED" -> {"PICKED_UP", "CANCELLED"}
      [] s = "PICKED_UP" -> {"OUT_FOR_DELIVERY", "DELIVERED", "CANCELLED"}
      [] s = "OUT_FOR_DELIVERY" -> {"DELIVERED", "CANCELLED"}
      [] OTHER -> {}

ValidTransitions(s) ==
    CASE s = "ASSIGNED" -> {"ACCEPTED", "CANCELLED"}
      [] s = "ACCEPTED" -> {"PICKED_UP", "CANCELLED"}
      [] s = "PICKED_UP" -> {"OUT_FOR_DELIVERY", "CANCELLED"}
      [] s = "OUT_FOR_DELIVERY" -> {"DELIVERED", "CANCELLED"}
      [] OTHER -> {}
=============================================================================
