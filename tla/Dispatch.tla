------------------------------ MODULE Dispatch ------------------------------
(***************************************************************************)
(* Deliveries: delivery.service.ts over the rows of `driver_profiles',       *)
(* `delivery_assignments' and `delivery_status_history', and the order       *)
(* status that drivers, staff and settled payments all write.                *)
(*                                                                           *)
(* Staff assign and reassign drivers; a driver moves the delivery on.  Every *)
(* handler checks rows it has read and then awaits (the routing service, or  *)
(* another database call) before it writes, so the rows may have changed by  *)
(* then.  Reads that follow one another without a write between them are one *)
(* step, at the last of them; a $transaction is one step.                    *)
(***************************************************************************)
EXTENDS Naturals, FiniteSets, Deliveries

CONSTANTS
    AdminStatuses   \* the order statuses staff choose from

OrderStatus == {"PENDING", "CONFIRMED", "PREPARING", "READY_FOR_PICKUP",
                "OUT_FOR_DELIVERY", "DELIVERED", "CANCELLED"}
DriverStatus == {"PENDING", "ACTIVE", "SUSPENDED"}
DriverAvailability == {"ONLINE", "OFFLINE", "BUSY"}

ASSUME StatusAssumption == AdminStatuses \subseteq OrderStatus
ASSUME NoneAssumption == None \notin Orders \cup Drivers

VARIABLES
    order,          \* order[o]: the order's status
    staffWrote,     \* history: orders whose status is one that staff wrote
    setBack,        \* history: orders whose status a settlement wrote last, over
                    \* another than the one it had read
    driver,         \* driver[d]: the profile, "ABSENT" before the first activation
    assignment,     \* assignment[o]: the row of order o, unique on the order
    history,        \* history[o]: statuses in the history rows of o's assignment
    alone           \* TRUE in behaviours that serve one request at a time

rows == <<order, staffWrote, setBack, driver, assignment, history>>
vars == <<rows, request, alone>>

-----------------------------------------------------------------------------
DriverRow == [status : DriverStatus \cup {"ABSENT"}, availability : DriverAvailability]

AssignmentRow == [status : DeliveryStatus \cup {"ABSENT"}, driver : Drivers \cup {None}]

\* free: reassignDriver is about to write its old driver; log: its history row.
FreeRequest == [step : {"free"}, order : Orders, old : Drivers, driver : Drivers]
AssignRequest == [step : {"log", "assign", "route"}, order : Orders, driver : Drivers]
MoveRequest == [step : {"move"}, order : Orders, driver : Drivers, to : DeliveryStatus]
AvailabilityRequest == [step : {"availability"}, driver : Drivers, to : DriverAvailability]
\* seen: the order's status as the payment was read; staff: whether staff wrote it.
SettleRequest == [step : {"settle"}, order : Orders, seen : OrderStatus, staff : BOOLEAN]
Request == IdleRequest \cup FreeRequest \cup AssignRequest \cup MoveRequest
             \cup AvailabilityRequest \cup SettleRequest

\* Shape of the state.
TypeOK ==
    /\ order \in [Orders -> OrderStatus]
    /\ staffWrote \subseteq Orders
    /\ setBack \subseteq Orders
    /\ driver \in [Drivers -> DriverRow]
    /\ assignment \in [Orders -> AssignmentRow]
    /\ history \in [Orders -> SUBSET DeliveryStatus]
    /\ request \in [Workers -> Request]
    /\ alone \in BOOLEAN

Init ==
    /\ order = [o \in Orders |-> "PENDING"]
    /\ staffWrote = {}
    /\ setBack = {}
    /\ driver = [d \in Drivers |-> [status |-> "ABSENT", availability |-> "OFFLINE"]]
    /\ assignment = [o \in Orders |-> [status |-> "ABSENT", driver |-> None]]
    /\ history = [o \in Orders |-> {}]
    /\ request = [w \in Workers |-> Idle]
    /\ alone \in BOOLEAN

-----------------------------------------------------------------------------
\* A request may be taken up by w.
Ready(w) == /\ request[w] = Idle
            /\ alone => \A v \in Workers : request[v] = Idle

Log(o, s) == history' = [history EXCEPT ![o] = @ \cup {s}]

Available(d, a) ==
    driver' = [driver EXCEPT ![d] = [status |-> @.status, availability |-> a]]

-----------------------------------------------------------------------------
(* Staff: drivers *)

\* createAndActivateDriver and activateDriver: an upsert that leaves the
\* availability of an existing profile alone.
ActivateDriver(w, d) ==
    /\ Ready(w)
    /\ driver' = [driver EXCEPT ![d] = [status |-> "ACTIVE", availability |-> @.availability]]
    /\ UNCHANGED <<order, staffWrote, setBack, assignment, history, request, alone>>

\* Suspending also takes the driver offline; the row read before serves the 404.
UpdateDriverStatus(w, d) ==
    /\ Ready(w)
    /\ driver[d].status # "ABSENT"
    /\ \E s \in DriverStatus :
        driver' = [driver EXCEPT ![d] =
                     [status |-> s,
                      availability |-> IF s = "SUSPENDED" THEN "OFFLINE" ELSE @.availability]]
    /\ UNCHANGED <<order, staffWrote, setBack, assignment, history, request, alone>>

-----------------------------------------------------------------------------
(* Staff: assignments *)

AssignDriver(w, o, d) ==
    /\ Ready(w)
    /\ Serve(w, [step |-> "assign", order |-> o, driver |-> d])
    /\ UNCHANGED <<rows, alone>>

\* reassignDriver reads the assignment; without one it is an assignment.
ReassignDriver(w, o, d) ==
    /\ Ready(w)
    /\ assignment[o].status # "ABSENT"
    /\ Serve(w, [step |-> "free", order |-> o, old |-> assignment[o].driver, driver |-> d])
    /\ UNCHANGED <<rows, alone>>

\* The old driver is written ONLINE, whatever the profile or other deliveries say.
FreeOldDriver(w) ==
    LET r == request[w] IN
    /\ r.step = "free"
    /\ Available(r.old, "ONLINE")
    /\ Serve(w, [step |-> "log", order |-> r.order, driver |-> r.driver])
    /\ UNCHANGED <<order, staffWrote, setBack, assignment, history, alone>>

LogReassignment(w) ==
    LET r == request[w] IN
    /\ r.step = "log"
    /\ Log(r.order, "CANCELLED")
    /\ Serve(w, [step |-> "assign", order |-> r.order, driver |-> r.driver])
    /\ UNCHANGED <<order, staffWrote, setBack, driver, assignment, alone>>

Assignable(o, d) ==
    /\ order[o] \notin {"CANCELLED", "DELIVERED"}
    /\ driver[d].status = "ACTIVE"

\* The checks of assignDriverToOrder; then the route is computed elsewhere.
CheckAssignment(w) ==
    LET r == request[w] IN
    /\ r.step = "assign"
    /\ Assignable(r.order, r.driver)
    /\ Serve(w, [step |-> "route", order |-> r.order, driver |-> r.driver])
    /\ UNCHANGED <<rows, alone>>

\* The transaction: an upsert on the order, a history row, the driver BUSY.
WriteAssignment(w) ==
    LET r == request[w] IN
    /\ r.step = "route"
    /\ assignment' = [assignment EXCEPT ![r.order] =
                        [status |-> "ASSIGNED", driver |-> r.driver]]
    /\ Log(r.order, "ASSIGNED")
    /\ Available(r.driver, "BUSY")
    /\ Finish(w)
    /\ UNCHANGED <<order, staffWrote, setBack, alone>>

-----------------------------------------------------------------------------
(* Drivers *)

TransitionDeliveryStatus(w, o, d) ==
    /\ Ready(w)
    /\ driver[d].status = "ACTIVE"
    /\ assignment[o].driver = d
    /\ \E s \in ValidTransitions(assignment[o].status) :
        Serve(w, [step |-> "move", order |-> o, driver |-> d, to |-> s])
    /\ UNCHANGED <<rows, alone>>

\* MUTANT of OrderStatusUpdate: PICKED_UP leaves the order alone.
UpdateOnDeparture(s, current) ==
    CASE s = "OUT_FOR_DELIVERY" -> "OUT_FOR_DELIVERY"
      [] s = "DELIVERED" -> "DELIVERED"
      [] OTHER -> current

OrderStatusUpdate(s, current) ==
    CASE s \in {"PICKED_UP", "OUT_FOR_DELIVERY"} -> "OUT_FOR_DELIVERY"
      [] s = "DELIVERED" -> "DELIVERED"
      [] OTHER -> current

\* The transaction: assignment, order, driver and history, none of them read again.
WriteTransition(w) ==
    LET r == request[w] IN
    /\ r.step = "move"
    /\ assignment' = [assignment EXCEPT ![r.order] = [status |-> r.to, driver |-> @.driver]]
    /\ order' = [order EXCEPT ![r.order] = OrderStatusUpdate(r.to, @)]
    /\ IF r.to \in {"PICKED_UP", "OUT_FOR_DELIVERY", "DELIVERED"}
       THEN staffWrote' = staffWrote \ {r.order} /\ setBack' = setBack \ {r.order}
       ELSE UNCHANGED <<staffWrote, setBack>>
    /\ IF r.to \in {"DELIVERED", "CANCELLED"} THEN Available(r.driver, "ONLINE")
                                              ELSE UNCHANGED driver
    /\ Log(r.order, r.to)
    /\ Finish(w)
    /\ UNCHANGED alone

UpdateAvailability(w, d) ==
    /\ Ready(w)
    /\ driver[d].status = "ACTIVE"
    /\ \E a \in DriverAvailability :
        Serve(w, [step |-> "availability", driver |-> d, to |-> a])
    /\ UNCHANGED <<rows, alone>>

WriteAvailability(w) ==
    /\ request[w].step = "availability"
    /\ Available(request[w].driver, request[w].to)
    /\ Finish(w)
    /\ UNCHANGED <<order, staffWrote, setBack, assignment, history, alone>>

-----------------------------------------------------------------------------
\* updateOrderStatusAdmin of orders.service.ts: any status may follow any other.
UpdateOrderStatusAdmin(w, o) ==
    /\ Ready(w)
    /\ \E s \in AdminStatuses : order' = [order EXCEPT ![o] = s]
    /\ staffWrote' = staffWrote \cup {o}
    /\ setBack' = setBack \ {o}
    /\ UNCHANGED <<driver, assignment, history, request, alone>>

-----------------------------------------------------------------------------
(* Settled payments: verifyPayment and handleWebhook of payments.service.ts *)

\* The payment is read with its order, in whichever status that is; then the signature
\* is checked and the transaction awaited.
ReadForPayment(w, o) ==
    /\ Ready(w)
    /\ Serve(w, [step |-> "settle", order |-> o, seen |-> order[o], staff |-> o \in staffWrote])
    /\ UNCHANGED <<rows, alone>>

Confirm(seen) == IF seen = "PENDING" THEN "CONFIRMED" ELSE seen

\* The order's part of the transaction: the status is computed from the one read and
\* written over whatever it is by now.
WriteConfirmed(w) ==
    LET r == request[w] IN
    /\ r.step = "settle"
    /\ order' = [order EXCEPT ![r.order] = Confirm(r.seen)]
    /\ IF order[r.order] = r.seen
       THEN UNCHANGED <<staffWrote, setBack>>
       ELSE /\ setBack' = setBack \cup {r.order}
            /\ staffWrote' = IF r.staff THEN staffWrote \cup {r.order} ELSE staffWrote \ {r.order}
    /\ Finish(w)
    /\ UNCHANGED <<driver, assignment, history, alone>>

\* A check refuses, a call throws or the process dies between two of its writes.
Abandon(w) ==
    /\ request[w] # Idle
    /\ Finish(w)
    /\ UNCHANGED <<rows, alone>>

Next ==
    \E w \in Workers :
        \/ \E d \in Drivers :
            \/ ActivateDriver(w, d) \/ UpdateDriverStatus(w, d) \/ UpdateAvailability(w, d)
            \/ \E o \in Orders : \/ AssignDriver(w, o, d)
                                 \/ ReassignDriver(w, o, d)
                                 \/ TransitionDeliveryStatus(w, o, d)
        \/ FreeOldDriver(w) \/ LogReassignment(w)
        \/ CheckAssignment(w) \/ WriteAssignment(w)
        \/ WriteTransition(w) \/ WriteAvailability(w)
        \/ \E o \in Orders : UpdateOrderStatusAdmin(w, o) \/ ReadForPayment(w, o)
        \/ WriteConfirmed(w)
        \/ Abandon(w)

Spec == Init /\ [][Next]_vars

-----------------------------------------------------------------------------
(* Properties *)

\* The statuses a delivery passes through before it can have status s.
Before(s) ==
    CASE s = "ACCEPTED" -> {"ASSIGNED"}
      [] s = "PICKED_UP" -> {"ASSIGNED", "ACCEPTED"}
      [] s = "OUT_FOR_DELIVERY" -> {"ASSIGNED", "ACCEPTED", "PICKED_UP"}
      [] s = "DELIVERED" -> {"ASSIGNED", "ACCEPTED", "PICKED_UP", "OUT_FOR_DELIVERY"}
      [] OTHER -> {}

\* An order that staff did not mark DELIVERED themselves is DELIVERED only if it
\* was assigned, accepted, picked up and carried out, each with its history row:
\* transitions checked against stale rows, reassignments under way, late writes and a
\* settlement that writes back a status it read long ago may disorder the steps but
\* not skip one (transitionDeliveryStatus).
DeliveredWasCarried ==
    \A o \in Orders : order[o] = "DELIVERED" /\ o \notin staffWrote =>
        Before("DELIVERED") \cup {"DELIVERED"} \subseteq history[o]

\* An order's status disagrees with a delivery that is under way or done only while it
\* is one that staff wrote, or one that a settled payment wrote back over a driver's or
\* staff's (transitionDeliveryStatus, verifyPayment, handleWebhook).
OrderMatchesDelivery ==
    \A o \in Orders \ (staffWrote \cup setBack) :
        /\ assignment[o].status \in {"PICKED_UP", "OUT_FOR_DELIVERY"}
             => order[o] = "OUT_FOR_DELIVERY"
        /\ assignment[o].status = "DELIVERED" => order[o] = "DELIVERED"

\* Requests served one at a time move a delivery along ASSIGNED -> ACCEPTED ->
\* PICKED_UP -> OUT_FOR_DELIVERY -> DELIVERED, or assign it anew.
MovesFollowMachine ==
    [][\A o \in Orders :
         LET old == assignment[o].status
             new == assignment'[o].status IN
         alone /\ new \notin {old, "ASSIGNED"}
           => /\ old \notin {"ABSENT", "DELIVERED", "CANCELLED"}
              /\ new # "CANCELLED" => Before(new) = Before(old) \cup {old}]_vars

(* What the proof needs besides. *)

\* Whatever a history contains, it contains all that comes before.
HistoryIsComplete ==
    \A o \in Orders : \A s \in history[o] : Before(s) \subseteq history[o]

\* The assignment's status has its history row.
StatusIsLogged ==
    \A o \in Orders : assignment[o].status # "ABSENT" =>
        /\ assignment[o].status \in history[o]
        /\ assignment[o].driver \in Drivers

\* A transition under way was valid for a status the delivery had.
MovesAreLogged ==
    \A w \in Workers : request[w].step = "move" =>
        /\ assignment[request[w].order].status # "ABSENT"
        /\ Before(request[w].to) \subseteq history[request[w].order]

\* A settlement under way read a DELIVERED that staff or a carried delivery wrote.
SettlementsAreLogged ==
    \A w \in Workers :
        LET r == request[w] IN
        r.step = "settle" /\ r.seen = "DELIVERED" /\ ~r.staff =>
            Before("DELIVERED") \cup {"DELIVERED"} \subseteq history[r.order]

\* A request served alone is the only one, and what it has read is still so.
LoneRequestIsFresh ==
    alone =>
        /\ \A v, w \in Workers : request[v] # Idle /\ request[w] # Idle => v = w
        /\ \A w \in Workers : request[w].step = "move" =>
             request[w].to \in ValidTransitions(assignment[request[w].order].status)

\* The inductive invariant behind DeliveredWasCarried and OrderMatchesDelivery:
\* rows, history, waiting transitions and waiting settlements agree.
DispatchInv ==
    /\ TypeOK
    /\ HistoryIsComplete
    /\ StatusIsLogged
    /\ MovesAreLogged
    /\ SettlementsAreLogged
    /\ DeliveredWasCarried
    /\ OrderMatchesDelivery
=============================================================================
