------------------------------ MODULE Tracking ------------------------------
(***************************************************************************)
(* Where a delivery is said to be: the positions drivers report and the      *)
(* estimate on the assignment (recordDriverLocation and getDeliveryTracking  *)
(* of delivery.service.ts, routing.service.ts).                              *)
(*                                                                           *)
(* A report is checked and stamped, then finds the driver's delivery, stores *)
(* the position, asks for a route and leaves behind an estimate that nobody  *)
(* waits for.  Between these steps staff give the delivery to other drivers. *)
(* Module Dispatch has the life of an assignment; here it changes in any     *)
(* way its statuses allow.                                                   *)
(***************************************************************************)
EXTENDS Integers, FiniteSets, Deliveries

CONSTANTS
    MaxAge,         \* 60 s: the oldest fix that is accepted
    MaxAhead,       \* 10 s: how far a phone's clock may be ahead
    StaleAfter,     \* 60 s: when a stored position is called stale
    Horizon,        \* bound: the last instant
    Ages            \* bound: the ages of fixes that are reported

ASSUME TimesAssumption == MaxAge \in Nat /\ MaxAhead \in Nat /\ StaleAfter \in Nat
ASSUME BoundsAssumption == Horizon \in Nat /\ Ages \subseteq Int
ASSUME NullAssumption == None \notin Orders \cup Drivers \cup Int

VARIABLES
    now,            \* the server's clock
    assignment,     \* assignment[o]: its driver, status and whose fix the estimate is from
    position,       \* position[d]: the last location stored, as the phone took it
    late,           \* estimates on their way to the database, awaited by nobody
    raced           \* history: orders assigned while another driver's report was under way

rows == <<assignment, position>>
vars == <<now, rows, late, raced, request>>

-----------------------------------------------------------------------------
\* What the estimate of a new assignment is from: the route from the restaurant.
Plan == "plan"

\* ASSIGNED stands for every status without a report to make, ACCEPTED for PICKED_UP.
Moving == {"ACCEPTED", "OUT_FOR_DELIVERY"}
TrackedStatus == Moving \cup {"ASSIGNED"}

\* A row without a driver is no row.
AssignmentRow == [status : TrackedStatus, driver : Drivers \cup {None},
                  estimate : Drivers \cup {Plan}]

\* taken: the phone's time, which it may keep to itself; updated: the server's.
Position == [taken : Int \cup {None}, updated : Nat \cup {None}]

Estimate == [order : Orders, driver : Drivers]

ReportRequest == [step : {"find", "store", "route"}, driver : Drivers, taken : Int \cup {None},
                  at : Nat, order : Orders \cup {None}]
Request == IdleRequest \cup ReportRequest

\* Shape of the state.
TypeOK ==
    /\ now \in Nat
    /\ assignment \in [Orders -> AssignmentRow]
    /\ position \in [Drivers -> Position]
    /\ late \subseteq Estimate
    /\ raced \subseteq Orders
    /\ request \in [Workers -> Request]

Init ==
    /\ now = 0
    /\ assignment = [o \in Orders |-> [status |-> "ASSIGNED", driver |-> None, estimate |-> Plan]]
    /\ position = [d \in Drivers |-> [taken |-> None, updated |-> None]]
    /\ late = {}
    /\ raced = {}
    /\ request = [w \in Workers |-> Idle]

-----------------------------------------------------------------------------
\* Reports that hold o as the delivery of their driver, in the API or on the way to
\* the database.
UnderWay(o) ==
    {d \in Drivers : \/ [order |-> o, driver |-> d] \in late
                     \/ \E w \in Workers : /\ request[w].step \in {"store", "route"}
                                           /\ request[w].order = o
                                           /\ request[w].driver = d}

-----------------------------------------------------------------------------
(* Staff and the driver's other requests (module Dispatch) *)

\* MUTANT of AssignedRow: a reassignment keeps the estimate.
AssignedRowKept(o, d) ==
    [status |-> "ASSIGNED", driver |-> d, estimate |-> assignment[o].estimate]

\* The upsert of assignDriverToOrder writes the estimate of the planned route.
AssignedRow(o, d) == [status |-> "ASSIGNED", driver |-> d, estimate |-> Plan]

AssignDriver(o, d) ==
    /\ assignment' = [assignment EXCEPT ![o] = AssignedRow(o, d)]
    /\ raced' = IF UnderWay(o) \subseteq {d} THEN raced \ {o} ELSE raced \cup {o}
    /\ UNCHANGED <<now, position, late, request>>

Transition(o) ==
    /\ assignment[o].driver # None
    /\ \E s \in TrackedStatus :
        assignment' = [assignment EXCEPT ![o] = [status |-> s, driver |-> @.driver,
                                                 estimate |-> @.estimate]]
    /\ UNCHANGED <<now, position, late, raced, request>>

-----------------------------------------------------------------------------
(* recordDriverLocation *)

\* MUTANT of FreshEnough: the age of a fix is not looked at.
FreshEnoughAhead(t) == t # None => t - now <= MaxAhead

\* A fix without a time is taken to be fresh.
FreshEnough(t) == t # None => now - t <= MaxAge /\ t - now <= MaxAhead

\* The report is stamped with the server's time before the first write.  A driver who
\* is not ACTIVE is refused, and may be made so at any time.
RecordDriverLocation(w, d, t) ==
    /\ request[w] = Idle
    /\ FreshEnough(t)
    /\ Serve(w, [step |-> "find", driver |-> d, taken |-> t, at |-> now, order |-> None])
    /\ UNCHANGED <<now, rows, late, raced>>

DeliveriesOf(d) ==
    {o \in Orders : assignment[o].driver = d /\ assignment[o].status \in Moving}

\* findFirst: any one of the driver's deliveries.  None is no delivery, or one whose
\* order has no coordinates: no estimate then.
FindDelivery(w) ==
    LET r == request[w] IN
    /\ r.step = "find"
    /\ \E o \in DeliveriesOf(r.driver) \cup {None} :
        Serve(w, [step |-> "store", driver |-> r.driver, taken |-> r.taken,
                  at |-> r.at, order |-> o])
    /\ UNCHANGED <<now, rows, late, raced>>

\* MUTANT of StampedPosition: the row says when it was written.
StampedWhenWritten(r) == [taken |-> r.taken, updated |-> now]

StampedPosition(r) == [taken |-> r.taken, updated |-> r.at]

\* The profile and the history row of the fix are written side by side; nothing
\* reads the latter, whose failure ends the report (Abandon) all the same.
StorePosition(w) ==
    LET r == request[w] IN
    /\ r.step = "store"
    /\ position' = [position EXCEPT ![r.driver] = StampedPosition(r)]
    /\ Serve(w, IF r.order = None THEN Idle
                ELSE [step |-> "route", driver |-> r.driver, taken |-> r.taken,
                      at |-> r.at, order |-> r.order])
    /\ UNCHANGED <<now, assignment, late, raced>>

\* calculateRoute gives an estimate in any case, the cache's, the router's or a
\* straight line's.  Its update is sent and the fix broadcast to the room.
EstimateArrival(w) ==
    LET r == request[w] IN
    /\ r.step = "route"
    /\ late' = late \cup {[order |-> r.order, driver |-> r.driver]}
    /\ Finish(w)
    /\ UNCHANGED <<now, rows, raced>>

\* By the assignment's id, whoever drives it by now; it may fail unnoticed.
SaveEstimate(e) ==
    /\ e \in late
    /\ late' = late \ {e}
    /\ \/ assignment' = [assignment EXCEPT ![e.order] =
                           [status |-> @.status, driver |-> @.driver, estimate |-> e.driver]]
       \/ UNCHANGED assignment
    /\ UNCHANGED <<now, position, raced, request>>

-----------------------------------------------------------------------------
\* A call throws or the process dies; only the rows survive the process.
Abandon(w) ==
    /\ request[w] # Idle
    /\ Finish(w)
    /\ UNCHANGED <<now, rows, late, raced>>

Tick ==
    /\ now < Horizon
    /\ now' = now + 1
    /\ UNCHANGED <<rows, late, raced, request>>

Next ==
    \/ \E o \in Orders : Transition(o) \/ \E d \in Drivers : AssignDriver(o, d)
    \/ \E w \in Workers :
        \/ \E d \in Drivers : \E t \in {now - a : a \in Ages} \cup {None} :
             RecordDriverLocation(w, d, t)
        \/ FindDelivery(w) \/ StorePosition(w) \/ EstimateArrival(w)
        \/ Abandon(w)
    \/ \E e \in late : SaveEstimate(e)
    \/ Tick

Spec == Init /\ [][Next]_vars

-----------------------------------------------------------------------------
(* What getDeliveryTracking answers *)

DriverLocation(o) == position[assignment[o].driver]

IsStale(o) ==
    IF DriverLocation(o).updated # None
    THEN now - DriverLocation(o).updated > StaleAfter
    ELSE assignment[o].status = "OUT_FOR_DELIVERY"

(* Properties *)

\* A position shown as live, of whichever driver the order has now, was taken no
\* longer ago than a fix may be old plus what counts as live, however long its report
\* was under way and whatever overtook it (recordDriverLocation, getDeliveryTracking);
\* nothing is known of a fix without a time.
LiveIsRecent ==
    \A o \in Orders :
        /\ assignment[o].driver # None
        /\ ~IsStale(o)
        /\ DriverLocation(o).taken # None
        => now - DriverLocation(o).taken <= MaxAge + StaleAfter

\* The estimate of a delivery is the planned one or from a fix of its own driver,
\* unless it was assigned while a report of another driver was under way
\* (the update that recordDriverLocation does not await).
EstimateOfItsDriver ==
    \A o \in Orders : o \notin raced =>
        assignment[o].estimate \in {Plan, assignment[o].driver}

(* What the proof needs besides. *)

\* The stamp of a fix is never far from the time the phone gave it, nor ahead of now.
WellStamped(t, at) == at <= now /\ (t # None => at - t <= MaxAge)

FixesAreWellStamped ==
    /\ \A d \in Drivers : LET p == position[d] IN
        IF p.updated = None THEN p.taken = None ELSE WellStamped(p.taken, p.updated)
    /\ \A w \in Workers : request[w].step \in {"find", "store", "route"} =>
        WellStamped(request[w].taken, request[w].at)

\* A report under way is of the order's driver, or the order is marked.
ReportsAreOfItsDriver ==
    \A o \in Orders : o \notin raced => UnderWay(o) \subseteq {assignment[o].driver}

\* A route is only asked for with a delivery at hand.
RoutesAreOfDeliveries ==
    \A w \in Workers : request[w].step = "route" => request[w].order # None

\* The inductive invariant behind the two.
TrackingInv ==
    /\ TypeOK
    /\ FixesAreWellStamped
    /\ ReportsAreOfItsDriver
    /\ RoutesAreOfDeliveries
    /\ EstimateOfItsDriver
=============================================================================
