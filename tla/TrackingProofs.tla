--------------------------- MODULE TrackingProofs ---------------------------
(***************************************************************************)
(* Where a delivery is said to be, and who is told.                          *)
(*                                                                           *)
(* TrackingInv is inductive, so what is shown as live is recent and an       *)
(* estimate is the delivery's own unless a report was overtaken by an        *)
(* assignment, for any number of drivers, orders and reports under way.      *)
(*                                                                           *)
(* GatewayInv is inductive, so screens show the row and news of an order     *)
(* reach its parties alone, for any number of sockets, orders, people and    *)
(* handlers.                                                                 *)
(***************************************************************************)
EXTENDS Tracking, Gateway, TLAPS

-----------------------------------------------------------------------------
(* Tracking *)

\* No rows, no reports.
LEMMA InitInv == Init => TrackingInv
  <1> SUFFICES ASSUME Init PROVE TrackingInv
    OBVIOUS
  <1> USE DEF Init
  <1>1. TypeOK
    BY DEF TypeOK, AssignmentRow, TrackedStatus, Position, Request, IdleRequest, Idle
  <1>2. FixesAreWellStamped /\ RoutesAreOfDeliveries
    BY DEF FixesAreWellStamped, RoutesAreOfDeliveries, Idle
  <1>3. ReportsAreOfItsDriver
    BY DEF ReportsAreOfItsDriver, UnderWay, Idle
  <1>4. EstimateOfItsDriver
    BY DEF EstimateOfItsDriver
  <1> QED
    BY <1>1, <1>2, <1>3, <1>4 DEF TrackingInv

\* The step of a request tells whether it is a report.
LEMMA RequestKinds ==
    ASSUME NEW r \in Request, r.step # "idle"
    PROVE  r \in ReportRequest
  BY DEF Request, IdleRequest

\* What is said of one request.
Stamped(r) == r.step \in {"find", "store", "route"} => WellStamped(r.taken, r.at)
AtHand(r) == r.step = "route" => r.order # None
Reports(r, o) == r.step \in {"store", "route"} /\ r.order = o
Own(r) == \A o \in Orders :
            o \notin raced /\ Reports(r, o) => r.driver = assignment[o].driver

\* What the invariant says of a request at work.
LEMMA RequestFacts ==
    ASSUME TrackingInv, NEW w \in Workers
    PROVE  /\ request[w] \in Request /\ Stamped(request[w])
           /\ AtHand(request[w]) /\ Own(request[w])
  <1>1. request[w] \in Request
    BY DEF TrackingInv, TypeOK
  <1>2. Stamped(request[w]) /\ AtHand(request[w])
    BY DEF TrackingInv, FixesAreWellStamped, RoutesAreOfDeliveries, Stamped, AtHand
  <1>3. Own(request[w])
    <2> SUFFICES ASSUME NEW o \in Orders, o \notin raced, Reports(request[w], o)
                 PROVE  request[w].driver = assignment[o].driver
      BY DEF Own
    <2>1. request[w].driver \in Drivers
      BY <1>1, RequestKinds DEF Reports, ReportRequest
    <2>2. request[w].driver \in UnderWay(o)
      BY <2>1 DEF Reports, UnderWay
    <2> QED
      BY <2>2 DEF TrackingInv, ReportsAreOfItsDriver
  <1> QED
    BY <1>1, <1>2, <1>3

\* One request goes on and neither the clock nor the mark of an order changes.
LEMMA ServeInv ==
    ASSUME TrackingInv, NEW w \in Workers, NEW r \in Request, Serve(w, r),
           Stamped(r), AtHand(r), Own(r), UNCHANGED <<now, assignment, raced>>
    PROVE  /\ request' \in [Workers -> Request]
           /\ \A v \in Workers : Stamped(request'[v])
           /\ RoutesAreOfDeliveries'
           /\ \A v \in Workers : Own(request'[v])
  <1>1. \A v \in Workers : request'[v] = IF v = w THEN r ELSE request[v]
    BY DEF TrackingInv, TypeOK, Serve
  <1>2. request' \in [Workers -> Request]
    BY DEF TrackingInv, TypeOK, Serve
  <1>3. \A v \in Workers : Stamped(request'[v]) /\ AtHand(request'[v]) /\ Own(request'[v])
    BY <1>1, RequestFacts
  <1> QED
    BY <1>2, <1>3 DEF RoutesAreOfDeliveries, AtHand

\* Reports and late estimates are all that is under way.
LEMMA UnderWayOwn ==
    ASSUME UNCHANGED <<assignment, raced>>,
           \A v \in Workers : Own(request'[v]),
           \A e \in late' : e.order \notin raced => e.driver = assignment[e.order].driver
    PROVE  ReportsAreOfItsDriver'
  <1> SUFFICES ASSUME NEW o \in Orders, o \notin raced, NEW d \in UnderWay(o)'
               PROVE  d = assignment[o].driver
    BY DEF ReportsAreOfItsDriver
  <1>1. CASE [order |-> o, driver |-> d] \in late'
    BY <1>1
  <1>2. CASE \E w \in Workers : /\ request'[w].step \in {"store", "route"}
                                /\ request'[w].order = o
                                /\ request'[w].driver = d
    BY <1>2 DEF Own, Reports
  <1> QED
    BY <1>1, <1>2 DEF UnderWay

\* An estimate on its way is of the order's driver, or the order is marked.
LEMMA LateOwn ==
    ASSUME TrackingInv, NEW e \in late
    PROVE  /\ e \in Estimate
           /\ e.order \notin raced => e.driver = assignment[e.order].driver
  <1>1. e \in Estimate /\ e = [order |-> e.order, driver |-> e.driver]
    BY DEF TrackingInv, TypeOK, Estimate
  <1>2. e.driver \in UnderWay(e.order)
    BY <1>1 DEF UnderWay, Estimate
  <1> QED
    BY <1>1, <1>2 DEF TrackingInv, ReportsAreOfItsDriver, Estimate

\* A request goes on, at most the position of a driver is written.
LEMMA RequestInv ==
    ASSUME TrackingInv, NEW w \in Workers, NEW r \in Request, Serve(w, r),
           Stamped(r), AtHand(r), Own(r), UNCHANGED <<now, assignment, late, raced>>,
           position' \in [Drivers -> Position],
           \A d \in Drivers : \/ position'[d] = position[d]
                              \/ /\ position'[d].updated \in Nat
                                 /\ WellStamped(position'[d].taken, position'[d].updated)
    PROVE  TrackingInv'
  <1> USE DEF TrackingInv
  <1>1. /\ request' \in [Workers -> Request]
        /\ \A v \in Workers : Stamped(request'[v])
        /\ RoutesAreOfDeliveries'
        /\ \A v \in Workers : Own(request'[v])
    BY ServeInv
  <1>2. TypeOK'
    BY <1>1 DEF TypeOK
  <1>3. FixesAreWellStamped'
    <2>1. \A d \in Drivers :
            IF position'[d].updated = None THEN position'[d].taken = None
            ELSE WellStamped(position'[d].taken, position'[d].updated)
      BY NullAssumption DEF FixesAreWellStamped
    <2> QED
      BY <1>1, <2>1 DEF FixesAreWellStamped, Stamped, WellStamped
  <1>4. ReportsAreOfItsDriver'
    BY <1>1, LateOwn, UnderWayOwn
  <1>5. EstimateOfItsDriver'
    BY DEF EstimateOfItsDriver
  <1> QED
    BY <1>1, <1>2, <1>3, <1>4, <1>5

LEMMA IdleIsHarmless == Idle \in Request /\ Stamped(Idle) /\ AtHand(Idle) /\ Own(Idle)
  BY DEF Idle, Request, IdleRequest, Stamped, AtHand, Own, Reports

\* A report begins, finds its delivery, or is given up.
LEMMA ReportInv ==
    ASSUME TrackingInv, NEW w \in Workers,
           \/ \E d \in Drivers : \E t \in {now - a : a \in Ages} \cup {None} :
                RecordDriverLocation(w, d, t)
           \/ FindDelivery(w)
           \/ Abandon(w)
    PROVE  TrackingInv'
  <1> USE DEF rows
  <1>1. position \in [Drivers -> Position]
    BY DEF TrackingInv, TypeOK
  <1>2. ASSUME NEW d \in Drivers, NEW t \in {now - a : a \in Ages} \cup {None},
               RecordDriverLocation(w, d, t)
        PROVE  TrackingInv'
    <2> DEFINE r == [step |-> "find", driver |-> d, taken |-> t, at |-> now, order |-> None]
    <2>1. now \in Nat /\ t \in Int \cup {None}
      BY BoundsAssumption DEF TrackingInv, TypeOK
    <2>2. r \in Request
      BY <2>1 DEF Request, ReportRequest
    <2>3. Stamped(r)
      BY <1>2, <2>1, TimesAssumption DEF RecordDriverLocation, FreshEnough, Stamped, WellStamped
    <2>4. AtHand(r) /\ Own(r)
      BY DEF AtHand, Own, Reports
    <2>5. Serve(w, r) /\ UNCHANGED <<now, assignment, position, late, raced>>
      BY <1>2 DEF RecordDriverLocation
    <2> HIDE DEF r
    <2> QED
      BY <1>1, <2>2, <2>3, <2>4, <2>5, RequestInv
  <1>3. CASE FindDelivery(w)
    <2>1. PICK q \in Request : q = request[w]
      BY RequestFacts
    <2>2. q \in ReportRequest /\ Stamped(q) /\ q.step = "find"
      BY <1>3, <2>1, RequestKinds, RequestFacts DEF FindDelivery
    <2>3. PICK o \in DeliveriesOf(q.driver) \cup {None} :
            Serve(w, [step |-> "store", driver |-> q.driver, taken |-> q.taken,
                      at |-> q.at, order |-> o])
      BY <1>3, <2>1 DEF FindDelivery
    <2> DEFINE r == [step |-> "store", driver |-> q.driver, taken |-> q.taken,
                     at |-> q.at, order |-> o]
    <2>4. r \in Request /\ Stamped(r) /\ AtHand(r)
      BY <2>2 DEF Request, ReportRequest, Stamped, AtHand, DeliveriesOf
    <2>5. Own(r)
      BY NullAssumption DEF Own, Reports, DeliveriesOf
    <2>6. UNCHANGED <<now, assignment, position, late, raced>>
      BY <1>3 DEF FindDelivery
    <2>7. Serve(w, r)
      BY <2>3
    <2> HIDE DEF r
    <2> QED
      BY <1>1, <2>4, <2>5, <2>6, <2>7, RequestInv
  <1>4. CASE Abandon(w)
    BY <1>1, <1>4, IdleIsHarmless, RequestInv DEF Abandon, Finish
  <1> QED
    BY <1>2, <1>3, <1>4

\* The position carries the stamp of its report.
LEMMA StorePositionInv ==
    ASSUME TrackingInv, NEW w \in Workers, StorePosition(w)
    PROVE  TrackingInv'
  <1>1. PICK q \in Request : q = request[w]
    BY RequestFacts
  <1>2. q \in ReportRequest /\ Stamped(q) /\ Own(q) /\ q.step = "store"
    BY <1>1, RequestKinds, RequestFacts DEF StorePosition
  <1>3. position' = [position EXCEPT ![q.driver] = StampedPosition(q)]
    BY <1>1 DEF StorePosition
  <1>4. StampedPosition(q) \in Position /\ StampedPosition(q).updated \in Nat
          /\ WellStamped(StampedPosition(q).taken, StampedPosition(q).updated)
    BY <1>2 DEF StampedPosition, Position, ReportRequest, Stamped
  <1>5. position' \in [Drivers -> Position]
    BY <1>2, <1>3, <1>4 DEF TrackingInv, TypeOK, ReportRequest
  <1>6. \A d \in Drivers : \/ position'[d] = position[d]
                           \/ /\ position'[d].updated \in Nat
                              /\ WellStamped(position'[d].taken, position'[d].updated)
    BY <1>2, <1>3, <1>4 DEF TrackingInv, TypeOK, ReportRequest
  <1>7. UNCHANGED <<now, assignment, late, raced>>
    BY DEF StorePosition
  <1>8. CASE q.order = None
    <2>1. Serve(w, Idle)
      BY <1>1, <1>8 DEF StorePosition
    <2> QED
      BY <1>5, <1>6, <1>7, <2>1, IdleIsHarmless, RequestInv
  <1>9. CASE q.order # None
    <2> DEFINE r == [step |-> "route", driver |-> q.driver, taken |-> q.taken,
                     at |-> q.at, order |-> q.order]
    <2>1. r \in Request /\ Stamped(r) /\ AtHand(r) /\ Own(r)
      BY <1>2, <1>9 DEF Request, ReportRequest, Stamped, AtHand, Own, Reports
    <2>2. Serve(w, r)
      BY <1>1, <1>9 DEF StorePosition
    <2> HIDE DEF r
    <2> QED
      BY <1>5, <1>6, <1>7, <2>1, <2>2, RequestInv
  <1> QED
    BY <1>8, <1>9

\* The estimate sets off as its report ends.
LEMMA EstimateArrivalInv ==
    ASSUME TrackingInv, NEW w \in Workers, EstimateArrival(w)
    PROVE  TrackingInv'
  <1> USE DEF TrackingInv
  <1>1. PICK q \in Request : q = request[w]
    BY RequestFacts
  <1>2. q \in ReportRequest /\ Own(q) /\ AtHand(q) /\ q.step = "route"
    BY <1>1, RequestKinds, RequestFacts DEF EstimateArrival
  <1>3. q.order \in Orders /\ q.driver \in Drivers
    BY <1>2 DEF ReportRequest, AtHand
  <1>4. late' = late \cup {[order |-> q.order, driver |-> q.driver]}
          /\ UNCHANGED <<now, assignment, position, raced>> /\ Serve(w, Idle)
    BY <1>1 DEF EstimateArrival, Finish, rows
  <1>5. /\ request' \in [Workers -> Request]
        /\ \A v \in Workers : Stamped(request'[v])
        /\ RoutesAreOfDeliveries'
        /\ \A v \in Workers : Own(request'[v])
    BY <1>4, IdleIsHarmless, ServeInv
  <1>6. TypeOK'
    BY <1>3, <1>4, <1>5 DEF TypeOK, Estimate
  <1>7. FixesAreWellStamped'
    BY <1>4, <1>5 DEF FixesAreWellStamped, Stamped, WellStamped
  <1>8. \A e \in late' : e.order \notin raced => e.driver = assignment[e.order].driver
    BY <1>2, <1>3, <1>4, LateOwn DEF Own, Reports
  <1>9. ReportsAreOfItsDriver'
    BY <1>4, <1>5, <1>8, UnderWayOwn
  <1>10. EstimateOfItsDriver'
    BY <1>4 DEF EstimateOfItsDriver
  <1> QED
    BY <1>5, <1>6, <1>7, <1>9, <1>10

\* The estimate lands on the assignment as it is by then.
LEMMA SaveEstimateInv ==
    ASSUME TrackingInv, NEW e \in late, SaveEstimate(e)
    PROVE  TrackingInv'
  <1> USE DEF TrackingInv
  <1>1. e \in Estimate /\ (e.order \notin raced => e.driver = assignment[e.order].driver)
    BY LateOwn
  <1>2. late' = late \ {e} /\ UNCHANGED <<now, position, raced, request>>
    BY DEF SaveEstimate
  <1>3. \A o \in Orders :
          /\ assignment'[o] \in AssignmentRow
          /\ assignment'[o].driver = assignment[o].driver
          /\ \/ assignment'[o].estimate = assignment[o].estimate
             \/ o = e.order /\ assignment'[o].estimate = e.driver
    BY <1>1 DEF SaveEstimate, TypeOK, AssignmentRow, Estimate
  <1>4. assignment' \in [Orders -> AssignmentRow]
    BY <1>1 DEF SaveEstimate, TypeOK, AssignmentRow, Estimate
  <1>5. TypeOK'
    BY <1>2, <1>4 DEF TypeOK
  <1>6. (FixesAreWellStamped /\ RoutesAreOfDeliveries)'
    BY <1>2 DEF FixesAreWellStamped, WellStamped, RoutesAreOfDeliveries
  <1>7. \A o \in Orders : UnderWay(o)' \subseteq UnderWay(o)
    BY <1>2 DEF UnderWay
  <1>8. ReportsAreOfItsDriver'
    BY <1>2, <1>3, <1>7 DEF ReportsAreOfItsDriver
  <1>9. EstimateOfItsDriver'
    BY <1>1, <1>2, <1>3 DEF EstimateOfItsDriver
  <1> QED
    BY <1>5, <1>6, <1>8, <1>9

\* A new driver, the planned estimate, and a mark if another's report is under way.
LEMMA AssignmentInv ==
    ASSUME TrackingInv, NEW o \in Orders,
           Transition(o) \/ \E d \in Drivers : AssignDriver(o, d)
    PROVE  TrackingInv'
  <1> USE DEF TrackingInv
  <1>1. UNCHANGED <<now, position, late, request>>
    BY DEF Transition, AssignDriver
  <1>2. UnderWay(o)' = UnderWay(o) /\ \A p \in Orders : UnderWay(p)' = UnderWay(p)
    BY <1>1 DEF UnderWay
  <1>3. (FixesAreWellStamped /\ RoutesAreOfDeliveries)'
    BY <1>1 DEF FixesAreWellStamped, WellStamped, RoutesAreOfDeliveries
  <1>4. \A p \in Orders : p # o => assignment'[p] = assignment[p] /\ (p \in raced' <=> p \in raced)
    BY DEF Transition, AssignDriver, TypeOK
  <1>5. CASE Transition(o)
    <2>1. PICK s \in TrackedStatus :
            assignment' = [assignment EXCEPT ![o] = [status |-> s, driver |-> @.driver,
                                                     estimate |-> @.estimate]]
      BY <1>5 DEF Transition
    <2>2. assignment' \in [Orders -> AssignmentRow]
      BY <2>1 DEF TypeOK, AssignmentRow
    <2>3. assignment'[o].driver = assignment[o].driver
            /\ assignment'[o].estimate = assignment[o].estimate /\ raced' = raced
      BY <1>5, <2>1 DEF Transition, TypeOK
    <2>4. TypeOK'
      BY <1>1, <2>2, <2>3 DEF TypeOK
    <2>5. (ReportsAreOfItsDriver /\ EstimateOfItsDriver)'
      BY <1>2, <1>4, <2>3 DEF ReportsAreOfItsDriver, EstimateOfItsDriver
    <2> QED
      BY <1>3, <2>4, <2>5
  <1>6. ASSUME NEW d \in Drivers, AssignDriver(o, d) PROVE TrackingInv'
    <2>1. assignment' = [assignment EXCEPT ![o] = AssignedRow(o, d)]
            /\ raced' = IF UnderWay(o) \subseteq {d} THEN raced \ {o} ELSE raced \cup {o}
      BY <1>6 DEF AssignDriver
    <2>2. assignment'[o] = [status |-> "ASSIGNED", driver |-> d, estimate |-> Plan]
            /\ assignment' \in [Orders -> AssignmentRow]
      BY <2>1 DEF AssignedRow, TypeOK, AssignmentRow, TrackedStatus
    <2>3. TypeOK'
      BY <1>1, <2>1, <2>2 DEF TypeOK
    <2>4. ReportsAreOfItsDriver'
      BY <1>2, <1>4, <2>1, <2>2 DEF ReportsAreOfItsDriver
    <2>5. EstimateOfItsDriver'
      BY <1>4, <2>2 DEF EstimateOfItsDriver
    <2> QED
      BY <1>3, <2>3, <2>4, <2>5
  <1> QED
    BY <1>5, <1>6

LEMMA NextInv == TrackingInv /\ [Next]_vars => TrackingInv'
  <1> SUFFICES ASSUME TrackingInv, [Next]_vars PROVE TrackingInv'
    OBVIOUS
  <1>1. CASE Tick
    <2>1. now' = now + 1 /\ UNCHANGED <<assignment, position, late, raced, request>>
      BY <1>1 DEF Tick, rows
    <2>2. TypeOK'
      BY <2>1 DEF TrackingInv, TypeOK
    <2>3. \A t, at : WellStamped(t, at) /\ at \in Nat => WellStamped(t, at)'
      BY <2>1 DEF TrackingInv, TypeOK, WellStamped
    <2>4. \A d \in Drivers : position[d].updated # None => position[d].updated \in Nat
      BY DEF TrackingInv, TypeOK, Position
    <2>5. \A w \in Workers : request[w].step \in {"find", "store", "route"} =>
            request[w].at \in Nat
      BY RequestFacts, RequestKinds DEF ReportRequest
    <2>6. FixesAreWellStamped'
      BY <2>1, <2>3, <2>4, <2>5 DEF TrackingInv, FixesAreWellStamped
    <2>7. (ReportsAreOfItsDriver /\ RoutesAreOfDeliveries /\ EstimateOfItsDriver)'
      BY <2>1 DEF TrackingInv, ReportsAreOfItsDriver, UnderWay, RoutesAreOfDeliveries,
                  EstimateOfItsDriver
    <2> QED
      BY <2>2, <2>6, <2>7 DEF TrackingInv
  <1>2. CASE UNCHANGED vars
    BY <1>2 DEF vars, rows, TrackingInv, TypeOK, FixesAreWellStamped, WellStamped,
       ReportsAreOfItsDriver, UnderWay, RoutesAreOfDeliveries, EstimateOfItsDriver
  <1> QED
    BY <1>1, <1>2, ReportInv, StorePositionInv, EstimateArrivalInv, SaveEstimateInv,
       AssignmentInv DEF Next

\* Stamps, reports under way and estimates agree with the assignments in every
\* behaviour (recordDriverLocation).
THEOREM TrackingCorrect == Spec => []TrackingInv
  <1> QED
    BY InitInv, NextInv, PTL DEF Spec

\* What customers are shown as live was taken at most MaxAge and StaleAfter ago
\* (getDeliveryTracking).
THEOREM LivePositionsAreRecent == Spec => []LiveIsRecent
  <1>1. TrackingInv => LiveIsRecent
    <2> SUFFICES ASSUME TrackingInv, NEW o \in Orders,
                        assignment[o].driver # None, ~IsStale(o),
                        DriverLocation(o).taken # None
                 PROVE  now - DriverLocation(o).taken <= MaxAge + StaleAfter
      BY DEF LiveIsRecent
    <2>1. PICK d \in Drivers : d = assignment[o].driver
      BY DEF TrackingInv, TypeOK, AssignmentRow
    <2>2. position[d] \in Position /\ position[d].taken \in Int
      BY <2>1 DEF TrackingInv, TypeOK, Position, DriverLocation
    <2>3. position[d].updated \in Nat /\ WellStamped(position[d].taken, position[d].updated)
      BY <2>1, <2>2, NullAssumption DEF TrackingInv, FixesAreWellStamped, DriverLocation, Position
    <2>4. now - position[d].updated <= StaleAfter
      BY <2>1, <2>3, NullAssumption, TimesAssumption
      DEF IsStale, DriverLocation, TrackingInv, TypeOK
    <2>5. position[d].updated - position[d].taken <= MaxAge
      BY <2>2, <2>3, NullAssumption DEF WellStamped
    <2>6. now \in Nat
      BY DEF TrackingInv, TypeOK
    <2> QED
      BY <2>1, <2>2, <2>3, <2>4, <2>5, <2>6, TimesAssumption DEF DriverLocation
  <1> QED
    BY <1>1, TrackingCorrect, PTL

\* An estimate is of the delivery's own driver unless an assignment overtook a report
\* of another (the update recordDriverLocation does not await).
THEOREM EstimatesAreOfTheirDriver == Spec => []EstimateOfItsDriver
  <1>1. TrackingInv => EstimateOfItsDriver
    BY DEF TrackingInv
  <1> QED
    BY <1>1, TrackingCorrect, PTL

-----------------------------------------------------------------------------
(* Gateway *)

\* Nobody is connected and nothing is told.
LEMMA NewsInit ==
    ASSUME GatewayInit
    PROVE  GatewayInv
  <1> USE DEF GatewayInit
  <1>1. GatewayTypeOK
    BY DEF GatewayTypeOK, DeliveryRow, DeliveryStatus, Rooms, Nothing,
           Unheard, GatewayRequest, IdleRequest, Idle
  <1>2. RoomsAreEarned /\ DriversAreCarriers
    BY DEF RoomsAreEarned, DriversAreCarriers, Connected, Idle
  <1>3. GoneIsForgotten /\ HearersStay
    BY DEF GoneIsForgotten, HearersStay, Nothing, Unheard
  <1>4. TellingIsTheRow
    BY DEF TellingIsTheRow, Untold, Idle
  <1>5. ScreensShowTheRow /\ NewsReachParties
    BY DEF ScreensShowTheRow, NewsReachParties, Nothing
  <1> QED
    BY <1>1, <1>2, <1>3, <1>4, <1>5 DEF GatewayInv

\* What the invariant says of one request.
Earned(r) == r.step = "join" /\ Connected(r.socket) =>
                MayHold(user[r.socket], r.room)
Carried(r) ==
    /\ r.step = "move" => r.driver \in carriers[r.order]
    /\ r.step = "tell" => r.event.driver \in carriers[r.order]
    /\ r.step = "report" /\ r.order # None => r.driver \in carriers[r.order]

\* What the invariant says of one socket and one order.
NewsOf(s, o) ==
    /\ screen[s][o] # Unheard \/ o \in calls[s] \/ (\E d \in Drivers : <<o, d>> \in trace[s])
         => Party(o, user[s])
    /\ \A d \in Drivers : <<o, d>> \in trace[s] => d \in carriers[o]

\* The step of a request tells its shape.
LEMMA NewsRequests ==
    ASSUME NEW r \in GatewayRequest
    PROVE  /\ r.step \in {"idle", "join", "move", "tell", "report"}
           /\ r.step = "join" => r \in JoinRequest
           /\ r.step = "move" => r \in MoveRequest
           /\ r.step = "tell" => r \in TellRequest
           /\ r.step = "report" => r \in PositionRequest
  BY DEF GatewayRequest, IdleRequest, JoinRequest, MoveRequest,
         TellRequest, PositionRequest

\* Serve changes the request of one worker.
LEMMA NewsServe ==
    ASSUME GatewayTypeOK, NEW w \in Workers, NEW r \in GatewayRequest, Serve(w, r)
    PROVE  /\ request' \in [Workers -> GatewayRequest]
           /\ \A v \in Workers : request'[v] = IF v = w THEN r ELSE request[v]
  BY DEF GatewayTypeOK, Serve

\* What the invariant says of a request at work.
LEMMA NewsFacts ==
    ASSUME GatewayInv, NEW w \in Workers
    PROVE  request[w] \in GatewayRequest /\ Earned(request[w]) /\ Carried(request[w])
  BY DEF GatewayInv, GatewayTypeOK, RoomsAreEarned, DriversAreCarriers,
         Earned, Carried

\* Only tellings matter to the rows on the screens.
LEMMA NewsUntold ==
    ASSUME GatewayInv, NEW w \in Workers, NEW r \in GatewayRequest, Serve(w, r),
           r.step # "tell", request[w].step # "tell",
           UNCHANGED <<row, screen, crossed>>
    PROVE  TellingIsTheRow' /\ ScreensShowTheRow'
  <1>1. \A v \in Workers : request'[v] = IF v = w THEN r ELSE request[v]
    BY NewsServe DEF GatewayInv
  <1>2. \A o \in Orders : Untold(o)' = Untold(o)
    BY <1>1 DEF Untold
  <1>3. TellingIsTheRow'
    BY <1>1, <1>2 DEF GatewayInv, TellingIsTheRow, Untold
  <1>4. ScreensShowTheRow'
    BY <1>2 DEF GatewayInv, ScreensShowTheRow
  <1> QED
    BY <1>3, <1>4

\* A request goes on, and nothing is told or moved.
LEMMA NewsRequest ==
    ASSUME GatewayInv, NEW w \in Workers, NEW r \in GatewayRequest, Serve(w, r),
           r.step # "tell", request[w].step # "tell", Earned(r), Carried(r),
           UNCHANGED <<row, user, rooms, screen, calls, trace, carriers, linked, crossed>>
    PROVE  GatewayInv'
  <1> USE DEF GatewayInv
  <1>1. /\ request' \in [Workers -> GatewayRequest]
        /\ \A v \in Workers : request'[v] = IF v = w THEN r ELSE request[v]
    BY NewsServe
  <1>2. GatewayTypeOK'
    BY <1>1 DEF GatewayTypeOK
  <1>3. RoomsAreEarned'
    BY <1>1 DEF RoomsAreEarned, Connected, MayHold, Party, Owns, Earned
  <1>4. DriversAreCarriers'
    BY <1>1 DEF DriversAreCarriers, Carried
  <1>5. GoneIsForgotten' /\ HearersStay' /\ NewsReachParties'
    BY DEF GoneIsForgotten, Connected, HearersStay, NewsReachParties,
           Party, Owns
  <1>6. TellingIsTheRow' /\ ScreensShowTheRow'
    BY NewsUntold
  <1> QED
    BY <1>2, <1>3, <1>4, <1>5, <1>6

\* A socket is connected.
LEMMA NewsConnect ==
    ASSUME GatewayInv, NEW s \in Sockets, NEW u \in Users, HandleConnection(s, u)
    PROVE  GatewayInv'
  <1> USE DEF GatewayInv, HandleConnection
  <1>1. \A t \in Sockets : user'[t] = IF t = s THEN u ELSE user[t]
    BY DEF GatewayTypeOK
  <1>2. ~Connected(s)
    BY DEF Connected
  <1>3. GatewayTypeOK'
    BY DEF GatewayTypeOK, ears
  <1>4. RoomsAreEarned'
    <2>1. (\A t \in Sockets : Connected(t) =>
            \A room \in rooms[t] : MayHold(user[t], room))'
      BY <1>1, <1>2 DEF RoomsAreEarned, GoneIsForgotten, Connected,
            MayHold, Party, Owns
    <2>2. (\A w \in Workers : request[w].step = "join" /\ Connected(request[w].socket) =>
            MayHold(user[request[w].socket], request[w].room))'
      <3> SUFFICES ASSUME NEW w \in Workers, request[w].step = "join",
                          Connected(request[w].socket)'
                   PROVE  MayHold(user[request[w].socket], request[w].room)'
        OBVIOUS
      <3>1. request[w].socket \in Sockets
        BY NewsFacts, NewsRequests DEF JoinRequest
      <3>2. user'[request[w].socket] = user[request[w].socket]
        BY <3>1, <1>1
      <3> QED
        BY <3>2 DEF RoomsAreEarned, Connected, MayHold, Party, Owns
    <2> QED
      BY <2>1, <2>2 DEF RoomsAreEarned
  <1>5. DriversAreCarriers' /\ HearersStay'
    BY DEF DriversAreCarriers, HearersStay, ears
  <1>6. GoneIsForgotten'
    BY <1>1 DEF GoneIsForgotten, Connected, ears
  <1>7. TellingIsTheRow' /\ ScreensShowTheRow'
    BY DEF TellingIsTheRow, ScreensShowTheRow, Untold, ears
  <1>8. NewsReachParties'
    <2> SUFFICES ASSUME NEW t \in Sockets, NEW o \in Orders
                 PROVE  NewsOf(t, o)'
      BY DEF NewsReachParties, NewsOf
    <2>1. CASE t = s
      BY <1>2, <2>1 DEF NewsOf, GoneIsForgotten, Nothing, ears
    <2>2. CASE t # s
      BY <1>1, <2>2 DEF NewsOf, NewsReachParties, Party, Owns, ears
    <2> QED
      BY <2>1, <2>2
  <1> QED
    BY <1>3, <1>4, <1>5, <1>6, <1>7, <1>8

\* A connection is lost, and with it what was heard.
LEMMA NewsDisconnect ==
    ASSUME GatewayInv, NEW s \in Sockets, HandleDisconnect(s)
    PROVE  GatewayInv'
  <1> USE DEF GatewayInv, HandleDisconnect
  <1>1. /\ \A t \in Sockets \ {s} : /\ user'[t] = user[t] /\ rooms'[t] = rooms[t]
                                    /\ screen'[t] = screen[t] /\ calls'[t] = calls[t]
                                    /\ trace'[t] = trace[t]
        /\ user'[s] = None /\ rooms'[s] = {} /\ screen'[s] = Nothing
        /\ calls'[s] = {} /\ trace'[s] = {}
    BY DEF GatewayTypeOK
  <1>2. \A o \in Orders : Nothing[o] = Unheard
    BY DEF Nothing
  <1>3. GatewayTypeOK'
    BY DEF GatewayTypeOK, Nothing
  <1>4. RoomsAreEarned'
    <2>1. (\A t \in Sockets : Connected(t) =>
            \A room \in rooms[t] : MayHold(user[t], room))'
      BY <1>1 DEF RoomsAreEarned, Connected, MayHold, Party, Owns
    <2>2. (\A w \in Workers : request[w].step = "join" /\ Connected(request[w].socket) =>
            MayHold(user[request[w].socket], request[w].room))'
      <3> SUFFICES ASSUME NEW w \in Workers, request[w].step = "join",
                          Connected(request[w].socket)'
                   PROVE  MayHold(user[request[w].socket], request[w].room)'
        OBVIOUS
      <3>1. request[w].socket \in Sockets
        BY NewsFacts, NewsRequests DEF JoinRequest
      <3>2. user'[request[w].socket] = user[request[w].socket]
        BY <3>1, <1>1 DEF Connected
      <3> QED
        BY <3>2 DEF RoomsAreEarned, Connected, MayHold, Party, Owns
    <2> QED
      BY <2>1, <2>2 DEF RoomsAreEarned
  <1>5. DriversAreCarriers'
    BY DEF DriversAreCarriers
  <1>6. GoneIsForgotten'
    BY <1>1 DEF GoneIsForgotten, Connected, Nothing
  <1>7. HearersStay'
    BY <1>1, <1>2 DEF HearersStay
  <1>8. TellingIsTheRow' /\ ScreensShowTheRow'
    BY <1>1, <1>2 DEF TellingIsTheRow, ScreensShowTheRow, Untold
  <1>9. NewsReachParties'
    <2> SUFFICES ASSUME NEW t \in Sockets, NEW o \in Orders
                 PROVE  NewsOf(t, o)'
      BY DEF NewsReachParties, NewsOf
    <2>1. CASE t = s
      BY <1>1, <1>2, <2>1 DEF NewsOf
    <2>2. CASE t # s
      BY <1>1, <2>2 DEF NewsOf, NewsReachParties, Party, Owns
    <2> QED
      BY <2>1, <2>2
  <1> QED
    BY <1>3, <1>4, <1>5, <1>6, <1>7, <1>8, <1>9

\* A socket that is connected joins a room that its user may be in.
LEMMA NewsJoinRoom ==
    ASSUME GatewayInv, NEW s \in Sockets, Connected(s),
           NEW room \in Rooms, MayHold(user[s], room),
           rooms' = [rooms EXCEPT ![s] = @ \cup {room}],
           UNCHANGED <<row, user, screen, calls, trace, carriers, linked, crossed, request>>
    PROVE  GatewayInv'
  <1> USE DEF GatewayInv
  <1>1. \A t \in Sockets : rooms'[t] = IF t = s THEN rooms[t] \cup {room} ELSE rooms[t]
    BY DEF GatewayTypeOK
  <1>2. GatewayTypeOK'
    BY DEF GatewayTypeOK
  <1>3. RoomsAreEarned'
    BY <1>1 DEF RoomsAreEarned, Connected, MayHold, Party, Owns
  <1>4. DriversAreCarriers' /\ GoneIsForgotten' /\ HearersStay'
    BY <1>1 DEF DriversAreCarriers, GoneIsForgotten, Connected, HearersStay
  <1>5. TellingIsTheRow' /\ ScreensShowTheRow' /\ NewsReachParties'
    BY DEF TellingIsTheRow, ScreensShowTheRow, Untold, NewsReachParties,
           Party, Owns
  <1> QED
    BY <1>2, <1>3, <1>4, <1>5

\* The rows were read and the socket may join; until it does, a request remembers.
LEMMA NewsJoinOrder ==
    ASSUME GatewayInv, NEW w \in Workers, NEW s \in Sockets, NEW o \in Orders,
           HandleJoinOrder(w, s, o)
    PROVE  GatewayInv'
  <1> USE DEF HandleJoinOrder
  <1>1. PICK r : r = [step |-> "join", socket |-> s, room |-> OrderRoom(o)]
    OBVIOUS
  <1>2. r \in GatewayRequest
    BY <1>1 DEF GatewayRequest, JoinRequest, Rooms
  <1>3. Party(o, user[s])
    BY DEF MayJoinOrder, Party, Owns, Connected, GatewayInv, DriversAreCarriers
  <1>4. Earned(r) /\ Carried(r)
    BY <1>1, <1>3 DEF Earned, Carried, MayHold
  <1> QED
    BY <1>1, <1>2, <1>4, NewsRequest DEF Idle, ears

\* A driver's room is joined by that driver alone.
LEMMA NewsJoinDriver ==
    ASSUME GatewayInv, NEW w \in Workers, NEW s \in Sockets, HandleJoinDriver(w, s)
    PROVE  GatewayInv'
  <1> USE DEF HandleJoinDriver
  <1>1. PICK r : r = [step |-> "join", socket |-> s, room |-> DriverRoom(user[s])]
    OBVIOUS
  <1>2. r \in GatewayRequest
    BY <1>1 DEF GatewayRequest, JoinRequest, Rooms
  <1>3. Earned(r) /\ Carried(r)
    BY <1>1 DEF Earned, Carried, MayHold
  <1> QED
    BY <1>1, <1>2, <1>3, NewsRequest DEF Idle, ears

\* The driver who is to move has the order.
LEMMA NewsTransition ==
    ASSUME GatewayInv, NEW w \in Workers, NEW o \in Orders,
           TransitionDeliveryStatus(w, o)
    PROVE  GatewayInv'
  <1> USE DEF TransitionDeliveryStatus
  <1>1. row[o] \in DeliveryRow
    BY DEF GatewayInv, GatewayTypeOK
  <1>2. PICK s \in ValidTransitions(row[o].status) :
            Serve(w, [step |-> "move", order |-> o, driver |-> row[o].driver,
                           from |-> row[o].status, to |-> s])
    OBVIOUS
  <1>3. PICK r : r = [step |-> "move", order |-> o, driver |-> row[o].driver,
                      from |-> row[o].status, to |-> s]
    OBVIOUS
  <1>4. s \in DeliveryStatus
    BY <1>1, <1>2 DEF ValidTransitions, DeliveryRow, DeliveryStatus
  <1>5. r \in GatewayRequest
    BY <1>1, <1>3, <1>4 DEF GatewayRequest, MoveRequest, DeliveryRow
  <1>6. Earned(r) /\ Carried(r)
    BY <1>3 DEF Earned, Carried, GatewayInv, DriversAreCarriers
  <1> QED
    BY <1>2, <1>3, <1>5, <1>6, NewsRequest DEF Idle, ears

\* A position is of an order that the driver has, or of none.
LEMMA NewsReport ==
    ASSUME GatewayInv, NEW w \in Workers, NEW d \in Drivers,
           None \notin Drivers, HandleLocationUpdate(w, d)
    PROVE  GatewayInv'
  <1> USE DEF HandleLocationUpdate
  <1>1. PICK o \in IF ActiveDeliveriesOf(d) = {} THEN {None} ELSE ActiveDeliveriesOf(d) :
            Serve(w, [step |-> "report", order |-> o, driver |-> d])
    OBVIOUS
  <1>2. PICK r : r = [step |-> "report", order |-> o, driver |-> d]
    OBVIOUS
  <1>3. o = None \/ (o \in Orders /\ row[o].driver = d)
    BY DEF ActiveDeliveriesOf
  <1>4. r \in GatewayRequest
    BY <1>2, <1>3 DEF GatewayRequest, PositionRequest
  <1>5. Earned(r) /\ Carried(r)
    BY <1>2, <1>3 DEF Earned, Carried, GatewayInv, DriversAreCarriers
  <1> QED
    BY <1>1, <1>2, <1>4, <1>5, NewsRequest DEF Idle, ears

\* A request that ends remembers nothing.
LEMMA NewsIdle ==
    /\ Idle \in GatewayRequest /\ Idle.step = "idle"
    /\ Earned(Idle) /\ Carried(Idle)
  BY DEF Idle, GatewayRequest, IdleRequest, Earned, Carried

\* client.join: the socket is in the room if it is still connected.
LEMMA NewsJoin ==
    ASSUME GatewayInv, NEW w \in Workers, Join(w)
    PROVE  GatewayInv'
  <1> DEFINE s == request[w].socket
  <1>1. /\ request[w].step = "join" /\ s \in Sockets /\ request[w].room \in Rooms
        /\ Serve(w, Idle)
    BY NewsFacts, NewsRequests DEF Join, JoinRequest, Finish
  <1>2. /\ request' \in [Workers -> GatewayRequest]
        /\ \A v \in Workers : request'[v] = IF v = w THEN Idle ELSE request[v]
    BY <1>1, NewsServe, NewsIdle DEF GatewayInv
  <1>3. /\ UNCHANGED <<row, user, screen, calls, trace, carriers, linked, crossed>>
        /\ rooms' = IF Connected(s)
                    THEN [rooms EXCEPT ![s] = @ \cup {request[w].room}] ELSE rooms
    BY DEF Join, ears
  <1>4. Connected(s) => MayHold(user[s], request[w].room)
    BY <1>1, NewsFacts DEF Earned
  <1>5. \A t \in Sockets :
            rooms'[t] = IF t = s /\ Connected(s)
                        THEN rooms[t] \cup {request[w].room} ELSE rooms[t]
    BY <1>3 DEF GatewayInv, GatewayTypeOK
  <1> HIDE DEF s
  <1> USE DEF GatewayInv
  <1>6. GatewayTypeOK'
    BY <1>1, <1>2, <1>3 DEF GatewayTypeOK
  <1>7. RoomsAreEarned'
    BY <1>2, <1>3, <1>4, <1>5, NewsIdle
       DEF RoomsAreEarned, Connected, MayHold, Party, Owns
  <1>8. DriversAreCarriers'
    BY <1>2, <1>3, NewsIdle DEF DriversAreCarriers
  <1>9. GoneIsForgotten' /\ HearersStay'
    BY <1>3, <1>5 DEF GoneIsForgotten, Connected, HearersStay
  <1>10. TellingIsTheRow' /\ ScreensShowTheRow'
    BY <1>1, <1>3, NewsUntold, NewsIdle
  <1>11. NewsReachParties'
    BY <1>3 DEF NewsReachParties, Party, Owns
  <1> QED
    BY <1>6, <1>7, <1>8, <1>9, <1>10, <1>11

\* The admins' room is joined by staff, in one step.
LEMMA NewsJoinAdmin ==
    ASSUME GatewayInv, None \notin Staff, NEW s \in Sockets, HandleJoinAdmin(s)
    PROVE  GatewayInv'
  <1>1. AdminRoom \in Rooms /\ MayHold(user[s], AdminRoom)
    BY DEF HandleJoinAdmin, Rooms, MayHold
  <1>2. Connected(s)
    BY DEF HandleJoinAdmin, Connected
  <1> QED
    BY <1>1, <1>2, NewsJoinRoom DEF HandleJoinAdmin, ears

\* A commit of an order and the telling it leaves behind: the event is the row, unless
\* the order is marked.
LEMMA NewsCommit ==
    ASSUME GatewayInv, NEW w \in Workers, request[w].step # "tell",
           NEW o \in Orders, NEW new \in DeliveryRow, NEW e \in Event,
           row' = [row EXCEPT ![o] = new],
           carriers' \in [Orders -> SUBSET Drivers],
           \A p \in Orders : carriers[p] \subseteq carriers'[p],
           new.driver \in carriers'[o] \cup {None}, e.driver \in carriers'[o],
           Serve(w, [step |-> "tell", order |-> o, event |-> e]),
           NEW open, Cross(o, open), ~open => Untold(o) = {} /\ e = new,
           Untold(o) # {} => open,
           UNCHANGED <<user, rooms, screen, calls, trace, linked>>
    PROVE  GatewayInv'
  <1>1. PICK r : r = [step |-> "tell", order |-> o, event |-> e]
    OBVIOUS
  <1>2. r \in GatewayRequest
    BY <1>1 DEF GatewayRequest, TellRequest
  <1>3. /\ request' \in [Workers -> GatewayRequest]
        /\ \A v \in Workers : request'[v] = IF v = w THEN r ELSE request[v]
    BY <1>1, <1>2, NewsServe DEF GatewayInv
  <1>4. r.step = "tell" /\ r.order = o /\ r.event = e
    BY <1>1
  <1>5. \A p \in Orders : row'[p] = IF p = o THEN new ELSE row[p]
    BY DEF GatewayInv, GatewayTypeOK
  <1>6. \A p \in Orders : Untold(p)' = IF p = o THEN Untold(o) \cup {w}
                                            ELSE Untold(p)
    BY <1>3, <1>4 DEF Untold
  <1>7. /\ crossed' \subseteq Orders
        /\ \A p \in Orders : p # o => (p \in crossed' <=> p \in crossed)
        /\ open => o \in crossed'
    BY DEF Cross, GatewayInv, GatewayTypeOK
  <1> USE DEF GatewayInv
  <1>8. GatewayTypeOK'
    BY <1>3, <1>7 DEF GatewayTypeOK
  <1>9. RoomsAreEarned'
    <2>1. ASSUME NEW s \in Sockets, NEW room, MayHold(user[s], room)
          PROVE  MayHold(user[s], room)'
      <3>1. CASE room = AdminRoom /\ user[s] \in Staff
        BY <3>1 DEF MayHold, AdminRoom
      <3>2. ASSUME NEW p \in Orders, room = OrderRoom(p), Party(p, user[s])
            PROVE  MayHold(user[s], room)'
        <4>1. Party(p, user[s])'
          BY <3>2 DEF Party, Owns
        <4> QED
          BY <3>2, <4>1 DEF MayHold, OrderRoom
      <3>3. CASE \E d \in Drivers : room = DriverRoom(d) /\ user[s] = d
        BY <3>3 DEF MayHold, DriverRoom
      <3> QED
        BY <2>1, <3>1, <3>2, <3>3 DEF MayHold
    <2>2. (\A s \in Sockets : Connected(s) =>
            \A room \in rooms[s] : MayHold(user[s], room))'
      BY <2>1 DEF RoomsAreEarned, Connected
    <2>3. ASSUME NEW v \in Workers, request'[v].step = "join", Connected(request[v].socket)'
          PROVE  MayHold(user[request[v].socket], request[v].room)'
      <3>1. request'[v] = request[v]
        BY <1>3, <1>4, <2>3
      <3>2. request[v].socket \in Sockets
        BY <2>3, <3>1, NewsFacts, NewsRequests DEF JoinRequest
      <3>3. MayHold(user[request[v].socket], request[v].room)
        BY <2>3, <3>1 DEF RoomsAreEarned, Connected
      <3>4. PICK s \in Sockets, room \in {request[v].room} : s = request[v].socket
        BY <3>2
      <3>5. MayHold(user[s], room)'
        BY <2>1, <3>3, <3>4
      <3> QED
        BY <3>1, <3>4, <3>5 DEF MayHold
    <2> QED
      BY <2>2, <2>3 DEF RoomsAreEarned
  <1>10. DriversAreCarriers'
    <2>1. \A p \in Orders : row'[p].driver \in carriers'[p] \cup {None}
      BY <1>5 DEF DriversAreCarriers
    <2>2. \A v \in Workers : Carried(request[v])'
      <3> SUFFICES ASSUME NEW v \in Workers, v # w
                   PROVE  Carried(request[v])'
        BY <1>3, <1>4 DEF Carried
      <3>1. request'[v] = request[v] /\ Carried(request[v]) /\ request[v] \in GatewayRequest
        BY <1>3, NewsFacts
      <3> QED
        BY <3>1, NewsRequests
           DEF Carried, MoveRequest, TellRequest, PositionRequest
    <2> QED
      BY <2>1, <2>2 DEF DriversAreCarriers, Carried
  <1>11. GoneIsForgotten' /\ HearersStay'
    BY DEF GoneIsForgotten, Connected, HearersStay
  <1>12. TellingIsTheRow'
    <2> SUFFICES ASSUME NEW p \in Orders, p \notin crossed', NEW v \in Untold(p)'
                 PROVE  Untold(p)' = {v} /\ request'[v].event = row'[p]
      BY DEF TellingIsTheRow
    <2>1. CASE p = o
      BY <1>3, <1>4, <1>5, <1>6, <1>7, <2>1
    <2>2. CASE p # o
      <3>1. Untold(p)' = Untold(p) /\ p \notin crossed /\ row'[p] = row[p]
        BY <1>5, <1>6, <1>7, <2>2
      <3>2. v # w /\ v \in Workers
        BY <3>1 DEF Untold
      <3> QED
        BY <1>3, <3>1, <3>2 DEF TellingIsTheRow
    <2> QED
      BY <2>1, <2>2
  <1>13. ScreensShowTheRow'
    BY <1>5, <1>6, <1>7 DEF ScreensShowTheRow
  <1>14. NewsReachParties'
    BY DEF NewsReachParties, Party, Owns
  <1> QED
    BY <1>8, <1>9, <1>10, <1>11, <1>12, <1>13, <1>14

\* An assignment makes its driver one of the carriers.
LEMMA NewsAssign ==
    ASSUME GatewayInv, NEW w \in Workers, NEW o \in Orders, NEW d \in Drivers,
           AssignDriverToOrder(w, o, d)
    PROVE  GatewayInv'
  <1>1. PICK e : e = [driver |-> d, status |-> "ASSIGNED"]
    OBVIOUS
  <1>2. e \in Event /\ e \in DeliveryRow /\ e.driver = d
    BY <1>1 DEF Event, DeliveryRow, DeliveryStatus
  <1>3. /\ row' = [row EXCEPT ![o] = e]
        /\ Serve(w, [step |-> "tell", order |-> o, event |-> e])
        /\ Cross(o, Untold(o) # {})
        /\ request[w].step # "tell"
        /\ UNCHANGED <<user, rooms, screen, calls, trace, linked>>
    BY <1>1 DEF AssignDriverToOrder, Idle, ears
  <1>4. /\ carriers' \in [Orders -> SUBSET Drivers]
        /\ \A p \in Orders : carriers[p] \subseteq carriers'[p]
        /\ d \in carriers'[o]
    BY DEF AssignDriverToOrder, GatewayInv, GatewayTypeOK
  <1> QED
    BY <1>2, <1>3, <1>4, NewsCommit

\* A transition keeps the driver of the row, and tells the one it read.
LEMMA NewsWrite ==
    ASSUME GatewayInv, NEW w \in Workers, WriteTransition(w)
    PROVE  GatewayInv'
  <1>1. PICK r : r = request[w]
    OBVIOUS
  <1>2. r \in MoveRequest /\ r.driver \in carriers[r.order] /\ r.step = "move"
    BY <1>1, NewsFacts, NewsRequests DEF WriteTransition, Carried
  <1>3. /\ r.order \in Orders /\ r.driver \in Drivers /\ r.to \in DeliveryStatus
        /\ row[r.order] \in DeliveryRow
    BY <1>2 DEF MoveRequest, GatewayInv, GatewayTypeOK
  <1>4. PICK e : e = [driver |-> r.driver, status |-> r.to]
    OBVIOUS
  <1>5. PICK new : new = [driver |-> row[r.order].driver, status |-> r.to]
    OBVIOUS
  <1>6. /\ e \in Event /\ new \in DeliveryRow
        /\ e.driver = r.driver /\ new.driver = row[r.order].driver
        /\ row[r.order].driver = r.driver => e = new
    BY <1>3, <1>4, <1>5 DEF Event, DeliveryRow
  <1>7. /\ row' = [row EXCEPT ![r.order] = new]
        /\ Serve(w, [step |-> "tell", order |-> r.order, event |-> e])
        /\ Cross(r.order, Untold(r.order) # {} \/ row[r.order].driver # r.driver)
        /\ UNCHANGED <<user, rooms, screen, calls, trace, carriers, linked>>
    BY <1>1, <1>3, <1>4, <1>5
       DEF WriteTransition, StatusEvent, ears, GatewayInv, GatewayTypeOK
  <1>8. /\ carriers' \in [Orders -> SUBSET Drivers]
        /\ new.driver \in carriers'[r.order] \cup {None}
    BY <1>3, <1>6, <1>7 DEF GatewayInv, GatewayTypeOK, DriversAreCarriers
  <1> QED
    BY <1>1, <1>2, <1>3, <1>6, <1>7, <1>8, NewsCommit

\* Whoever is in a room of an order is one of its parties.
LEMMA NewsRooms ==
    ASSUME GatewayInv, NEW s \in Sockets, NEW o \in Orders
    PROVE  /\ In(s, OrderRoom(o)) \/ In(s, AdminRoom)
                => Party(o, user[s])
           /\ \A d \in Drivers : In(s, DriverRoom(d)) => user[s] = d
  <1>1. \A room : In(s, room) => MayHold(user[s], room)
    BY DEF GatewayInv, RoomsAreEarned, In
  <1>2. \A p \in Orders : OrderRoom(o) # AdminRoom /\
                          (OrderRoom(p) = OrderRoom(o) => p = o)
    <2> SUFFICES ASSUME NEW p \in Orders
                 PROVE  /\ OrderRoom(o).kind # AdminRoom.kind
                        /\ OrderRoom(p).order = p /\ OrderRoom(o).order = o
      OBVIOUS
    <2> QED
      BY DEF OrderRoom, AdminRoom
  <1>3. \A d \in Drivers : OrderRoom(o).kind # DriverRoom(d).kind
    BY DEF OrderRoom, DriverRoom
  <1>4. ASSUME NEW d \in Drivers, In(s, DriverRoom(d))
        PROVE  user[s] = d
    <2>1. /\ DriverRoom(d).kind = "driver" /\ DriverRoom(d).driver = d
          /\ AdminRoom.kind = "admin"
          /\ \A p \in Orders : OrderRoom(p).kind = "order"
          /\ \A e \in Drivers : DriverRoom(e).driver = e
      BY DEF OrderRoom, DriverRoom, AdminRoom
    <2> QED
      BY <1>1, <1>4, <2>1 DEF MayHold
  <1>5. CASE In(s, OrderRoom(o))
    BY <1>1, <1>2, <1>3, <1>4, <1>5 DEF MayHold
  <1>6. CASE In(s, AdminRoom)
    <2>1. /\ AdminRoom.kind = "admin"
          /\ \A p \in Orders : OrderRoom(p).kind = "order"
          /\ \A d \in Drivers : DriverRoom(d).kind = "driver"
      BY DEF OrderRoom, DriverRoom, AdminRoom
    <2>2. user[s] \in Staff
      BY <1>1, <1>6, <2>1 DEF MayHold
    <2> QED
      BY <1>4, <2>2 DEF Party, Owns
  <1> QED
    BY <1>4, <1>5, <1>6

\* A commit is told in three rooms.
LEMMA NewsBroadcast ==
    ASSUME GatewayInv, NEW w \in Workers, Broadcast(w)
    PROVE  GatewayInv'
  <1>1. PICK r : r = request[w]
    OBVIOUS
  <1>2. /\ r.step = "tell" /\ r \in TellRequest /\ r.event.driver \in carriers[r.order]
        /\ Serve(w, Idle)
        /\ UNCHANGED <<row, user, rooms, trace, carriers, linked, crossed>>
    BY <1>1, NewsFacts, NewsRequests DEF Broadcast, Finish, Carried
  <1>3. r.order \in Orders /\ r.event \in Event /\ r.event.driver \in Drivers
    BY <1>2 DEF TellRequest, Event
  <1>4. /\ request' \in [Workers -> GatewayRequest]
        /\ \A v \in Workers : request'[v] = IF v = w THEN Idle ELSE request[v]
    BY <1>2, NewsServe, NewsIdle DEF GatewayInv
  <1>5. /\ screen' \in [Sockets -> [Orders -> Event \cup {Unheard}]]
        /\ \A s \in Sockets, o \in Orders :
            screen'[s][o] = IF o = r.order /\ (In(s, OrderRoom(o)) \/ In(s, AdminRoom))
                            THEN r.event ELSE screen[s][o]
    BY <1>1, <1>3 DEF Broadcast, GatewayInv, GatewayTypeOK
  <1>6. /\ calls' \in [Sockets -> SUBSET Orders]
        /\ \A s \in Sockets :
            calls'[s] = IF In(s, DriverRoom(r.event.driver))
                        THEN calls[s] \cup {r.order} ELSE calls[s]
    BY <1>1, <1>3 DEF Broadcast, GatewayInv, GatewayTypeOK
  <1>7. \A o \in Orders : Untold(o)' = Untold(o) \ {w}
    BY <1>4, NewsIdle DEF Untold
  <1>8. \A o \in Orders : w \in Untold(o) <=> o = r.order
    BY <1>1, <1>2 DEF Untold
  <1> USE DEF GatewayInv
  <1>9. GatewayTypeOK'
    BY <1>2, <1>4, <1>5, <1>6 DEF GatewayTypeOK
  <1>10. RoomsAreEarned' /\ DriversAreCarriers'
    BY <1>2, <1>4, NewsIdle DEF RoomsAreEarned, DriversAreCarriers, Connected,
        MayHold, Party, Owns
  <1>11. GoneIsForgotten'
    <2> SUFFICES ASSUME NEW s \in Sockets, ~Connected(s)
                 PROVE  rooms[s] = {} /\ screen'[s] = Nothing /\ calls'[s] = {} /\ trace[s] = {}
      BY <1>2 DEF GoneIsForgotten, Connected, Nothing
    <2>1. \A o \in Orders : screen'[s][o] = Unheard
      BY <1>5 DEF In, GoneIsForgotten, Nothing
    <2>2. screen'[s] = Nothing
      BY <1>5, <2>1 DEF Nothing
    <2> QED
      BY <1>6, <2>2 DEF In, GoneIsForgotten
  <1>12. HearersStay'
    BY <1>2, <1>5 DEF HearersStay, In, OrderRoom, AdminRoom
  <1>13. TellingIsTheRow'
    <2> SUFFICES ASSUME NEW o \in Orders, o \notin crossed, NEW v \in Untold(o)'
                 PROVE  Untold(o)' = {v} /\ request'[v].event = row[o]
      BY <1>2 DEF TellingIsTheRow
    <2>1. v \in Untold(o) /\ v # w /\ v \in Workers
      BY <1>7 DEF Untold
    <2>2. Untold(o) = {v} /\ request[v].event = row[o]
      BY <2>1 DEF TellingIsTheRow
    <2> QED
      BY <1>4, <1>7, <2>1, <2>2
  <1>14. ScreensShowTheRow'
    <2> SUFFICES ASSUME NEW s \in Sockets, NEW o \in Orders, screen'[s][o] # Unheard,
                        o \notin crossed, Untold(o)' = {}
                 PROVE  screen'[s][o] = row[o]
      BY <1>2 DEF ScreensShowTheRow, Unheard
    <2>1. CASE o = r.order
      <3>1. r.event = row[o]
        BY <1>1, <1>8, <2>1 DEF TellingIsTheRow
      <3>2. In(s, OrderRoom(o)) \/ In(s, AdminRoom)
        <4> SUFFICES ASSUME screen[s][o] # Unheard
                     PROVE  In(s, OrderRoom(o)) \/ In(s, AdminRoom)
          BY <1>5
        <4>1. Connected(s)
          BY DEF GoneIsForgotten, Nothing
        <4> QED
          BY <4>1 DEF HearersStay, In
      <3> QED
        BY <1>5, <2>1, <3>1, <3>2
    <2>2. CASE o # r.order
      BY <1>5, <1>7, <1>8, <2>2 DEF ScreensShowTheRow
    <2> QED
      BY <2>1, <2>2
  <1>15. NewsReachParties'
    <2> SUFFICES ASSUME NEW s \in Sockets, NEW o \in Orders
                 PROVE  NewsOf(s, o)'
      BY DEF NewsReachParties, NewsOf
    <2>1. NewsOf(s, o)
      BY DEF NewsReachParties, NewsOf
    <2>2. Party(o, user[s])' <=> Party(o, user[s])
      BY <1>2 DEF Party, Owns
    <2>3. screen'[s][o] # Unheard => screen[s][o] # Unheard \/ Party(o, user[s])
      BY <1>5, NewsRooms
    <2>4. o \in calls'[s] => o \in calls[s] \/ Party(o, user[s])
      <3> SUFFICES ASSUME o = r.order, In(s, DriverRoom(r.event.driver))
                   PROVE  Party(o, user[s])
        BY <1>6
      <3>1. user[s] = r.event.driver
        BY <1>3, NewsRooms
      <3> QED
        BY <1>2, <3>1 DEF Party, Owns
    <2> QED
      BY <1>2, <2>1, <2>2, <2>3, <2>4 DEF NewsOf, Unheard
  <1> QED
    BY <1>9, <1>10, <1>11, <1>12, <1>13, <1>14, <1>15

\* A position goes to the order's room and the admins'.
LEMMA NewsPosition ==
    ASSUME GatewayInv, NEW w \in Workers, BroadcastLocation(w)
    PROVE  GatewayInv'
  <1>1. PICK r : r = request[w]
    OBVIOUS
  <1>2. /\ r.step = "report" /\ r \in PositionRequest
        /\ r.order # None => r.driver \in carriers[r.order]
        /\ Serve(w, Idle)
        /\ UNCHANGED <<row, user, rooms, screen, calls, carriers, linked, crossed>>
    BY <1>1, NewsFacts, NewsRequests DEF BroadcastLocation, Finish, Carried
  <1>3. r.order \in Orders \cup {None} /\ r.driver \in Drivers
    BY <1>2 DEF PositionRequest
  <1>4. /\ request' \in [Workers -> GatewayRequest]
        /\ \A v \in Workers : request'[v] = IF v = w THEN Idle ELSE request[v]
    BY <1>2, NewsServe, NewsIdle DEF GatewayInv
  <1>5. LocationEvent(r) \in SUBSET (Orders \X Drivers)
    BY <1>3 DEF LocationEvent
  <1>6. /\ trace' \in [Sockets -> SUBSET (Orders \X Drivers)]
        /\ \A s \in Sockets :
            trace'[s] = IF In(s, AdminRoom) \/ In(s, OrderRoom(r.order))
                        THEN trace[s] \cup LocationEvent(r) ELSE trace[s]
    BY <1>1, <1>5 DEF BroadcastLocation, GatewayInv, GatewayTypeOK
  <1> USE DEF GatewayInv
  <1>7. GatewayTypeOK'
    BY <1>2, <1>4, <1>6 DEF GatewayTypeOK
  <1>8. RoomsAreEarned' /\ DriversAreCarriers'
    BY <1>2, <1>4, NewsIdle DEF RoomsAreEarned, DriversAreCarriers, Connected,
        MayHold, Party, Owns
  <1>9. GoneIsForgotten' /\ HearersStay'
    BY <1>2, <1>6 DEF GoneIsForgotten, HearersStay, In, Connected
  <1>10. TellingIsTheRow' /\ ScreensShowTheRow'
    BY <1>1, <1>2, NewsUntold, NewsIdle
  <1>11. NewsReachParties'
    <2> SUFFICES ASSUME NEW s \in Sockets, NEW o \in Orders
                 PROVE  NewsOf(s, o)'
      BY DEF NewsReachParties, NewsOf
    <2>1. NewsOf(s, o)
      BY DEF NewsReachParties, NewsOf
    <2>2. Party(o, user[s])' <=> Party(o, user[s])
      BY <1>2 DEF Party, Owns
    <2>3. ASSUME NEW d \in Drivers, <<o, d>> \in trace'[s], <<o, d>> \notin trace[s]
          PROVE  d \in carriers[o] /\ Party(o, user[s])
      <3>1. /\ <<o, d>> \in LocationEvent(r)
            /\ In(s, AdminRoom) \/ In(s, OrderRoom(r.order))
        BY <1>6, <2>3
      <3>2. r.order # None /\ o = r.order /\ d = r.driver
        BY <3>1 DEF LocationEvent
      <3> QED
        BY <1>2, <3>1, <3>2, NewsRooms
    <2> QED
      BY <1>2, <2>1, <2>2, <2>3 DEF NewsOf
  <1> QED
    BY <1>7, <1>8, <1>9, <1>10, <1>11

\* An event that is lost marks its order.
LEMMA NewsGiveUp ==
    ASSUME GatewayInv, NEW w \in Workers, GiveUp(w)
    PROVE  GatewayInv'
  <1>1. /\ Serve(w, Idle)
        /\ UNCHANGED <<row, user, rooms, screen, calls, trace, carriers, linked>>
    BY DEF GiveUp, Finish, ears
  <1>2. CASE request[w].step # "tell"
    BY <1>1, <1>2, NewsIdle, NewsRequest DEF GiveUp
  <1>3. CASE request[w].step = "tell"
    <2>1. request[w].order \in Orders
      BY <1>3, NewsFacts, NewsRequests DEF TellRequest
    <2>2. /\ request' \in [Workers -> GatewayRequest]
          /\ \A v \in Workers : request'[v] = IF v = w THEN Idle ELSE request[v]
      BY <1>1, NewsServe, NewsIdle DEF GatewayInv
    <2>3. \A o \in Orders : Untold(o)' = Untold(o) \ {w}
      BY <2>2, NewsIdle DEF Untold
    <2>4. crossed' = crossed \cup {request[w].order}
      BY <1>3 DEF GiveUp
    <2>5. \A o \in Orders : o \notin crossed' => o \notin crossed /\ Untold(o)' = Untold(o)
      BY <1>3, <2>3, <2>4 DEF Untold
    <2> USE DEF GatewayInv
    <2>6. GatewayTypeOK'
      BY <1>1, <2>1, <2>2, <2>4 DEF GatewayTypeOK
    <2>7. RoomsAreEarned' /\ DriversAreCarriers'
      BY <1>1, <2>2, NewsIdle DEF RoomsAreEarned, DriversAreCarriers, Connected,
          MayHold, Party, Owns
    <2>8. GoneIsForgotten' /\ HearersStay' /\ NewsReachParties'
      BY <1>1 DEF GoneIsForgotten, HearersStay, Connected,
          NewsReachParties, Party, Owns
    <2>9. TellingIsTheRow'
      <3> SUFFICES ASSUME NEW o \in Orders, o \notin crossed', NEW v \in Untold(o)'
                   PROVE  Untold(o)' = {v} /\ request'[v].event = row[o]
        BY <1>1 DEF TellingIsTheRow
      <3>1. v \in Untold(o) /\ v # w /\ v \in Workers /\ o \notin crossed
        BY <2>3, <2>5 DEF Untold
      <3> QED
        BY <2>2, <2>5, <3>1 DEF TellingIsTheRow
    <2>10. ScreensShowTheRow'
      BY <1>1, <2>5 DEF ScreensShowTheRow
    <2> QED
      BY <2>6, <2>7, <2>8, <2>9, <2>10
  <1> QED
    BY <1>2, <1>3

\* An order that is linked to its customer gains a party and loses none.
LEMMA NewsLink ==
    ASSUME GatewayInv, NEW u \in Users, GetUserOrders(u)
    PROVE  GatewayInv'
  <1> USE DEF GatewayInv
  <1>1. /\ linked' \subseteq Orders
        /\ linked \subseteq linked'
        /\ UNCHANGED <<row, user, rooms, screen, calls, trace, carriers, crossed, request>>
    BY DEF GetUserOrders, GatewayTypeOK, ears
  <1>2. \A o \in Orders : \A v : Party(o, v) => Party(o, v)'
    BY <1>1 DEF Party, Owns
  <1>3. GatewayTypeOK' /\ DriversAreCarriers' /\ HearersStay'
    BY <1>1 DEF GatewayTypeOK, DriversAreCarriers, HearersStay
  <1>4. \A v, room : MayHold(v, room) => MayHold(v, room)'
    BY <1>2 DEF MayHold
  <1>5. RoomsAreEarned'
    BY <1>1, <1>4 DEF RoomsAreEarned, Connected
  <1>6. GoneIsForgotten' /\ TellingIsTheRow' /\ ScreensShowTheRow'
    BY <1>1 DEF GoneIsForgotten, Connected, TellingIsTheRow, Untold, ScreensShowTheRow
  <1>7. NewsReachParties'
    BY <1>1, <1>2 DEF NewsReachParties
  <1> QED
    BY <1>3, <1>5, <1>6, <1>7

\* Every step keeps the invariant.
LEMMA NewsStep ==
    ASSUME GatewayInv, [GatewayNext]_gatewayVars
    PROVE  GatewayInv'
  <1>1. None \notin Drivers /\ None \notin Staff
    BY RolesAssumption, NoneAssumption
  <1>2. CASE UNCHANGED gatewayVars
    <2> USE <1>2 DEF gatewayVars, ears, GatewayInv
    <2>1. GatewayTypeOK' /\ DriversAreCarriers' /\ HearersStay'
      BY DEF GatewayTypeOK, DriversAreCarriers, HearersStay
    <2>2. RoomsAreEarned'
      BY DEF RoomsAreEarned, Connected, MayHold, Party, Owns
    <2>3. GoneIsForgotten' /\ NewsReachParties'
      BY DEF GoneIsForgotten, Connected, NewsReachParties, Party, Owns
    <2>4. TellingIsTheRow' /\ ScreensShowTheRow'
      BY DEF TellingIsTheRow, Untold, ScreensShowTheRow
    <2> QED
      BY <2>1, <2>2, <2>3, <2>4
  <1>3. CASE GatewayNext
    BY <1>1, <1>3, NewsLink, NewsConnect, NewsDisconnect, NewsJoinAdmin, NewsJoinDriver, NewsJoinOrder,
       NewsTransition, NewsAssign, NewsReport, NewsJoin, NewsWrite, NewsBroadcast,
       NewsPosition, NewsGiveUp DEF GatewayNext
  <1> QED
    BY <1>2, <1>3

\* Rooms, rows and tellings agree at every step, whatever joins, reassignments and late
\* broadcasts overlap (delivery.gateway.ts and the handlers that tell).
THEOREM GatewayCorrect == GatewaySpec => []GatewayInv
  <1>1. GatewayInit => GatewayInv
    BY NewsInit
  <1>2. GatewayInv /\ [GatewayNext]_gatewayVars => GatewayInv'
    BY NewsStep
  <1> QED
    BY <1>1, <1>2, PTL DEF GatewaySpec

\* Once nothing of an order is left to tell, whoever heard of it heard the row last,
\* unless the order is marked.
THEOREM ScreensAreRight == GatewaySpec => []ScreensShowTheRow
  <1>1. GatewayInv => ScreensShowTheRow
    BY DEF GatewayInv
  <1> QED
    BY <1>1, GatewayCorrect, PTL

\* News of an order reach nobody but its customer, staff, kitchen and carriers, and the
\* positions in it are of its carriers.
THEOREM NewsStaysWithParties == GatewaySpec => []NewsReachParties
  <1>1. GatewayInv => NewsReachParties
    BY DEF GatewayInv
  <1> QED
    BY <1>1, GatewayCorrect, PTL
=============================================================================
