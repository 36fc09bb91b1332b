--------------------------- MODULE DispatchProofs ---------------------------
(***************************************************************************)
(* Proofs about Dispatch, for every set of orders, drivers and workers and   *)
(* every choice of statuses that staff may write.                            *)
(*                                                                           *)
(* A transition is checked against a row that may be out of date when it is  *)
(* written.  The history only grows, though, and holds every status the      *)
(* assignment ever had with all that came before it (HistoryIsComplete,      *)
(* StatusIsLogged); so what was before the status a request has read is      *)
(* still there when it writes the next one (MovesAreLogged).                 *)
(***************************************************************************)
EXTENDS Dispatch, TLAPS

\* What comes before the next status is what comes before this one, and this one.
LEMMA OneStepFurther ==
    ASSUME NEW s, NEW t \in ValidTransitions(s)
    PROVE  /\ t \in DeliveryStatus
           /\ Before(t) \subseteq Before(s) \cup {s}
           /\ s \in DeliveryStatus
  BY DEF ValidTransitions, Before, DeliveryStatus

\* Nothing is delivered, assigned or under way in the first state.
LEMMA InitInv == Init => DispatchInv
  <1> SUFFICES ASSUME Init PROVE DispatchInv
    OBVIOUS
  <1>1. TypeOK
    BY DEF Init, TypeOK, OrderStatus, DriverRow, DriverAvailability, AssignmentRow,
           Request, IdleRequest, Idle
  <1>2. HistoryIsComplete /\ StatusIsLogged /\ MovesAreLogged /\ SettlementsAreLogged
    BY DEF Init, HistoryIsComplete, StatusIsLogged, MovesAreLogged, SettlementsAreLogged, Idle
  <1>3. DeliveredWasCarried /\ OrderMatchesDelivery
    BY DEF Init, DeliveredWasCarried, OrderMatchesDelivery
  <1> QED
    BY <1>1, <1>2, <1>3 DEF DispatchInv

\* While histories grow, waiting settlements stay right.
LEMMA SettlementsKept ==
    ASSUME DispatchInv, NEW w \in Workers, NEW r, r.step # "settle",
           request' = [request EXCEPT ![w] = r],
           \A o \in Orders : history[o] \subseteq history'[o]
    PROVE  SettlementsAreLogged'
  <1> SUFFICES ASSUME NEW v \in Workers, request'[v].step = "settle",
                      request'[v].seen = "DELIVERED", ~request'[v].staff
               PROVE  Before("DELIVERED") \cup {"DELIVERED"} \subseteq history'[request'[v].order]
    BY DEF SettlementsAreLogged
  <1>1. v # w /\ request'[v] = request[v] /\ request[v] \in Request
    BY DEF DispatchInv, TypeOK
  <1>2. request[v].order \in Orders
    BY <1>1 DEF Request, IdleRequest, FreeRequest, AssignRequest, MoveRequest,
                AvailabilityRequest, SettleRequest
  <1>3. Before("DELIVERED") \cup {"DELIVERED"} \subseteq history[request[v].order]
    BY <1>1 DEF DispatchInv, SettlementsAreLogged
  <1> QED
    BY <1>1, <1>2, <1>3

\* A step that writes no order, assignment or history row and waits for no
\* transition keeps the invariant.
LEMMA OtherRowsInv ==
    ASSUME DispatchInv, NEW w \in Workers, NEW r \in Request, r.step \notin {"move", "settle"},
           request' = [request EXCEPT ![w] = r], driver' \in [Drivers -> DriverRow],
           UNCHANGED <<order, staffWrote, setBack, assignment, history, alone>>
    PROVE  DispatchInv'
  <1>1. TypeOK'
    BY DEF DispatchInv, TypeOK
  <1>2. HistoryIsComplete' /\ StatusIsLogged' /\ DeliveredWasCarried' /\ OrderMatchesDelivery'
    BY DEF DispatchInv, HistoryIsComplete, StatusIsLogged, DeliveredWasCarried,
           OrderMatchesDelivery
  <1>3. MovesAreLogged'
    BY DEF DispatchInv, TypeOK, MovesAreLogged
  <1>4. SettlementsAreLogged'
    BY SettlementsKept
  <1> QED
    BY <1>1, <1>2, <1>3, <1>4 DEF DispatchInv

\* Profiles are written without a request that lasts.
LEMMA ProfileInv ==
    ASSUME DispatchInv, NEW w \in Workers, NEW d \in Drivers,
           ActivateDriver(w, d) \/ UpdateDriverStatus(w, d)
    PROVE  DispatchInv'
  <1>1. driver' \in [Drivers -> DriverRow] /\ request[w] = Idle
    BY DEF ActivateDriver, UpdateDriverStatus, Ready, DispatchInv, TypeOK, DriverRow,
           DriverStatus, DriverAvailability
  <1>2. Idle \in Request /\ Idle.step \notin {"move", "settle"}
    BY DEF Request, IdleRequest, Idle
  <1>3. request' = [request EXCEPT ![w] = Idle]
        /\ UNCHANGED <<order, staffWrote, setBack, assignment, history, alone>>
    BY <1>1 DEF ActivateDriver, UpdateDriverStatus, DispatchInv, TypeOK
  <1> QED
    BY <1>1, <1>2, <1>3, OtherRowsInv

\* A request that begins or ends, or writes only a driver's availability.
LEMMA RequestInv ==
    ASSUME DispatchInv, NEW w \in Workers,
           \/ \E o \in Orders, d \in Drivers : AssignDriver(w, o, d) \/ ReassignDriver(w, o, d)
           \/ \E d \in Drivers : UpdateAvailability(w, d)
           \/ FreeOldDriver(w) \/ CheckAssignment(w) \/ WriteAvailability(w) \/ Abandon(w)
    PROVE  DispatchInv'
  <1>1. Idle \in Request /\ Idle.step \notin {"move", "settle"}
    BY DEF Request, IdleRequest, Idle
  <1>2. TypeOK /\ request[w] \in Request
    BY DEF DispatchInv, TypeOK
  <1>3. ASSUME NEW o \in Orders, NEW d \in Drivers, AssignDriver(w, o, d)
        PROVE  DispatchInv'
    <2>1. [step |-> "assign", order |-> o, driver |-> d] \in Request
      BY DEF Request, AssignRequest
    <2> QED
      BY <1>2, <1>3, <2>1, OtherRowsInv DEF AssignDriver, Serve, rows, TypeOK
  <1>4. ASSUME NEW o \in Orders, NEW d \in Drivers, ReassignDriver(w, o, d)
        PROVE  DispatchInv'
    <2>1. [step |-> "free", order |-> o, old |-> assignment[o].driver, driver |-> d] \in Request
      BY <1>4 DEF ReassignDriver, DispatchInv, StatusIsLogged, Request, FreeRequest
    <2> QED
      BY <1>2, <1>4, <2>1, OtherRowsInv DEF ReassignDriver, Serve, rows, TypeOK
  <1>5. ASSUME NEW d \in Drivers, UpdateAvailability(w, d)
        PROVE  DispatchInv'
    <2>1. PICK a \in DriverAvailability :
            request' = [request EXCEPT ![w] = [step |-> "availability", driver |-> d, to |-> a]]
      BY <1>5 DEF UpdateAvailability, Serve
    <2>2. [step |-> "availability", driver |-> d, to |-> a] \in Request
      BY DEF Request, AvailabilityRequest
    <2> QED
      BY <1>2, <1>5, <2>1, <2>2, OtherRowsInv DEF UpdateAvailability, rows, TypeOK
  <1>6. ASSUME FreeOldDriver(w) PROVE DispatchInv'
    <2>1. request[w] \in FreeRequest
      BY <1>2, <1>6 DEF FreeOldDriver, Request, IdleRequest, FreeRequest, AssignRequest,
                        MoveRequest, AvailabilityRequest, SettleRequest
    <2>2. PICK o \in Orders, d \in Drivers, b \in Drivers :
            o = request[w].order /\ d = request[w].driver /\ b = request[w].old
      BY <2>1 DEF FreeRequest
    <2>3. [step |-> "log", order |-> o, driver |-> d] \in Request
      BY DEF Request, AssignRequest
    <2>4. driver' \in [Drivers -> DriverRow]
      BY <1>2, <1>6, <2>2 DEF FreeOldDriver, Available, TypeOK, DriverRow, DriverAvailability
    <2> QED
      BY <1>6, <2>2, <2>3, <2>4, OtherRowsInv DEF FreeOldDriver, Serve
  <1>7. ASSUME CheckAssignment(w) PROVE DispatchInv'
    <2>1. request[w] \in AssignRequest
      BY <1>2, <1>7 DEF CheckAssignment, Request, IdleRequest, FreeRequest, AssignRequest,
                        MoveRequest, AvailabilityRequest, SettleRequest
    <2>2. PICK o \in Orders, d \in Drivers : o = request[w].order /\ d = request[w].driver
      BY <2>1 DEF AssignRequest
    <2>3. [step |-> "route", order |-> o, driver |-> d] \in Request
      BY DEF Request, AssignRequest
    <2> QED
      BY <1>2, <1>7, <2>2, <2>3, OtherRowsInv DEF CheckAssignment, Serve, rows, TypeOK
  <1>8. ASSUME WriteAvailability(w) PROVE DispatchInv'
    <2>1. request[w] \in AvailabilityRequest
      BY <1>2, <1>8 DEF WriteAvailability, Request, IdleRequest, FreeRequest, AssignRequest,
                        MoveRequest, AvailabilityRequest, SettleRequest
    <2>2. driver' \in [Drivers -> DriverRow]
      BY <1>2, <1>8, <2>1 DEF WriteAvailability, Available, TypeOK, DriverRow, AvailabilityRequest
    <2> QED
      BY <1>1, <1>8, <2>2, OtherRowsInv DEF WriteAvailability, Finish, Serve
  <1>9. ASSUME Abandon(w) PROVE DispatchInv'
    BY <1>1, <1>2, <1>9, OtherRowsInv DEF Abandon, Finish, Serve, rows, TypeOK
  <1> QED
    BY <1>3, <1>4, <1>5, <1>6, <1>7, <1>8, <1>9

\* A history row added for a reassignment has nothing before it.
LEMMA LogReassignmentInv ==
    ASSUME DispatchInv, NEW w \in Workers, LogReassignment(w)
    PROVE  DispatchInv'
  <1>1. TypeOK /\ request[w] \in AssignRequest
    BY DEF LogReassignment, DispatchInv, TypeOK, Request, IdleRequest, FreeRequest,
           AssignRequest, MoveRequest, AvailabilityRequest, SettleRequest
  <1>2. PICK o \in Orders, d \in Drivers : o = request[w].order /\ d = request[w].driver
    BY <1>1 DEF AssignRequest
  <1>3. /\ history' = [history EXCEPT ![o] = @ \cup {"CANCELLED"}]
        /\ request' = [request EXCEPT ![w] = [step |-> "assign", order |-> o, driver |-> d]]
        /\ UNCHANGED <<order, staffWrote, setBack, driver, assignment, alone>>
    BY <1>2 DEF LogReassignment, Log, Serve
  <1>4. [step |-> "assign", order |-> o, driver |-> d] \in Request
    BY DEF Request, AssignRequest
  <1>5. TypeOK'
    BY <1>1, <1>3, <1>4 DEF TypeOK, DeliveryStatus
  <1>6. \A p \in Orders : history[p] \subseteq history'[p]
    BY <1>1, <1>3 DEF TypeOK
  <1>7. HistoryIsComplete'
    BY <1>1, <1>3, <1>6 DEF DispatchInv, TypeOK, HistoryIsComplete, Before
  <1>8. StatusIsLogged' /\ DeliveredWasCarried' /\ OrderMatchesDelivery'
    BY <1>3, <1>6 DEF DispatchInv, StatusIsLogged, DeliveredWasCarried, OrderMatchesDelivery
  <1>9. MovesAreLogged'
    <2> SUFFICES ASSUME NEW v \in Workers, request'[v].step = "move"
                 PROVE  /\ assignment'[request'[v].order].status # "ABSENT"
                        /\ Before(request'[v].to) \subseteq history'[request'[v].order]
      BY DEF MovesAreLogged
    <2>1. v # w /\ request'[v] = request[v]
      BY <1>1, <1>3 DEF TypeOK
    <2>2. request[v].order \in Orders
      BY <1>1, <2>1 DEF TypeOK, Request, IdleRequest, FreeRequest, AssignRequest, MoveRequest,
                        AvailabilityRequest, SettleRequest
    <2> QED
      BY <1>3, <1>6, <2>1, <2>2 DEF DispatchInv, MovesAreLogged
  <1>10. SettlementsAreLogged'
    BY <1>3, <1>6, SettlementsKept
  <1> QED
    BY <1>5, <1>7, <1>8, <1>9, <1>10 DEF DispatchInv

\* A new assignment starts with a history row that has nothing before it.
LEMMA WriteAssignmentInv ==
    ASSUME DispatchInv, NEW w \in Workers, WriteAssignment(w)
    PROVE  DispatchInv'
  <1>1. TypeOK /\ request[w] \in AssignRequest
    BY DEF WriteAssignment, DispatchInv, TypeOK, Request, IdleRequest, FreeRequest,
           AssignRequest, MoveRequest, AvailabilityRequest, SettleRequest
  <1>2. PICK o \in Orders, d \in Drivers : o = request[w].order /\ d = request[w].driver
    BY <1>1 DEF AssignRequest
  <1>3. /\ assignment' = [assignment EXCEPT ![o] = [status |-> "ASSIGNED", driver |-> d]]
        /\ history' = [history EXCEPT ![o] = @ \cup {"ASSIGNED"}]
        /\ driver' = [driver EXCEPT ![d] = [status |-> driver[d].status, availability |-> "BUSY"]]
        /\ request' = [request EXCEPT ![w] = Idle]
        /\ UNCHANGED <<order, staffWrote, setBack, alone>>
    BY <1>1, <1>2 DEF WriteAssignment, Log, Available, Finish, Serve, TypeOK
  <1>4. TypeOK'
    BY <1>1, <1>3 DEF TypeOK, DeliveryStatus, AssignmentRow, DriverRow, DriverAvailability,
                      Request, IdleRequest, Idle
  <1>5. \A p \in Orders : history[p] \subseteq history'[p]
    BY <1>1, <1>3 DEF TypeOK
  <1>6. HistoryIsComplete'
    BY <1>1, <1>3, <1>5 DEF DispatchInv, TypeOK, HistoryIsComplete, Before
  <1>7. StatusIsLogged' /\ DeliveredWasCarried' /\ OrderMatchesDelivery'
    BY <1>1, <1>3, <1>5
       DEF DispatchInv, TypeOK, StatusIsLogged, DeliveredWasCarried, OrderMatchesDelivery
  <1>8. MovesAreLogged'
    <2> SUFFICES ASSUME NEW v \in Workers, request'[v].step = "move"
                 PROVE  /\ assignment'[request'[v].order].status # "ABSENT"
                        /\ Before(request'[v].to) \subseteq history'[request'[v].order]
      BY DEF MovesAreLogged
    <2>1. v # w /\ request'[v] = request[v]
      BY <1>1, <1>3 DEF TypeOK, Idle
    <2>2. request[v].order \in Orders
      BY <1>1, <2>1 DEF TypeOK, Request, IdleRequest, FreeRequest, AssignRequest, MoveRequest,
                        AvailabilityRequest, SettleRequest
    <2> QED
      BY <1>1, <1>3, <1>5, <2>1, <2>2 DEF DispatchInv, MovesAreLogged, TypeOK
  <1>9. SettlementsAreLogged'
    BY <1>3, <1>5, SettlementsKept DEF Idle
  <1> QED
    BY <1>4, <1>6, <1>7, <1>8, <1>9 DEF DispatchInv

\* The status a transition is checked against is in the history, and so is all
\* that came before it.
LEMMA TransitionInv ==
    ASSUME DispatchInv, NEW w \in Workers, NEW o \in Orders, NEW d \in Drivers,
           TransitionDeliveryStatus(w, o, d)
    PROVE  DispatchInv'
  <1>1. PICK s \in ValidTransitions(assignment[o].status) :
          request' = [request EXCEPT ![w] = [step |-> "move", order |-> o, driver |-> d, to |-> s]]
    BY DEF TransitionDeliveryStatus, Serve
  <1>2. TypeOK /\ UNCHANGED <<order, staffWrote, setBack, driver, assignment, history, alone>>
    BY DEF TransitionDeliveryStatus, rows, DispatchInv
  <1>3. s \in DeliveryStatus /\ assignment[o].status \in DeliveryStatus
        /\ assignment[o].status # "ABSENT"
        /\ Before(s) \subseteq Before(assignment[o].status) \cup {assignment[o].status}
    BY OneStepFurther DEF DeliveryStatus
  <1>4. Before(s) \subseteq history[o]
    BY <1>3 DEF DispatchInv, StatusIsLogged, HistoryIsComplete, DeliveryStatus
  <1>5. [step |-> "move", order |-> o, driver |-> d, to |-> s] \in Request
    BY <1>3 DEF Request, MoveRequest
  <1>6. TypeOK'
    BY <1>1, <1>2, <1>5 DEF TypeOK
  <1>7. MovesAreLogged'
    BY <1>1, <1>2, <1>3, <1>4 DEF DispatchInv, TypeOK, MovesAreLogged
  <1>8. HistoryIsComplete' /\ StatusIsLogged' /\ DeliveredWasCarried' /\ OrderMatchesDelivery'
    BY <1>2 DEF DispatchInv, HistoryIsComplete, StatusIsLogged, DeliveredWasCarried,
                OrderMatchesDelivery
  <1>9. SettlementsAreLogged'
    BY <1>1, <1>2, SettlementsKept
  <1> QED
    BY <1>6, <1>7, <1>8, <1>9 DEF DispatchInv

\* The transition writes assignment, order and history together, over whatever
\* they have become.
LEMMA WriteTransitionInv ==
    ASSUME DispatchInv, NEW w \in Workers, WriteTransition(w)
    PROVE  DispatchInv'
  <1>1. TypeOK /\ request[w] \in MoveRequest /\ request[w].step = "move"
    BY DEF WriteTransition, DispatchInv, TypeOK, Request, IdleRequest, FreeRequest,
           AssignRequest, MoveRequest, AvailabilityRequest, SettleRequest
  <1>2. PICK o \in Orders, d \in Drivers, s \in DeliveryStatus :
          o = request[w].order /\ d = request[w].driver /\ s = request[w].to
    BY <1>1 DEF MoveRequest
  <1>3. /\ assignment' = [assignment EXCEPT ![o] = [status |-> s, driver |-> assignment[o].driver]]
        /\ order' = [order EXCEPT ![o] = OrderStatusUpdate(s, order[o])]
        /\ IF s \in {"PICKED_UP", "OUT_FOR_DELIVERY", "DELIVERED"}
           THEN staffWrote' = staffWrote \ {o} /\ setBack' = setBack \ {o}
           ELSE UNCHANGED <<staffWrote, setBack>>
        /\ history' = [history EXCEPT ![o] = @ \cup {s}]
        /\ request' = [request EXCEPT ![w] = Idle]
        /\ UNCHANGED alone
    BY <1>1, <1>2 DEF WriteTransition, Log, Finish, Serve, TypeOK
  <1>4. driver' \in [Drivers -> DriverRow]
    BY <1>1, <1>2 DEF WriteTransition, Available, TypeOK, DriverRow, DriverAvailability
  <1>5. OrderStatusUpdate(s, order[o]) \in OrderStatus
    BY <1>1 DEF OrderStatusUpdate, OrderStatus, TypeOK
  <1>6. TypeOK'
    BY <1>1, <1>3, <1>4, <1>5 DEF TypeOK, AssignmentRow, Request, IdleRequest, Idle
  <1>7. Before(s) \subseteq history[o] /\ assignment[o].status # "ABSENT"
    BY <1>1, <1>2 DEF DispatchInv, MovesAreLogged
  <1>8. \A p \in Orders : history[p] \subseteq history'[p]
    BY <1>1, <1>3 DEF TypeOK
  <1>9. history'[o] = history[o] \cup {s} /\ \A p \in Orders \ {o} : history'[p] = history[p]
    BY <1>1, <1>3 DEF TypeOK
  <1>10. HistoryIsComplete'
    BY <1>7, <1>8, <1>9 DEF DispatchInv, HistoryIsComplete
  <1>11. StatusIsLogged'
    <2> SUFFICES ASSUME NEW p \in Orders, assignment'[p].status # "ABSENT"
                 PROVE  assignment'[p].status \in history'[p] /\ assignment'[p].driver \in Drivers
      BY DEF StatusIsLogged
    <2>1. CASE p # o
      BY <1>1, <1>3, <1>9, <2>1 DEF DispatchInv, TypeOK, StatusIsLogged
    <2>2. CASE p = o
      BY <1>1, <1>3, <1>7, <1>9, <2>2 DEF DispatchInv, TypeOK, StatusIsLogged
    <2> QED
      BY <2>1, <2>2
  <1>12. MovesAreLogged'
    <2> SUFFICES ASSUME NEW v \in Workers, request'[v].step = "move"
                 PROVE  /\ assignment'[request'[v].order].status # "ABSENT"
                        /\ Before(request'[v].to) \subseteq history'[request'[v].order]
      BY DEF MovesAreLogged
    <2>1. v # w /\ request'[v] = request[v]
      BY <1>1, <1>3 DEF TypeOK, Idle
    <2>2. request[v].order \in Orders
      BY <1>1, <2>1 DEF TypeOK, Request, IdleRequest, FreeRequest, AssignRequest, MoveRequest,
                        AvailabilityRequest, SettleRequest
    <2>3. "ABSENT" \notin DeliveryStatus
      BY DEF DeliveryStatus
    <2> QED
      BY <1>1, <1>3, <1>8, <2>1, <2>2, <2>3 DEF DispatchInv, MovesAreLogged, TypeOK
  <1>13. DeliveredWasCarried'
    <2> SUFFICES ASSUME NEW p \in Orders, order'[p] = "DELIVERED", p \notin staffWrote'
                 PROVE  Before("DELIVERED") \cup {"DELIVERED"} \subseteq history'[p]
      BY DEF DeliveredWasCarried
    <2>1. CASE p # o
      BY <1>1, <1>3, <1>9, <2>1 DEF DispatchInv, TypeOK, DeliveredWasCarried
    <2>2. CASE p = o /\ s = "DELIVERED"
      BY <1>7, <1>9, <2>2
    <2>3. CASE p = o /\ s # "DELIVERED"
      <3>1. order[o] = "DELIVERED" /\ o \notin staffWrote
        BY <1>1, <1>3, <2>3 DEF TypeOK, OrderStatusUpdate
      <3> QED
        BY <1>9, <2>3, <3>1 DEF DispatchInv, DeliveredWasCarried
    <2> QED
      BY <2>1, <2>2, <2>3
  <1>14. OrderMatchesDelivery'
    <2> SUFFICES ASSUME NEW p \in Orders, p \notin staffWrote' \cup setBack'
                 PROVE  /\ assignment'[p].status \in {"PICKED_UP", "OUT_FOR_DELIVERY"}
                             => order'[p] = "OUT_FOR_DELIVERY"
                        /\ assignment'[p].status = "DELIVERED" => order'[p] = "DELIVERED"
      BY DEF OrderMatchesDelivery
    <2>1. CASE p # o
      BY <1>1, <1>3, <2>1 DEF DispatchInv, TypeOK, OrderMatchesDelivery
    <2>2. CASE p = o
      BY <1>1, <1>3, <2>2 DEF TypeOK, OrderStatusUpdate
    <2> QED
      BY <2>1, <2>2
  <1>15. SettlementsAreLogged'
    BY <1>3, <1>8, SettlementsKept DEF Idle
  <1> QED
    BY <1>6, <1>10, <1>11, <1>12, <1>13, <1>14, <1>15 DEF DispatchInv

\* Staff may write any status: the order is theirs from then on.
LEMMA StaffInv ==
    ASSUME DispatchInv, NEW w \in Workers, NEW o \in Orders, UpdateOrderStatusAdmin(w, o)
    PROVE  DispatchInv'
  <1>1. PICK s \in AdminStatuses : order' = [order EXCEPT ![o] = s]
    BY DEF UpdateOrderStatusAdmin
  <1>2. TypeOK /\ staffWrote' = staffWrote \cup {o} /\ setBack' = setBack \ {o}
        /\ UNCHANGED <<driver, assignment, history, request, alone>>
    BY DEF UpdateOrderStatusAdmin, DispatchInv
  <1>3. TypeOK'
    BY <1>1, <1>2, StatusAssumption DEF TypeOK
  <1>4. HistoryIsComplete' /\ StatusIsLogged' /\ MovesAreLogged' /\ SettlementsAreLogged'
    BY <1>2 DEF DispatchInv, HistoryIsComplete, StatusIsLogged, MovesAreLogged,
                SettlementsAreLogged
  <1>5. DeliveredWasCarried' /\ OrderMatchesDelivery'
    BY <1>1, <1>2 DEF DispatchInv, TypeOK, DeliveredWasCarried, OrderMatchesDelivery
  <1> QED
    BY <1>3, <1>4, <1>5 DEF DispatchInv

\* A settlement that has read DELIVERED knows whose it was.
LEMMA ReadForPaymentInv ==
    ASSUME DispatchInv, NEW w \in Workers, NEW o \in Orders, ReadForPayment(w, o)
    PROVE  DispatchInv'
  <1> DEFINE r == [step |-> "settle", order |-> o, seen |-> order[o], staff |-> o \in staffWrote]
  <1>1. /\ TypeOK /\ request' = [request EXCEPT ![w] = r]
        /\ UNCHANGED <<order, staffWrote, setBack, driver, assignment, history, alone>>
    BY DEF ReadForPayment, Serve, rows, DispatchInv
  <1>2. order[o] \in OrderStatus /\ (o \in staffWrote) \in BOOLEAN
    BY <1>1 DEF TypeOK
  <1>3. r \in SettleRequest
    BY <1>2 DEF SettleRequest
  <1>4. TypeOK'
    BY <1>1, <1>3 DEF TypeOK, Request
  <1>5. HistoryIsComplete' /\ StatusIsLogged' /\ DeliveredWasCarried' /\ OrderMatchesDelivery'
    BY <1>1 DEF DispatchInv, HistoryIsComplete, StatusIsLogged, DeliveredWasCarried,
                OrderMatchesDelivery
  <1>6. MovesAreLogged'
    BY <1>1 DEF DispatchInv, TypeOK, MovesAreLogged
  <1>7. r.seen = "DELIVERED" /\ ~r.staff
          => Before("DELIVERED") \cup {"DELIVERED"} \subseteq history[r.order]
    BY DEF DispatchInv, DeliveredWasCarried
  <1>8. SettlementsAreLogged'
    BY <1>1, <1>7 DEF DispatchInv, TypeOK, SettlementsAreLogged
  <1> QED
    BY <1>4, <1>5, <1>6, <1>8 DEF DispatchInv

\* A settlement that writes the status it read over another marks the order; one that
\* finds it unchanged turns PENDING, which no delivery under way has, into CONFIRMED.
LEMMA WriteConfirmedInv ==
    ASSUME DispatchInv, NEW w \in Workers, WriteConfirmed(w)
    PROVE  DispatchInv'
  <1>1. TypeOK /\ request[w] \in SettleRequest /\ request[w].step = "settle"
    BY DEF WriteConfirmed, DispatchInv, TypeOK, Request, IdleRequest, FreeRequest,
           AssignRequest, MoveRequest, AvailabilityRequest, SettleRequest
  <1>2. PICK o \in Orders, seen \in OrderStatus, staff \in BOOLEAN :
          o = request[w].order /\ seen = request[w].seen /\ staff = request[w].staff
    BY <1>1 DEF SettleRequest
  <1>3. /\ order' = [order EXCEPT ![o] = Confirm(seen)]
        /\ request' = [request EXCEPT ![w] = Idle]
        /\ UNCHANGED <<driver, assignment, history, alone>>
    BY <1>2 DEF WriteConfirmed, Finish, Serve
  <1>4. \/ order[o] = seen /\ UNCHANGED <<staffWrote, setBack>>
        \/ /\ setBack' = setBack \cup {o}
           /\ staffWrote' = IF staff THEN staffWrote \cup {o} ELSE staffWrote \ {o}
    BY <1>2 DEF WriteConfirmed
  <1>5. TypeOK'
    BY <1>1, <1>3, <1>4 DEF TypeOK, Confirm, OrderStatus, Request, IdleRequest, Idle
  <1>6. HistoryIsComplete' /\ StatusIsLogged'
    BY <1>3 DEF DispatchInv, HistoryIsComplete, StatusIsLogged
  <1>7. MovesAreLogged'
    BY <1>1, <1>3 DEF DispatchInv, TypeOK, MovesAreLogged, Idle
  <1>8. SettlementsAreLogged'
    BY <1>3, SettlementsKept DEF Idle
  <1>9. \A p \in Orders \ {o} : /\ order'[p] = order[p]
                               /\ (p \in staffWrote' <=> p \in staffWrote)
                               /\ (p \in setBack' <=> p \in setBack)
    BY <1>1, <1>3, <1>4 DEF TypeOK
  <1>10. order'[o] = Confirm(seen)
    BY <1>1, <1>3 DEF TypeOK
  <1>11. DeliveredWasCarried'
    <2> SUFFICES ASSUME NEW p \in Orders, order'[p] = "DELIVERED", p \notin staffWrote'
                 PROVE  Before("DELIVERED") \cup {"DELIVERED"} \subseteq history'[p]
      BY DEF DeliveredWasCarried
    <2>1. CASE p # o
      BY <1>3, <1>9, <2>1 DEF DispatchInv, DeliveredWasCarried
    <2>2. CASE p = o
      <3>1. seen = "DELIVERED"
        BY <1>10, <2>2 DEF Confirm
      <3>2. CASE order[o] = seen /\ UNCHANGED staffWrote
        BY <1>3, <2>2, <3>1, <3>2 DEF DispatchInv, DeliveredWasCarried
      <3>3. CASE ~staff
        BY <1>1, <1>2, <1>3, <2>2, <3>1, <3>3 DEF DispatchInv, SettlementsAreLogged
      <3> QED
        BY <1>4, <2>2, <3>2, <3>3
    <2> QED
      BY <2>1, <2>2
  <1>12. OrderMatchesDelivery'
    <2> SUFFICES ASSUME NEW p \in Orders, p \notin staffWrote' \cup setBack'
                 PROVE  /\ assignment'[p].status \in {"PICKED_UP", "OUT_FOR_DELIVERY"}
                             => order'[p] = "OUT_FOR_DELIVERY"
                        /\ assignment'[p].status = "DELIVERED" => order'[p] = "DELIVERED"
      BY DEF OrderMatchesDelivery
    <2>1. CASE p # o
      BY <1>3, <1>9, <2>1 DEF DispatchInv, OrderMatchesDelivery
    <2>2. CASE p = o
      <3>1. order[o] = seen /\ o \notin staffWrote \cup setBack
        BY <1>4, <2>2
      <3> QED
        BY <1>3, <1>10, <2>2, <3>1 DEF DispatchInv, OrderMatchesDelivery, Confirm
    <2> QED
      BY <2>1, <2>2
  <1> QED
    BY <1>5, <1>6, <1>7, <1>8, <1>11, <1>12 DEF DispatchInv

\* DispatchInv is inductive.
LEMMA NextInv == DispatchInv /\ [Next]_vars => DispatchInv'
  <1> SUFFICES ASSUME DispatchInv, [Next]_vars PROVE DispatchInv'
    OBVIOUS
  <1>1. ASSUME NEW w \in Workers, NEW d \in Drivers,
               ActivateDriver(w, d) \/ UpdateDriverStatus(w, d)
        PROVE  DispatchInv'
    BY <1>1, ProfileInv
  <1>2. ASSUME NEW w \in Workers,
               \/ \E o \in Orders, d \in Drivers : AssignDriver(w, o, d) \/ ReassignDriver(w, o, d)
               \/ \E d \in Drivers : UpdateAvailability(w, d)
               \/ FreeOldDriver(w) \/ CheckAssignment(w) \/ WriteAvailability(w) \/ Abandon(w)
        PROVE  DispatchInv'
    BY <1>2, RequestInv
  <1>3. ASSUME NEW w \in Workers, NEW o \in Orders, NEW d \in Drivers,
               TransitionDeliveryStatus(w, o, d)
        PROVE  DispatchInv'
    BY <1>3, TransitionInv
  <1>4. ASSUME NEW w \in Workers, LogReassignment(w) PROVE DispatchInv'
    BY <1>4, LogReassignmentInv
  <1>5. ASSUME NEW w \in Workers, WriteAssignment(w) PROVE DispatchInv'
    BY <1>5, WriteAssignmentInv
  <1>6. ASSUME NEW w \in Workers, WriteTransition(w) PROVE DispatchInv'
    BY <1>6, WriteTransitionInv
  <1>7. ASSUME NEW w \in Workers, NEW o \in Orders, UpdateOrderStatusAdmin(w, o)
        PROVE  DispatchInv'
    BY <1>7, StaffInv
  <1>8. ASSUME UNCHANGED vars PROVE DispatchInv'
    BY <1>8 DEF vars, rows, DispatchInv, TypeOK, HistoryIsComplete, StatusIsLogged,
                MovesAreLogged, SettlementsAreLogged, DeliveredWasCarried, OrderMatchesDelivery
  <1>9. ASSUME NEW w \in Workers, NEW o \in Orders, ReadForPayment(w, o) PROVE DispatchInv'
    BY <1>9, ReadForPaymentInv
  <1>10. ASSUME NEW w \in Workers, WriteConfirmed(w) PROVE DispatchInv'
    BY <1>10, WriteConfirmedInv
  <1> QED
    BY <1>1, <1>2, <1>3, <1>4, <1>5, <1>6, <1>7, <1>8, <1>9, <1>10 DEF Next

\* Rows, history and waiting transitions agree at every point of every request
\* (assignDriverToOrder, reassignDriver, transitionDeliveryStatus).
THEOREM DispatchCorrect == Spec => []DispatchInv
  <1>1. Init => DispatchInv
    BY InitInv
  <1>2. DispatchInv /\ [Next]_vars => DispatchInv'
    BY NextInv
  <1> QED
    BY <1>1, <1>2, PTL DEF Spec

\* However requests interleave, only an order that was assigned, accepted, picked
\* up and carried out is DELIVERED by a driver (transitionDeliveryStatus).
THEOREM DeliveriesAreCarried == Spec => []DeliveredWasCarried
  <1>1. DispatchInv => DeliveredWasCarried
    BY DEF DispatchInv
  <1> QED
    BY <1>1, DispatchCorrect, PTL

\* However requests interleave, an order status that neither staff nor a settlement
\* wrote over a driver's is the one its delivery calls for (transitionDeliveryStatus).
THEOREM OrdersMatchDeliveries == Spec => []OrderMatchesDelivery
  <1>1. DispatchInv => OrderMatchesDelivery
    BY DEF DispatchInv
  <1> QED
    BY <1>1, DispatchCorrect, PTL

\* Nobody is served beside a lone request, so no row it has read is written but by
\* itself.
LEMMA ServedAlone ==
    ASSUME TypeOK, LoneRequestIsFresh, UNCHANGED alone,
           NEW w \in Workers, Ready(w) \/ request[w] # Idle,
           NEW r, request' = [request EXCEPT ![w] = r],
           r.step = "move" => r.to \in ValidTransitions(assignment'[r.order].status)
    PROVE  LoneRequestIsFresh'
  <1> SUFFICES ASSUME alone PROVE LoneRequestIsFresh'
    BY DEF LoneRequestIsFresh
  <1>1. \A v \in Workers \ {w} : request'[v] = Idle
    BY DEF TypeOK, LoneRequestIsFresh, Ready
  <1>2. request'[w] = r /\ Idle.step # "move"
    BY DEF TypeOK, Idle
  <1>3. \A v \in Workers : request'[v].step = "move" => v = w
    BY <1>1, <1>2
  <1> QED
    BY <1>1, <1>2, <1>3 DEF LoneRequestIsFresh

\* A transition is checked as it is taken up, and nothing else is under way then.
LEMMA FreshNext == TypeOK /\ LoneRequestIsFresh /\ [Next]_vars => LoneRequestIsFresh'
  <1> SUFFICES ASSUME TypeOK, LoneRequestIsFresh, [Next]_vars PROVE LoneRequestIsFresh'
    OBVIOUS
  <1>1. ASSUME UNCHANGED vars PROVE LoneRequestIsFresh'
    BY <1>1 DEF vars, rows, LoneRequestIsFresh
  <1>2. ASSUME NEW w \in Workers, NEW o \in Orders, NEW d \in Drivers,
               TransitionDeliveryStatus(w, o, d)
        PROVE  LoneRequestIsFresh'
    <2>1. PICK s \in ValidTransitions(assignment[o].status) :
            request' = [request EXCEPT ![w] = [step |-> "move", order |-> o, driver |-> d, to |-> s]]
      BY <1>2 DEF TransitionDeliveryStatus, Serve
    <2>2. Ready(w) /\ UNCHANGED <<assignment, alone>>
      BY <1>2 DEF TransitionDeliveryStatus, rows
    <2> QED
      BY <2>1, <2>2, ServedAlone
  <1>3. ASSUME NEW w \in Workers, NEW r, r.step # "move", Ready(w) \/ request[w] # Idle,
               Serve(w, r), UNCHANGED alone
        PROVE  LoneRequestIsFresh'
    BY <1>3, ServedAlone DEF Serve
  <1>4. ASSUME NEW w \in Workers, NEW o \in Orders, NEW d \in Drivers,
               AssignDriver(w, o, d) \/ ReassignDriver(w, o, d)
        PROVE  LoneRequestIsFresh'
    BY <1>4, <1>3 DEF AssignDriver, ReassignDriver
  <1>5. ASSUME NEW w \in Workers, NEW d \in Drivers, UpdateAvailability(w, d)
        PROVE  LoneRequestIsFresh'
    BY <1>5, <1>3 DEF UpdateAvailability
  <1>6. ASSUME NEW w \in Workers,
               \/ FreeOldDriver(w) \/ LogReassignment(w) \/ CheckAssignment(w)
               \/ WriteAssignment(w) \/ WriteTransition(w) \/ WriteAvailability(w)
               \/ WriteConfirmed(w) \/ Abandon(w)
        PROVE  LoneRequestIsFresh'
    <2>1. request[w] # Idle /\ UNCHANGED alone /\ Idle.step # "move"
      BY <1>6 DEF FreeOldDriver, LogReassignment, CheckAssignment, WriteAssignment,
                  WriteTransition, WriteAvailability, WriteConfirmed, Abandon, Idle
    <2>2. PICK r : r.step # "move" /\ Serve(w, r)
      BY <1>6, <2>1 DEF FreeOldDriver, LogReassignment, CheckAssignment, WriteAssignment,
                        WriteTransition, WriteAvailability, WriteConfirmed, Abandon, Finish
    <2> QED
      BY <1>3, <2>1, <2>2
  <1>7. ASSUME NEW w \in Workers, Ready(w), UNCHANGED <<request, alone>>
        PROVE  LoneRequestIsFresh'
    BY <1>7 DEF LoneRequestIsFresh, Ready, Idle
  <1>8. ASSUME NEW w \in Workers, NEW o \in Orders, ReadForPayment(w, o)
        PROVE  LoneRequestIsFresh'
    BY <1>8, <1>3 DEF ReadForPayment
  <1> QED
    BY <1>1, <1>2, <1>4, <1>5, <1>6, <1>7, <1>8
    DEF Next, ActivateDriver, UpdateDriverStatus, UpdateOrderStatusAdmin

\* Served one at a time, requests move a delivery along the machine or assign it anew:
\* the status a transition was checked against is the one it overwrites
\* (transitionDeliveryStatus, assignDriverToOrder).
THEOREM MovesAreSteps == Spec => MovesFollowMachine
  <1> DEFINE Move ==
        \A o \in Orders :
           LET old == assignment[o].status
               new == assignment'[o].status IN
           alone /\ new \notin {old, "ASSIGNED"}
             => /\ old \notin {"ABSENT", "DELIVERED", "CANCELLED"}
                /\ new # "CANCELLED" => Before(new) = Before(old) \cup {old}
  <1>1. Init => LoneRequestIsFresh
    BY DEF Init, LoneRequestIsFresh, Idle
  <1>2. DispatchInv => TypeOK
    BY DEF DispatchInv
  <1>3. DispatchInv /\ LoneRequestIsFresh /\ [Next]_vars => [Move]_vars
    <2> SUFFICES ASSUME DispatchInv, LoneRequestIsFresh, Next,
                        NEW o \in Orders, alone, assignment'[o].status # assignment[o].status,
                        assignment'[o].status # "ASSIGNED"
                 PROVE  /\ assignment[o].status \notin {"ABSENT", "DELIVERED", "CANCELLED"}
                        /\ assignment'[o].status # "CANCELLED" =>
                             Before(assignment'[o].status)
                               = Before(assignment[o].status) \cup {assignment[o].status}
      OBVIOUS
    <2>1. TypeOK
      BY <1>2
    <2>2. PICK w \in Workers : WriteAssignment(w) \/ WriteTransition(w)
      BY DEF Next, ActivateDriver, UpdateDriverStatus, UpdateOrderStatusAdmin, AssignDriver,
             ReassignDriver, TransitionDeliveryStatus, UpdateAvailability, FreeOldDriver,
             LogReassignment, CheckAssignment, WriteAvailability, ReadForPayment,
             WriteConfirmed, Abandon, rows
    <2>3. ~WriteAssignment(w)
      <3> DEFINE row == [status |-> "ASSIGNED", driver |-> request[w].driver]
      <3>1. WriteAssignment(w) => assignment' = [assignment EXCEPT ![request[w].order] = row]
        BY DEF WriteAssignment
      <3>2. assignment' = [assignment EXCEPT ![request[w].order] = row]
              => assignment'[o] \in {row, assignment[o]}
        BY <2>1 DEF TypeOK
      <3> QED
        BY <3>1, <3>2
    <2>4. o = request[w].order /\ assignment'[o].status = request[w].to
      <3> DEFINE row == [status |-> request[w].to, driver |-> assignment[request[w].order].driver]
      <3>1. assignment' = [assignment EXCEPT ![request[w].order] = row]
        BY <2>2, <2>3 DEF WriteTransition
      <3>2. o = request[w].order /\ assignment'[o] = row
        BY <3>1, <2>1 DEF TypeOK
      <3> QED
        BY <3>2
    <2>5. assignment'[o].status \in ValidTransitions(assignment[o].status)
      BY <2>2, <2>3, <2>4 DEF WriteTransition, LoneRequestIsFresh
    <2> QED
      BY <2>5 DEF ValidTransitions, Before
  <1>4. Spec => []LoneRequestIsFresh
    BY <1>1, <1>2, FreshNext, DispatchCorrect, PTL DEF Spec
  <1> QED
    BY <1>3, <1>4, DispatchCorrect, PTL DEF Spec, MovesFollowMachine
=============================================================================
