------------------------------ MODULE Gateway ------------------------------
(***************************************************************************)
(* What the people around a delivery hear of it: the sockets and rooms of    *)
(* delivery.gateway.ts and the events that delivery.service.ts sends through *)
(* them.                                                                     *)
(*                                                                           *)
(* A handler commits its transaction, awaits the answer and then tells the   *)
(* rooms, from the values it computed before the transaction; other handlers *)
(* commit and tell in between.  A room is joined on the strength of rows     *)
(* read before, and never left but by losing the connection.  Module         *)
(* Dispatch has the checks of the handlers, which are no matter here.        *)
(***************************************************************************)
EXTENDS Naturals, FiniteSets, Deliveries

CONSTANTS
    Users,
    Owner,          \* Owner[o]: the customer, who placed it signed in or has its phone number
    Staff,          \* users whose role is ADMIN or STAFF
    Kitchen,        \* users whose role is KITCHEN
    Sockets         \* connections at the same time

ASSUME OwnerAssumption == Owner \in [Orders -> Users]
ASSUME RolesAssumption == Drivers \cup Staff \cup Kitchen \subseteq Users
ASSUME NoneAssumption == None \notin Users \cup Orders

VARIABLES
    row,            \* row[o]: the delivery assignment of o, its driver and status
    linked,         \* orders whose userId is set; a guest's is null
    user,           \* user[s]: client.data.user, None when s is not connected
    rooms,          \* rooms[s]: the rooms s has joined
    screen,         \* screen[s][o]: the last that s heard of o, but in a driver's room
    calls,          \* calls[s]: orders of which s heard in a driver's room
    trace,          \* trace[s]: whose positions s received, and for which order
    carriers,       \* history, carriers[o]: drivers to whom o was ever assigned
    crossed         \* history: orders whose last commit met another's telling

ears == <<screen, calls, trace>>
gatewayVars == <<row, linked, user, rooms, ears, carriers, crossed, request>>

-----------------------------------------------------------------------------
AdminRoom == [kind |-> "admin"]
OrderRoom(o) == [kind |-> "order", order |-> o]
DriverRoom(d) == [kind |-> "driver", driver |-> d]
Rooms == {AdminRoom} \cup {OrderRoom(o) : o \in Orders} \cup {DriverRoom(d) : d \in Drivers}

\* A row without a driver is no row.
DeliveryRow == [driver : Drivers \cup {None}, status : DeliveryStatus]
Event == [driver : Drivers, status : DeliveryStatus]
Unheard == [driver |-> None, status |-> "ASSIGNED"]

JoinRequest == [step : {"join"}, socket : Sockets, room : Rooms]
MoveRequest == [step : {"move"}, order : Orders, driver : Drivers,
                from : DeliveryStatus, to : DeliveryStatus]
TellRequest == [step : {"tell"}, order : Orders, event : Event]
PositionRequest == [step : {"report"}, order : Orders \cup {None}, driver : Drivers]
GatewayRequest == IdleRequest \cup JoinRequest \cup MoveRequest \cup TellRequest
                    \cup PositionRequest

\* Shape of the state.
GatewayTypeOK ==
    /\ row \in [Orders -> DeliveryRow]
    /\ linked \subseteq Orders
    /\ user \in [Sockets -> Users \cup {None}]
    /\ rooms \in [Sockets -> SUBSET Rooms]
    /\ screen \in [Sockets -> [Orders -> Event \cup {Unheard}]]
    /\ calls \in [Sockets -> SUBSET Orders]
    /\ trace \in [Sockets -> SUBSET (Orders \X Drivers)]
    /\ carriers \in [Orders -> SUBSET Drivers]
    /\ crossed \subseteq Orders
    /\ request \in [Workers -> GatewayRequest]

Nothing == [o \in Orders |-> Unheard]

GatewayInit ==
    /\ row = [o \in Orders |-> [driver |-> None, status |-> "ASSIGNED"]]
    /\ linked \in SUBSET Orders
    /\ user = [s \in Sockets |-> None]
    /\ rooms = [s \in Sockets |-> {}]
    /\ screen = [s \in Sockets |-> Nothing]
    /\ calls = [s \in Sockets |-> {}]
    /\ trace = [s \in Sockets |-> {}]
    /\ carriers = [o \in Orders |-> {}]
    /\ crossed = {}
    /\ request = [w \in Workers |-> Idle]

-----------------------------------------------------------------------------
Connected(s) == user[s] # None
In(s, room) == Connected(s) /\ room \in rooms[s]

\* Orders of which a handler has committed a change it has still to tell.
Untold(o) == {w \in Workers : request[w].step = "tell" /\ request[w].order = o}

-----------------------------------------------------------------------------
(* Connections and rooms *)

\* A connection is new: no handler of an earlier one knows it.  Messages that come
\* before the session is read are refused.
HandleConnection(s, u) ==
    /\ user[s] = None
    /\ \A w \in Workers : request[w].step = "join" => request[w].socket # s
    /\ user' = [user EXCEPT ![s] = u]
    /\ UNCHANGED <<row, rooms, ears, carriers, linked, crossed, request>>

HandleDisconnect(s) ==
    /\ Connected(s)
    /\ user' = [user EXCEPT ![s] = None]
    /\ rooms' = [rooms EXCEPT ![s] = {}]
    /\ screen' = [screen EXCEPT ![s] = Nothing]
    /\ calls' = [calls EXCEPT ![s] = {}]
    /\ trace' = [trace EXCEPT ![s] = {}]
    /\ UNCHANGED <<row, carriers, linked, crossed, request>>

\* A customer who lists orders takes over those placed as a guest under the same phone.
GetUserOrders(u) ==
    /\ linked' = linked \cup {o \in Orders : Owner[o] = u}
    /\ UNCHANGED <<row, user, rooms, ears, carriers, crossed, request>>

\* order.userId is u.
Owns(u, o) == u = Owner[o] /\ o \in linked

\* MUTANT of MayJoinOrder: any driver may.
MayJoinAsDriver(u, o) == Owns(u, o) \/ u \in Drivers \/ u \in Staff \cup Kitchen

MayJoinOrder(u, o) ==
    Owns(u, o) \/ u = row[o].driver \/ u \in Staff \cup Kitchen

HandleJoinOrder(w, s, o) ==
    /\ request[w] = Idle
    /\ Connected(s)
    /\ MayJoinOrder(user[s], o)
    /\ Serve(w, [step |-> "join", socket |-> s, room |-> OrderRoom(o)])
    /\ UNCHANGED <<row, user, rooms, ears, carriers, linked, crossed>>

\* The driver's own room, whichever the message names.
HandleJoinDriver(w, s) ==
    /\ request[w] = Idle
    /\ user[s] \in Drivers
    /\ Serve(w, [step |-> "join", socket |-> s, room |-> DriverRoom(user[s])])
    /\ UNCHANGED <<row, user, rooms, ears, carriers, linked, crossed>>

\* client.join, after the rows were read; a socket that has gone hears nothing.
Join(w) ==
    LET r == request[w] IN
    /\ r.step = "join"
    /\ rooms' = IF Connected(r.socket)
                THEN [rooms EXCEPT ![r.socket] = @ \cup {r.room}] ELSE rooms
    /\ Finish(w)
    /\ UNCHANGED <<row, user, ears, carriers, linked, crossed>>

HandleJoinAdmin(s) ==
    /\ user[s] \in Staff
    /\ rooms' = [rooms EXCEPT ![s] = @ \cup {AdminRoom}]
    /\ UNCHANGED <<row, user, ears, carriers, linked, crossed, request>>

-----------------------------------------------------------------------------
(* Handlers that commit and tell *)

\* History: the commit of o leaves its order of telling open, or not.
Cross(o, open) == crossed' = IF open THEN crossed \cup {o} ELSE crossed \ {o}

\* The transaction of assignDriverToOrder, after its checks and the route.
AssignDriverToOrder(w, o, d) ==
    /\ request[w] = Idle
    /\ row' = [row EXCEPT ![o] = [driver |-> d, status |-> "ASSIGNED"]]
    /\ carriers' = [carriers EXCEPT ![o] = @ \cup {d}]
    /\ Cross(o, Untold(o) # {})
    /\ Serve(w, [step |-> "tell", order |-> o,
                 event |-> [driver |-> d, status |-> "ASSIGNED"]])
    /\ UNCHANGED <<user, rooms, ears, linked>>

\* transitionDeliveryStatus: the driver's assignment is read and the move found valid.
TransitionDeliveryStatus(w, o) ==
    /\ request[w] = Idle
    /\ row[o].driver # None
    /\ \E s \in ValidTransitions(row[o].status) :
        Serve(w, [step |-> "move", order |-> o, driver |-> row[o].driver,
                  from |-> row[o].status, to |-> s])
    /\ UNCHANGED <<row, user, rooms, ears, carriers, linked, crossed>>

\* MUTANT of StatusEvent: tells the status that was read.
StatusEventRead(r) == [driver |-> r.driver, status |-> r.from]

StatusEvent(r) == [driver |-> r.driver, status |-> r.to]

\* The transaction writes the status alone; the driver may have changed since.
WriteTransition(w) ==
    LET r == request[w] IN
    /\ r.step = "move"
    /\ row' = [row EXCEPT ![r.order] = [driver |-> @.driver, status |-> r.to]]
    /\ Cross(r.order, Untold(r.order) # {} \/ row[r.order].driver # r.driver)
    /\ Serve(w, [step |-> "tell", order |-> r.order, event |-> StatusEvent(r)])
    /\ UNCHANGED <<user, rooms, ears, carriers, linked>>

\* Three rooms: the order's, the one of the driver in the event, and the admins'.
Broadcast(w) ==
    LET r == request[w] IN
    /\ r.step = "tell"
    /\ screen' = [s \in Sockets |->
                    IF In(s, OrderRoom(r.order)) \/ In(s, AdminRoom)
                    THEN [screen[s] EXCEPT ![r.order] = r.event] ELSE screen[s]]
    /\ calls' = [s \in Sockets |->
                    IF In(s, DriverRoom(r.event.driver)) THEN calls[s] \cup {r.order} ELSE calls[s]]
    /\ Finish(w)
    /\ UNCHANGED <<row, user, rooms, trace, carriers, linked, crossed>>

-----------------------------------------------------------------------------
(* Positions *)

ActiveDeliveriesOf(d) ==
    {o \in Orders : /\ row[o].driver = d
                    /\ row[o].status \in {"ACCEPTED", "PICKED_UP", "OUT_FOR_DELIVERY"}}

\* recordDriverLocation, by a message or over HTTP: findFirst takes one of the
\* deliveries under way.  None: there is none.
HandleLocationUpdate(w, d) ==
    /\ request[w] = Idle
    /\ \E o \in IF ActiveDeliveriesOf(d) = {} THEN {None} ELSE ActiveDeliveriesOf(d) :
        Serve(w, [step |-> "report", order |-> o, driver |-> d])
    /\ UNCHANGED <<row, user, rooms, ears, carriers, linked, crossed>>

\* Of what is sent, once the position is stored and the route computed (module
\* Tracking): whose position it is, and of which order.
LocationEvent(r) == IF r.order = None THEN {} ELSE {<<r.order, r.driver>>}

\* The order's room, if there is an order, and the admins'.
BroadcastLocation(w) ==
    LET r == request[w] IN
    /\ r.step = "report"
    /\ trace' = [s \in Sockets |->
                    IF In(s, AdminRoom) \/ In(s, OrderRoom(r.order))
                    THEN trace[s] \cup LocationEvent(r) ELSE trace[s]]
    /\ Finish(w)
    /\ UNCHANGED <<row, user, rooms, screen, calls, carriers, linked, crossed>>

-----------------------------------------------------------------------------
\* A check refuses, a call throws, or the answer to a commit is lost.
GiveUp(w) ==
    /\ request[w] # Idle
    /\ crossed' = IF request[w].step = "tell" THEN crossed \cup {request[w].order} ELSE crossed
    /\ Finish(w)
    /\ UNCHANGED <<row, user, rooms, ears, carriers, linked>>

GatewayNext ==
    \/ \E u \in Users : GetUserOrders(u)
    \/ \E s \in Sockets :
        \/ \E u \in Users : HandleConnection(s, u)
        \/ HandleDisconnect(s) \/ HandleJoinAdmin(s)
    \/ \E w \in Workers :
        \/ \E s \in Sockets : HandleJoinDriver(w, s) \/ \E o \in Orders : HandleJoinOrder(w, s, o)
        \/ \E o \in Orders : \/ TransitionDeliveryStatus(w, o)
                             \/ \E d \in Drivers : AssignDriverToOrder(w, o, d)
        \/ \E d \in Drivers : HandleLocationUpdate(w, d)
        \/ Join(w) \/ WriteTransition(w) \/ Broadcast(w) \/ BroadcastLocation(w)
        \/ GiveUp(w)

GatewaySpec == GatewayInit /\ [][GatewayNext]_gatewayVars

-----------------------------------------------------------------------------
(* Properties *)

\* Once nothing of an order is left to tell, whoever heard of it in the order's room
\* or the admins' heard the row last, unless its last commit met another telling,
\* wrote over a reassignment or lost its own event (transitionDeliveryStatus and
\* assignDriverToOrder tell what they computed before the commit).
ScreensShowTheRow ==
    \A s \in Sockets, o \in Orders :
        screen[s][o] # Unheard /\ o \notin crossed /\ Untold(o) = {}
            => screen[s][o] = row[o]

\* Whom an order concerns.
Party(o, u) == Owns(u, o) \/ u \in Staff \cup Kitchen \cup carriers[o]

\* Whatever joins, reassignments and late broadcasts overlap, news of an order reach
\* the customer it is linked to, staff, kitchen and drivers it was ever assigned to, and
\* the positions in it are of such drivers (handleJoinOrder, broadcastLocationUpdate).
NewsReachParties ==
    \A s \in Sockets, o \in Orders :
        /\ screen[s][o] # Unheard \/ o \in calls[s] \/ (\E d \in Drivers : <<o, d>> \in trace[s])
             => Party(o, user[s])
        /\ \A d \in Drivers : <<o, d>> \in trace[s] => d \in carriers[o]
-----------------------------------------------------------------------------
(* What the two rest on *)

\* Who may be in a room.
MayHold(u, room) ==
    \/ room = AdminRoom /\ u \in Staff
    \/ \E o \in Orders : room = OrderRoom(o) /\ Party(o, u)
    \/ \E d \in Drivers : room = DriverRoom(d) /\ u = d

\* A room is held, or about to be joined, by somebody who may hold it.
RoomsAreEarned ==
    /\ \A s \in Sockets : Connected(s) => \A room \in rooms[s] : MayHold(user[s], room)
    /\ \A w \in Workers : request[w].step = "join" /\ Connected(request[w].socket) =>
            MayHold(user[request[w].socket], request[w].room)

\* The driver of a row or of a request under way has carried the order.
DriversAreCarriers ==
    /\ \A o \in Orders : row[o].driver \in carriers[o] \cup {None}
    /\ \A w \in Workers :
        /\ request[w].step = "move" => request[w].driver \in carriers[request[w].order]
        /\ request[w].step = "tell" => request[w].event.driver \in carriers[request[w].order]
        /\ request[w].step = "report" /\ request[w].order # None =>
            request[w].driver \in carriers[request[w].order]

\* A socket that is gone is in no room, and what it heard is forgotten.
GoneIsForgotten ==
    \A s \in Sockets : ~Connected(s) =>
        rooms[s] = {} /\ screen[s] = Nothing /\ calls[s] = {} /\ trace[s] = {}

\* Who heard of an order in its room or the admins' is still there.
HearersStay ==
    \A s \in Sockets, o \in Orders : screen[s][o] # Unheard =>
        OrderRoom(o) \in rooms[s] \/ AdminRoom \in rooms[s]

\* An order that is not marked has one telling to come at most, and that is its row.
TellingIsTheRow ==
    \A o \in Orders : o \notin crossed => \A w \in Untold(o) :
        Untold(o) = {w} /\ request[w].event = row[o]

\* The inductive invariant behind the two.
GatewayInv ==
    /\ GatewayTypeOK
    /\ RoomsAreEarned
    /\ DriversAreCarriers
    /\ GoneIsForgotten
    /\ HearersStay
    /\ TellingIsTheRow
    /\ ScreensShowTheRow
    /\ NewsReachParties
=============================================================================
