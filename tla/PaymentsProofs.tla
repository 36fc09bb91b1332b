--------------------------- MODULE PaymentsProofs ---------------------------
(***************************************************************************)
(* Proofs about Payments, for any sets of orders, attempts, gateway payments *)
(* and workers.                                                              *)
(***************************************************************************)
EXTENDS Payments, TLAPS

\* Empty tables and books satisfy the invariant.
LEMMA InitInv == Init => SettlementInv
<1> SUFFICES ASSUME Init PROVE SettlementInv
  OBVIOUS
<1> USE NoneAssumption, CapAssumption DEF Init
<1>1. TypeOK
  BY DEF TypeOK, OrderRow, OrderStatus, PaymentRow, GatewayPayment, Request, IdleRequest, Idle
<1>2. RowsMatchGateway /\ ReceiptsAreSound /\ SucceededIsSettled /\ ReceiptRecordedOnce
  BY DEF RowsMatchGateway, ReceiptsAreSound, SucceededIsSettled, ReceiptRecordedOnce, Stored
<1>3. GatewayPaysAreForRows /\ RequestsAreSound /\ InsertsAreDistinct
  BY DEF GatewayPaysAreForRows, RequestsAreSound, SoundRequest, InsertsAreDistinct, Idle
<1>4. PaidIsBacked /\ AnswersAreSound /\ AckedIsSettled
  BY DEF PaidIsBacked, AnswersAreSound, AckedIsSettled, Paid
<1> QED
  BY <1>1, <1>2, <1>3, <1>4 DEF SettlementInv

\* A step that only changes what one worker remembers keeps the invariant if the
\* worker remembers something true and is not about to insert a row.
LEMMA ServeInv ==
    ASSUME SettlementInv, UNCHANGED <<database, gateway, alone>>,
           NEW w \in Workers, NEW r \in Request, r.step # "insert", SoundRequest(r),
           Serve(w, r)
    PROVE  SettlementInv'
<1> USE DEF SettlementInv, database, gateway
<1>1. TypeOK'
  BY DEF TypeOK, Serve
<1>2. (RowsMatchGateway /\ ReceiptsAreSound /\ SucceededIsSettled /\ ReceiptRecordedOnce)'
  BY DEF RowsMatchGateway, ReceiptsAreSound, SucceededIsSettled, ReceiptRecordedOnce, Stored,
         Held, PaidOrder, Paid
<1>3. (GatewayPaysAreForRows /\ PaidIsBacked)'
  BY DEF GatewayPaysAreForRows, PaidIsBacked, Paid, Stored, Held, Captured, PaidOrder
<1>4. (AnswersAreSound /\ AckedIsSettled)'
  BY DEF AnswersAreSound, AckedIsSettled, Paid, Held, PaidOrder
<1>5. RequestsAreSound'
  BY DEF RequestsAreSound, SoundRequest, SoundSettle, Serve, Stored, Held, Captured, PaidOrder,
         TypeOK
<1>6. InsertsAreDistinct'
  BY DEF InsertsAreDistinct, Serve, TypeOK
<1> QED
  BY <1>1, <1>2, <1>3, <1>4, <1>5, <1>6

\* What no step takes back: stored rows and their orders, money and what it was paid
\* for, paid orders, and the memory of receipts gone astray.
Kept ==
    /\ \A a \in Attempts : Stored(a) => Stored(a)' /\ payment'[a].order = payment[a].order
    /\ \A x \in GatewayPays : /\ Held(x) => Held(x)' /\ PaidOrder(x)' = PaidOrder(x)
                              /\ Captured(x) => Captured(x)'
    /\ \A o \in Orders : Paid(o) => Paid(o)'
    /\ astray \subseteq astray'

LEMMA CapturedIsHeld == \A x \in GatewayPays : Captured(x) => Held(x)
  BY DEF Captured, Held

\* Money the gateway holds was paid for an order of the table.
LEMMA HeldHasOrder ==
    ASSUME SettlementInv, NEW x \in GatewayPays, Held(x)
    PROVE  PaidOrder(x) \in Orders
  BY DEF SettlementInv, GatewayPaysAreForRows, RowsMatchGateway, Held, PaidOrder

\* Waiting requests stay right while another worker takes such a step.
LEMMA RequestsKept ==
    ASSUME SettlementInv, Kept,
           \A v \in Workers : \/ SoundRequest(request[v])'
                             \/ /\ request'[v] = request[v]
                                /\ request[v].step # "insert"
    PROVE  RequestsAreSound'
<1> SUFFICES ASSUME NEW v \in Workers, request'[v] = request[v], request[v].step # "insert"
             PROVE  SoundRequest(request[v])'
  BY DEF RequestsAreSound
<1>1. request'[v] = request[v] /\ SoundRequest(request[v]) /\ request[v] \in Request
  BY DEF SettlementInv, RequestsAreSound, TypeOK
<1>2. CASE request[v].step = "settle"
  <2>1. PICK r \in SettleRequest : r = request[v]
    BY <1>1, <1>2 DEF Request, IdleRequest, CreateRequest, InsertRequest, SettleRequest,
       FailRequest
  <2>2. SoundSettle(r) /\ r.attempt \in Attempts /\ r.receipt \in GatewayPays \cup {None}
          /\ r.hook \in GatewayPays \cup {None}
    BY <1>1, <1>2, <2>1 DEF SoundRequest, SettleRequest
  <2>3. Stored(r.attempt)' /\ payment'[r.attempt].order = payment[r.attempt].order
    BY <2>2 DEF SoundSettle, Kept
  <2>4. r.receipt # None => Held(r.receipt)'
    BY <2>2 DEF SoundSettle, Kept
  <2>5. r.receipt = None => Captured(r.hook)' /\ PaidOrder(r.hook)' = payment[r.attempt].order
    BY <2>2, CapturedIsHeld DEF SoundSettle, Kept
  <2>6. r.hook # None => /\ Held(r.hook)'
                         /\ PaidOrder(r.hook)' = payment[r.attempt].order \/ r.hook \in astray'
    BY <2>2 DEF SoundSettle, Kept
  <2> QED
    BY <1>1, <1>2, <2>1, <2>2, <2>3, <2>4, <2>5, <2>6 DEF SoundRequest, SoundSettle
<1>3. CASE request[v].step = "fail"
  BY <1>1, <1>3 DEF SoundRequest, Kept, Request, IdleRequest, CreateRequest, InsertRequest,
     SettleRequest, FailRequest
<1>4. CASE request[v].step \notin {"settle", "fail", "insert"}
  BY <1>1, <1>4 DEF SoundRequest
<1> QED
  BY <1>1, <1>2, <1>3, <1>4

\* So do the answers given.
LEMMA AnswersKept ==
    ASSUME SettlementInv, Kept, NEW x \in acked
    PROVE  Held(x)' /\ (Paid(PaidOrder(x))' \/ x \in astray')
<1>1. x \in GatewayPays /\ Held(x) /\ (Paid(PaidOrder(x)) \/ x \in astray)
  BY DEF SettlementInv, TypeOK, AnswersAreSound, AckedIsSettled
<1>2. PaidOrder(x) \in Orders /\ PaidOrder(x)' = PaidOrder(x)
  BY <1>1, HeldHasOrder DEF Kept
<1>3. Paid(PaidOrder(x)) => Paid(PaidOrder(x))'
  BY <1>2 DEF Kept, Paid
<1> QED
  BY <1>1, <1>3 DEF Kept

\* createPayment's await: the new gateway order belongs to no row yet.
LEMMA OpenGatewayOrderInv ==
    ASSUME SettlementInv, NEW w \in Workers, OpenGatewayOrder(w)
    PROVE  SettlementInv'
<1> USE DEF SettlementInv, database
<1> PICK a \in Attempts :
      /\ gatewayOrder[a] = None
      /\ gatewayOrder' = [gatewayOrder EXCEPT ![a] = request[w].order]
      /\ Serve(w, [step |-> "insert", order |-> request[w].order, attempt |-> a])
  BY DEF OpenGatewayOrder
<1>1. request[w].order \in Orders /\ UNCHANGED <<database, gatewayPay, acked, alone>>
  BY DEF OpenGatewayOrder, TypeOK, Request, IdleRequest, CreateRequest, InsertRequest,
         SettleRequest, FailRequest
<1>2. TypeOK'
  BY <1>1 DEF TypeOK, Serve, Request, InsertRequest
<1>3. ~Stored(a) /\ \A x \in GatewayPays : gatewayPay[x].outcome # "none"
                                          => gatewayPay[x].attempt # a
  BY NoneAssumption DEF RowsMatchGateway, GatewayPaysAreForRows
<1>4. \A x \in GatewayPays : gatewayPay[x].outcome # "none"
                               => PaidOrder(x)' = PaidOrder(x)
  BY <1>1, <1>3 DEF PaidOrder, GatewayPaysAreForRows, TypeOK
<1>5. \A x \in GatewayPays :
         Held(x)' = Held(x) /\ Captured(x)' = Captured(x) /\ (Captured(x) => Held(x))
  BY <1>1 DEF Held, Captured
<1>6. \A x \in GatewayPays : Held(x) => PaidOrder(x)' = PaidOrder(x)
  BY <1>4 DEF Held
<1>7. (RowsMatchGateway /\ SucceededIsSettled /\ GatewayPaysAreForRows
         /\ ReceiptRecordedOnce)'
  BY <1>1, <1>3 DEF RowsMatchGateway, SucceededIsSettled, GatewayPaysAreForRows,
                    ReceiptRecordedOnce, Stored, Paid, TypeOK
<1>8. Kept
  BY <1>1, <1>5, <1>6 DEF Kept, Stored, Paid
<1>9. (AnswersAreSound /\ AckedIsSettled)'
  BY <1>1, <1>8, AnswersKept DEF AnswersAreSound, AckedIsSettled
<1>10. (ReceiptsAreSound /\ PaidIsBacked)'
  BY <1>1, <1>5, <1>6 DEF ReceiptsAreSound, PaidIsBacked, Stored, Paid, TypeOK, PaymentRow
<1>11. RequestsAreSound'
  <2>1. SoundRequest(request[w])'
    BY <1>1, <1>3 DEF SoundRequest, Serve, Stored, TypeOK
  <2>2. ASSUME NEW v \in Workers \ {w}, request[v].step = "insert"
        PROVE  SoundRequest(request[v])'
    <3>1. request'[v] = request[v] /\ SoundRequest(request[v]) /\ request[v] \in Request
      BY DEF Serve, RequestsAreSound, TypeOK
    <3>2. request[v].attempt # a
      BY <2>2, <3>1, NoneAssumption DEF SoundRequest, Request, IdleRequest, CreateRequest,
         InsertRequest, SettleRequest, FailRequest
    <3> QED
      BY <1>1, <2>2, <3>1, <3>2 DEF SoundRequest, Stored, TypeOK
  <2>3. \A v \in Workers \ {w} : request'[v] = request[v]
    BY DEF Serve, TypeOK
  <2> QED
    BY <1>8, <2>1, <2>2, <2>3, RequestsKept
<1>12. InsertsAreDistinct'
  BY NoneAssumption DEF InsertsAreDistinct, RequestsAreSound, SoundRequest, Serve, TypeOK,
     Request, IdleRequest, CreateRequest, InsertRequest, SettleRequest, FailRequest
<1> QED
  BY <1>2, <1>7, <1>9, <1>10, <1>11, <1>12

\* createPayment's write: the row is new, so nothing another request relies on
\* is lost.
LEMMA InsertPaymentInv ==
    ASSUME SettlementInv, NEW w \in Workers, InsertPayment(w)
    PROVE  SettlementInv'
<1> USE DEF SettlementInv, gateway, InsertPayment
<1> DEFINE a == request[w].attempt
<1>1. request[w].order \in Orders /\ a \in Attempts
  BY DEF TypeOK, Request, IdleRequest, CreateRequest, InsertRequest, SettleRequest, FailRequest
<1>2. ~Stored(a) /\ gatewayOrder[a] = request[w].order
  BY DEF RequestsAreSound, SoundRequest
<1>3. payment[a].receipt = None
  BY <1>1, <1>2 DEF ReceiptsAreSound
<1>4. TypeOK'
  BY <1>1 DEF TypeOK, PaymentRow, Finish, Serve, Request, IdleRequest, Idle
<1>5. \A b \in Attempts : b # a => payment'[b] = payment[b]
  BY DEF TypeOK
<1>6. payment'[a] = [status |-> "CREATED", order |-> request[w].order, receipt |-> None]
  BY <1>1 DEF TypeOK
<1>7. \A v \in Workers \ {w} : request'[v] = request[v] /\
        (request[v].step = "insert" => request[v].attempt # a)
  BY DEF Finish, Serve, InsertsAreDistinct, TypeOK
<1> HIDE DEF a
<1>8. (RowsMatchGateway /\ SucceededIsSettled /\ GatewayPaysAreForRows)'
  BY <1>1, <1>2, <1>5, <1>6
  DEF RowsMatchGateway, SucceededIsSettled, GatewayPaysAreForRows, Stored, Paid
<1>9. (ReceiptsAreSound /\ ReceiptRecordedOnce)'
  BY <1>1, <1>3, <1>5, <1>6
  DEF ReceiptsAreSound, ReceiptRecordedOnce, Stored, Held, Paid, PaidOrder
<1>10. PaidIsBacked'
  <2>1. \A b \in Attempts : /\ payment'[b].receipt = payment[b].receipt
                            /\ payment[b].receipt # None => payment'[b] = payment[b]
    BY <1>3, <1>5, <1>6
  <2> QED
    BY <2>1, NoneAssumption DEF PaidIsBacked, Held, Captured, Paid, PaidOrder
<1>11. Kept
  BY <1>2, <1>5 DEF Kept, Stored, Held, Captured, Paid, PaidOrder
<1>12. (AnswersAreSound /\ AckedIsSettled)'
  BY <1>11, AnswersKept DEF AnswersAreSound, AckedIsSettled
<1>13. RequestsAreSound'
  <2>1. SoundRequest(request[w])'
    BY DEF SoundRequest, Finish, Serve, Idle, TypeOK
  <2>2. ASSUME NEW v \in Workers \ {w}, request[v].step = "insert"
        PROVE  SoundRequest(request[v])'
    <3>1. SoundRequest(request[v]) /\ request[v] \in Request
      BY DEF RequestsAreSound, TypeOK
    <3> QED
      BY <1>5, <1>7, <2>2, <3>1 DEF SoundRequest, Stored, Request, IdleRequest, CreateRequest,
         InsertRequest, SettleRequest, FailRequest
  <2> QED
    BY <1>7, <1>11, <2>1, <2>2, RequestsKept
<1>14. InsertsAreDistinct'
  BY DEF InsertsAreDistinct, Finish, Serve, Idle, TypeOK
<1> QED
  BY <1>4, <1>8, <1>9, <1>10, <1>12, <1>13, <1>14

\* The gateway authorizes, captures or declines a payment that has no outcome yet, or
\* captures an authorized one.
LEMMA GatewayInv ==
    ASSUME SettlementInv, NEW x \in GatewayPays,
           CaptureAtGateway(x) \/ \E a \in Attempts : PayAtGateway(x, a)
    PROVE  SettlementInv'
<1> USE DEF SettlementInv, database
<1>1. /\ UNCHANGED <<database, gatewayOrder, acked, request, alone>>
      /\ gatewayPay' \in [GatewayPays -> GatewayPayment]
      /\ \A y \in GatewayPays : y # x => gatewayPay'[y] = gatewayPay[y]
      /\ Held(x) => Held(x)' /\ gatewayPay'[x].attempt = gatewayPay[x].attempt
      /\ ~Captured(x)
      /\ gatewayPay'[x].attempt \in Attempts /\ Stored(gatewayPay'[x].attempt)
  BY DEF CaptureAtGateway, PayAtGateway, TypeOK, GatewayPayment, Held, Captured,
         GatewayPaysAreForRows
<1>2. TypeOK'
  BY <1>1 DEF TypeOK
<1>3. Kept
  BY <1>1 DEF Kept, Stored, Held, Captured, Paid, PaidOrder
<1>4. (RowsMatchGateway /\ SucceededIsSettled /\ GatewayPaysAreForRows
         /\ ReceiptRecordedOnce /\ InsertsAreDistinct)'
  BY <1>1 DEF RowsMatchGateway, SucceededIsSettled, GatewayPaysAreForRows,
     ReceiptRecordedOnce, InsertsAreDistinct, Stored, Paid
<1>5. \A y \in GatewayPays : /\ Held(y) => Held(y)' /\ PaidOrder(y)' = PaidOrder(y)
                             /\ Captured(y) => Captured(y)' /\ PaidOrder(y)' = PaidOrder(y)
  BY <1>3, CapturedIsHeld DEF Kept
<1>6. ReceiptsAreSound'
  BY <1>1, <1>5 DEF ReceiptsAreSound, Paid, Stored, TypeOK, PaymentRow
<1>7. PaidIsBacked'
  BY <1>1, <1>5 DEF PaidIsBacked, Paid
<1>8. (AnswersAreSound /\ AckedIsSettled)'
  BY <1>1, <1>3, AnswersKept DEF AnswersAreSound, AckedIsSettled
<1>9. RequestsAreSound'
  <2>1. ASSUME NEW v \in Workers, request[v].step = "insert" PROVE SoundRequest(request[v])'
    BY <1>1, <2>1 DEF RequestsAreSound, SoundRequest, Stored
  <2> QED
    BY <1>1, <1>3, <2>1, RequestsKept
<1> QED
  BY <1>2, <1>4, <1>6, <1>7, <1>8, <1>9

\* The settling transaction: the gateway holds the money of the receipt it writes, no
\* other row names it, and the order it was made for is the row's or another's, which
\* is remembered.
LEMMA SettleStepInv ==
    ASSUME SettlementInv, NEW w \in Workers, Settle(w)
    PROVE  SettlementInv'
<1> USE DEF SettlementInv
<1>1. PICK a \in Attempts, x \in GatewayPays \cup {None}, h \in GatewayPays \cup {None},
           seen \in OrderStatus :
        /\ a = request[w].attempt /\ x = request[w].receipt
        /\ h = request[w].hook /\ seen = request[w].seen
  BY DEF Settle, TypeOK, Request, IdleRequest, CreateRequest, InsertRequest, SettleRequest,
         FailRequest
<1>2. /\ Stored(a)
      /\ x # None => Held(x)
      /\ x = None => h # None /\ Captured(h) /\ PaidOrder(h) = payment[a].order
      /\ h # None => Held(h) /\ (PaidOrder(h) = payment[a].order \/ h \in astray)
  BY <1>1 DEF Settle, RequestsAreSound, SoundRequest, SoundSettle
<1>3. PICK o \in Orders : o = payment[a].order
  BY <1>1, <1>2 DEF RowsMatchGateway
<1>4. UNCHANGED <<gatewayOrder, gatewayPay, alone>> /\ Finish(w)
  BY DEF Settle
<1>5. /\ payment'[a].status = "SUCCEEDED" /\ payment'[a].receipt = x
      /\ payment'[a].order = o
      /\ \A b \in Attempts : b # a => payment'[b] = payment[b]
      /\ \A b \in Attempts : payment'[b].order = payment[b].order
  BY <1>1, <1>3 DEF Settle, TypeOK, PaymentRow
<1>6. /\ order'[o].paymentStatus = "COMPLETED"
      /\ \A p \in Orders : p # o => order'[p] = order[p]
  BY <1>1, <1>3 DEF Settle, TypeOK
<1>7. /\ acked' = acked \cup ({h} \ {None})
      /\ astray' = astray \cup {y \in {x} \ {None} : PaidOrder(y) # o}
  BY <1>1, <1>3 DEF Settle
<1>8. TypeOK'
  <2>1. payment' \in [Attempts -> PaymentRow]
    BY <1>1 DEF Settle, TypeOK, PaymentRow
  <2>2. order' \in [Orders -> OrderRow]
    BY <1>1, <1>3 DEF Settle, TypeOK, OrderRow, Confirm, OrderStatus
  <2>3. audit' \in [Attempts -> 0..AuditCap]
    BY <1>1, CapAssumption DEF Settle, TypeOK
  <2>4. acked' \subseteq GatewayPays /\ astray' \subseteq GatewayPays
    BY <1>1, <1>7 DEF TypeOK
  <2>5. request' \in [Workers -> Request]
    BY <1>4 DEF Finish, Serve, Idle, TypeOK, Request, IdleRequest
  <2> QED
    BY <1>4, <2>1, <2>2, <2>3, <2>4, <2>5 DEF TypeOK
<1>9. \A b \in Attempts : Stored(b)' <=> Stored(b)
  BY <1>2, <1>5 DEF Stored
<1>10. \A y : Captured(y)' = Captured(y) /\ Held(y)' = Held(y) /\ PaidOrder(y)' = PaidOrder(y)
  BY <1>4 DEF Captured, Held, PaidOrder
<1>11. \A p \in Orders : Paid(p) => Paid(p)'
  BY <1>6 DEF Paid
<1>12. Kept
  BY <1>5, <1>7, <1>9, <1>10, <1>11 DEF Kept
<1>13. (RowsMatchGateway /\ GatewayPaysAreForRows)'
  BY <1>4, <1>5, <1>9 DEF RowsMatchGateway, GatewayPaysAreForRows
<1>14. SucceededIsSettled'
  <2> SUFFICES ASSUME NEW b \in Attempts, payment'[b].status = "SUCCEEDED"
               PROVE  order'[payment'[b].order].paymentStatus = "COMPLETED"
    BY DEF SucceededIsSettled, Paid
  <2>1. CASE b = a
    BY <1>5, <1>6, <2>1
  <2>2. CASE b # a
    <3>1. Stored(b) /\ Paid(payment[b].order) /\ payment[b].order \in Orders
      BY <1>5, <2>2 DEF SucceededIsSettled, RowsMatchGateway, Stored
    <3> QED
      BY <1>5, <1>11, <3>1 DEF Paid
  <2> QED
    BY <2>1, <2>2
<1>15. ReceiptsAreSound'
  <2> SUFFICES ASSUME NEW b \in Attempts, NEW y \in GatewayPays, payment'[b].receipt = y
               PROVE  /\ Stored(b)' /\ Held(y)'
                      /\ PaidOrder(y)' = payment'[b].order \/ y \in astray'
                      /\ order'[payment'[b].order].paymentStatus = "COMPLETED"
    BY <1>8 DEF ReceiptsAreSound, TypeOK, PaymentRow, Held, PaidOrder, Paid
  <2>1. CASE b = a
    <3>1. y = x /\ x # None
      BY <1>5, <2>1, NoneAssumption
    <3>2. PaidOrder(y) = o \/ y \in astray'
      BY <1>7, <3>1
    <3> QED
      BY <1>2, <1>3, <1>5, <1>6, <1>9, <1>10, <2>1, <3>1, <3>2
  <2>2. CASE b # a
    <3>1. payment'[b] = payment[b] /\ y # None
      BY <1>5, <2>2, NoneAssumption
    <3>2. /\ Stored(b) /\ Held(y) /\ (PaidOrder(y) = payment[b].order \/ y \in astray)
          /\ Paid(payment[b].order)
      BY <3>1 DEF ReceiptsAreSound
    <3>3. payment[b].order \in Orders
      BY <3>2 DEF RowsMatchGateway
    <3> QED
      BY <1>7, <1>9, <1>10, <1>11, <3>1, <3>2, <3>3 DEF Paid
  <2> QED
    BY <2>1, <2>2
<1>16. ReceiptRecordedOnce'
  <2>1. x # None => \A b \in Attempts : b # a => payment[b].receipt # x
    BY <1>1 DEF Settle, ReceiptFree
  <2> QED
    BY <1>1, <1>5, <2>1 DEF ReceiptRecordedOnce
<1>17. PaidIsBacked'
  <2> SUFFICES ASSUME NEW p \in Orders, Paid(p)',
                      \A y \in GatewayPays : ~(Captured(y)' /\ PaidOrder(y)' = p)
               PROVE  \E b \in Attempts, y \in GatewayPays :
                        /\ payment'[b].order = p /\ payment'[b].receipt = y /\ Held(y)'
                        /\ \A c \in Attempts : payment'[c].receipt = y => payment'[c].order = p
    BY DEF PaidIsBacked
  <2>0. \A b, c \in Attempts : b # c /\ payment'[b].receipt # None
                                 => payment'[b].receipt # payment'[c].receipt
    BY <1>16 DEF ReceiptRecordedOnce
  <2>1. ASSUME NEW b \in Attempts, NEW y \in GatewayPays, payment'[b].order = p,
               payment'[b].receipt = y, Held(y)
        PROVE  \A c \in Attempts : payment'[c].receipt = y => payment'[c].order = p
    BY <2>0, <2>1, NoneAssumption
  <2>2. CASE p = o
    <3>1. x \in GatewayPays /\ Held(x)
      <4>1. CASE x = None
        <5>1. Captured(h) /\ PaidOrder(h) = o
          BY <1>2, <1>3, <4>1
        <5>2. h \in GatewayPays
          BY <1>1, <1>2, <4>1
        <5> QED
          BY <1>10, <2>2, <5>1, <5>2
      <4>2. CASE x # None
        BY <1>2, <4>2
      <4> QED
        BY <4>1, <4>2
    <3> QED
      BY <1>5, <1>10, <2>1, <2>2, <3>1
  <2>3. CASE p # o
    <3>1. Paid(p)
      BY <1>6, <2>3 DEF Paid
    <3>2. PICK b \in Attempts, y \in GatewayPays :
            payment[b].order = p /\ payment[b].receipt = y /\ Held(y)
      BY <1>10, <3>1 DEF PaidIsBacked
    <3>3. payment'[b] = payment[b]
      BY <1>3, <1>5, <2>3, <3>2
    <3> QED
      BY <1>10, <2>1, <3>2, <3>3
  <2> QED
    BY <2>2, <2>3
<1>18. (AnswersAreSound /\ AckedIsSettled)'
  <2>1. h # None => Held(h)' /\ (Paid(PaidOrder(h))' \/ h \in astray')
    <3> SUFFICES ASSUME h # None PROVE Held(h)' /\ (Paid(PaidOrder(h))' \/ h \in astray')
      OBVIOUS
    <3>1. Held(h)' /\ (h \in astray => h \in astray')
      BY <1>2, <1>7, <1>10
    <3>2. CASE PaidOrder(h) = o
      <4>1. PaidOrder(h)' = o
        BY <1>10, <3>2
      <4> QED
        BY <1>6, <3>1, <4>1 DEF Paid
    <3>3. CASE h \in astray
      BY <3>1, <3>3
    <3> QED
      BY <1>2, <1>3, <3>2, <3>3
  <2> QED
    BY <1>7, <1>12, <2>1, AnswersKept DEF AnswersAreSound, AckedIsSettled
<1>19. RequestsAreSound'
  <2>1. SoundRequest(request[w])'
    BY <1>4 DEF SoundRequest, Finish, Serve, Idle, TypeOK
  <2>2. \A v \in Workers \ {w} : request'[v] = request[v]
    BY <1>4 DEF Finish, Serve, TypeOK
  <2>3. ASSUME NEW v \in Workers \ {w}, request[v].step = "insert"
        PROVE  SoundRequest(request[v])'
    <3>1. SoundRequest(request[v]) /\ request[v].attempt \in Attempts
      BY <2>3 DEF RequestsAreSound, TypeOK, Request, IdleRequest, CreateRequest, InsertRequest,
         SettleRequest, FailRequest
    <3> QED
      BY <1>4, <1>9, <2>2, <2>3, <3>1 DEF SoundRequest
  <2> QED
    BY <1>12, <2>1, <2>2, <2>3, RequestsKept
<1>20. InsertsAreDistinct'
  BY <1>4 DEF InsertsAreDistinct, Finish, Serve, Idle, TypeOK
<1> QED
  BY <1>8, <1>13, <1>14, <1>15, <1>16, <1>17, <1>18, <1>19, <1>20

\* A failure report overwrites the status of a row and leaves its evidence alone.
LEMMA MarkFailedInv ==
    ASSUME SettlementInv, NEW w \in Workers, MarkFailed(w)
    PROVE  SettlementInv'
<1> USE DEF SettlementInv
<1>1. PICK a \in Attempts : a = request[w].attempt /\ Stored(a)
  BY DEF MarkFailed, TypeOK, Request, IdleRequest, CreateRequest, InsertRequest, SettleRequest,
         FailRequest, RequestsAreSound, SoundRequest
<1>2. UNCHANGED <<order, audit, gatewayOrder, gatewayPay, acked, alone, astray>> /\ Finish(w)
  BY DEF MarkFailed, gateway
<1>3. /\ \A b \in Attempts : /\ payment'[b].order = payment[b].order
                              /\ payment'[b].receipt = payment[b].receipt
                              /\ \/ payment'[b].status = payment[b].status
                                 \/ b = a /\ payment'[b].status = "FAILED"
  BY <1>1 DEF MarkFailed, TypeOK, PaymentRow
<1>4. TypeOK'
  BY <1>1, <1>2 DEF MarkFailed, TypeOK, PaymentRow, Finish, Serve, Idle, Request, IdleRequest,
                    CreateRequest, InsertRequest, SettleRequest, FailRequest
<1>5. \A b \in Attempts : Stored(b)' <=> Stored(b)
  BY <1>1, <1>3 DEF Stored
<1>6. (RowsMatchGateway /\ SucceededIsSettled /\ GatewayPaysAreForRows /\ ReceiptsAreSound
         /\ ReceiptRecordedOnce /\ PaidIsBacked)'
  BY <1>2, <1>3, <1>5 DEF RowsMatchGateway, SucceededIsSettled, GatewayPaysAreForRows,
     ReceiptsAreSound, ReceiptRecordedOnce, PaidIsBacked, Held, Captured, PaidOrder, Paid
<1>7. Kept
  BY <1>2, <1>3, <1>5 DEF Kept, Held, Captured, PaidOrder, Paid
<1>8. (AnswersAreSound /\ AckedIsSettled)'
  BY <1>2, <1>7, AnswersKept DEF AnswersAreSound, AckedIsSettled
<1>9. RequestsAreSound'
  <2>1. SoundRequest(request[w])'
    BY <1>2 DEF SoundRequest, Finish, Serve, Idle, TypeOK
  <2>2. \A v \in Workers \ {w} : request'[v] = request[v]
    BY <1>2 DEF Finish, Serve, TypeOK
  <2>3. ASSUME NEW v \in Workers \ {w}, request[v].step = "insert"
        PROVE  SoundRequest(request[v])'
    <3>1. SoundRequest(request[v]) /\ request[v].attempt \in Attempts
      BY <2>3 DEF RequestsAreSound, TypeOK, Request, IdleRequest, CreateRequest, InsertRequest,
         SettleRequest, FailRequest
    <3> QED
      BY <1>2, <1>5, <2>2, <2>3, <3>1 DEF SoundRequest
  <2> QED
    BY <1>7, <2>1, <2>2, <2>3, RequestsKept
<1>10. InsertsAreDistinct'
  BY <1>2 DEF InsertsAreDistinct, Finish, Serve, Idle, TypeOK
<1> QED
  BY <1>4, <1>6, <1>8, <1>9, <1>10

\* An acknowledgement without a write, and a status chosen by staff.
LEMMA RestInv ==
    ASSUME SettlementInv, NEW w \in Workers,
           (\E x \in GatewayPays : WebhookDuplicate(w, x))
             \/ (\E o \in Orders : UpdateOrderStatusAdmin(w, o))
    PROVE  SettlementInv'
<1> USE DEF SettlementInv, database, gateway
<1>1. UNCHANGED <<payment, gatewayOrder, gatewayPay, request, astray>>
  BY DEF WebhookDuplicate, UpdateOrderStatusAdmin
<1>2. \A o \in Orders : order'[o].paymentStatus = order[o].paymentStatus
  BY DEF WebhookDuplicate, UpdateOrderStatusAdmin, TypeOK
<1>3. TypeOK'
  BY StatusAssumption DEF WebhookDuplicate, UpdateOrderStatusAdmin, TypeOK, OrderRow
<1>4. (RowsMatchGateway /\ GatewayPaysAreForRows /\ ReceiptRecordedOnce /\ InsertsAreDistinct)'
  BY <1>1 DEF RowsMatchGateway, GatewayPaysAreForRows, ReceiptRecordedOnce,
     InsertsAreDistinct, Stored
<1>5. (ReceiptsAreSound /\ SucceededIsSettled)'
  BY <1>1, <1>2 DEF RowsMatchGateway, ReceiptsAreSound, SucceededIsSettled, Stored, Held,
     PaidOrder, Paid
<1>6. PaidIsBacked'
  BY <1>1, <1>2 DEF PaidIsBacked, Held, Captured, PaidOrder, Paid
<1>7. RequestsAreSound'
  BY <1>1 DEF RequestsAreSound, SoundRequest, SoundSettle, Stored, Held, Captured, PaidOrder
<1>8. Kept
  BY <1>1, <1>2 DEF Kept, Stored, Held, Captured, PaidOrder, Paid
<1>9. (AnswersAreSound /\ AckedIsSettled)'
  <2>1. ASSUME NEW x \in GatewayPays, WebhookDuplicate(w, x)
        PROVE  Held(x)' /\ (Paid(PaidOrder(x))' \/ x \in astray')
    <3>1. PICK a \in Matches(x) : payment[a].status = "SUCCEEDED" /\ Held(x)
      BY <2>1 DEF WebhookDuplicate, AlreadyProcessed
    <3>2. a \in Attempts /\ Paid(payment[a].order)
      BY <3>1 DEF Matches, MatchesOrder, SucceededIsSettled
    <3>3. PaidOrder(x) = payment[a].order \/ x \in astray
      BY <3>1, <3>2, NoneAssumption
      DEF Matches, MatchesOrder, RowsMatchGateway, ReceiptsAreSound, PaidOrder
    <3>4. PaidOrder(x) \in Orders
      BY <3>1, HeldHasOrder
    <3> QED
      BY <1>1, <1>2, <3>1, <3>2, <3>3, <3>4 DEF Held, PaidOrder, Paid
  <2>2. \A x \in acked' : x \in acked \/ (x \in GatewayPays /\ WebhookDuplicate(w, x))
    BY DEF WebhookDuplicate, UpdateOrderStatusAdmin
  <2> QED
    BY <1>8, <2>1, <2>2, AnswersKept DEF AnswersAreSound, AckedIsSettled
<1> QED
  BY <1>3, <1>4, <1>5, <1>6, <1>7, <1>9

\* Every step keeps the invariant.
LEMMA NextInv == SettlementInv /\ [Next]_vars => SettlementInv'
<1> SUFFICES ASSUME SettlementInv, [Next]_vars PROVE SettlementInv'
  OBVIOUS
<1>1. ASSUME NEW w \in Workers, NEW o \in Orders, CreatePayment(w, o) PROVE SettlementInv'
  <2> DEFINE r == [step |-> "create", order |-> o]
  <2>1. r \in Request /\ r.step # "insert" /\ SoundRequest(r)
    BY DEF Request, CreateRequest, SoundRequest
  <2> QED
    BY <1>1, <2>1, ServeInv DEF CreatePayment
<1>2. ASSUME NEW w \in Workers, NEW a \in Attempts, NEW x \in GatewayPays,
             VerifyReceipt(w, a, x)
      PROVE  SettlementInv'
  <2>1. payment[a].order \in Orders
    BY <1>2 DEF VerifyReceipt, SettlementInv, RowsMatchGateway
  <2>2. PICK seen \in OrderStatus : seen = order[payment[a].order].status
    BY <2>1 DEF SettlementInv, TypeOK, OrderRow
  <2> DEFINE r == [step |-> "settle", attempt |-> a, receipt |-> x,
                   seen |-> seen, hook |-> None]
  <2>3. r \in Request /\ r.step # "insert" /\ SoundRequest(r)
    BY <1>2, NoneAssumption
    DEF Request, SettleRequest, SoundRequest, SoundSettle, VerifyReceipt, SignedReceipt
  <2> QED
    BY <1>2, <2>2, <2>3, ServeInv DEF VerifyReceipt, ReadToSettle
<1>3. ASSUME NEW w \in Workers, NEW a \in Attempts, VerifyFailure(w, a) PROVE SettlementInv'
  <2> DEFINE r == [step |-> "fail", attempt |-> a]
  <2>1. r \in Request /\ r.step # "insert" /\ SoundRequest(r)
    BY <1>3 DEF Request, FailRequest, SoundRequest, VerifyFailure
  <2> QED
    BY <1>3, <2>1, ServeInv DEF VerifyFailure
<1>4. ASSUME NEW w \in Workers, NEW x \in GatewayPays,
             WebhookSucceeded(w, x) \/ WebhookOrderPaid(w, x)
      PROVE  SettlementInv'
  <2>1. PICK a \in Matches(x), receipt \in GatewayPays \cup {None} :
          /\ ReadToSettle(w, a, receipt, x)
          /\ \/ receipt = x /\ Held(x)
             \/ receipt = payment[a].receipt /\ Captured(x) /\ a \in MatchesOrder(x)
    BY <1>4 DEF WebhookSucceeded, WebhookOrderPaid, Matches, MatchesOrder, SettlementInv,
       TypeOK, PaymentRow
  <2>2. a \in Attempts /\ Stored(a) /\ payment[a].order \in Orders
    BY <2>1 DEF Matches, MatchesOrder, SettlementInv, RowsMatchGateway
  <2>3. PaidOrder(x) = payment[a].order \/ (receipt = x /\ x \in astray)
    BY <2>1, <2>2, NoneAssumption
    DEF Matches, MatchesOrder, SettlementInv, RowsMatchGateway, ReceiptsAreSound, PaidOrder
  <2>4. PICK seen \in OrderStatus : seen = order[payment[a].order].status
    BY <2>2 DEF SettlementInv, TypeOK, OrderRow
  <2> DEFINE r == [step |-> "settle", attempt |-> a, receipt |-> receipt,
                   seen |-> seen, hook |-> x]
  <2>5. SoundSettle(r)
    <3>1. Held(x)
      BY <2>1, CapturedIsHeld
    <3>2. receipt # None => Held(receipt)
      BY <2>1, <2>2 DEF SettlementInv, ReceiptsAreSound
    <3>3. receipt = None => Captured(x) /\ PaidOrder(x) = payment[a].order
      BY <2>1, <2>3, NoneAssumption
    <3> QED
      BY <2>2, <2>3, <3>1, <3>2, <3>3, NoneAssumption DEF SoundSettle
  <2>6. r \in Request /\ r.step # "insert" /\ SoundRequest(r)
    BY <2>2, <2>5 DEF Request, SettleRequest, SoundRequest
  <2> QED
    BY <1>4, <2>1, <2>4, <2>6, ServeInv DEF WebhookSucceeded, WebhookOrderPaid, ReadToSettle
<1>5. ASSUME NEW w \in Workers, NEW x \in GatewayPays, WebhookFailed(w, x)
      PROVE  SettlementInv'
  <2>1. PICK a \in Matches(x) : Serve(w, [step |-> "fail", attempt |-> a])
    BY <1>5 DEF WebhookFailed
  <2> DEFINE r == [step |-> "fail", attempt |-> a]
  <2>2. r \in Request /\ r.step # "insert" /\ SoundRequest(r)
    BY <2>1 DEF Request, FailRequest, SoundRequest, Matches, MatchesOrder
  <2> QED
    BY <1>5, <2>1, <2>2, ServeInv DEF WebhookFailed
<1>6. ASSUME NEW w \in Workers, SettleConflict(w) \/ Abandon(w) PROVE SettlementInv'
  <2>1. Idle \in Request /\ Idle.step # "insert" /\ SoundRequest(Idle)
    BY DEF Idle, Request, IdleRequest, SoundRequest
  <2> QED
    BY <1>6, <2>1, ServeInv DEF SettleConflict, Abandon, Finish
<1>7. CASE UNCHANGED vars
  BY <1>7 DEF vars, SettlementInv, TypeOK, RowsMatchGateway, ReceiptsAreSound,
     SucceededIsSettled, GatewayPaysAreForRows, RequestsAreSound, SoundRequest, SoundSettle,
     InsertsAreDistinct, ReceiptRecordedOnce, AnswersAreSound, AckedIsSettled, PaidIsBacked,
     Stored, Held, Captured, PaidOrder, Paid
<1> QED
  BY <1>1, <1>2, <1>3, <1>4, <1>5, <1>6, <1>7, OpenGatewayOrderInv, InsertPaymentInv,
     GatewayInv, SettleStepInv, MarkFailedInv, RestInv DEF Next

\* The inductive invariant holds throughout: rows, gateway and waiting requests
\* agree whatever createPayment, verifyPayment and handleWebhook do in any order.
THEOREM SettlementCorrect == Spec => []SettlementInv
  BY InitInv, NextInv, PTL DEF Spec

\* Every variable keeps its shape under every handler.
THEOREM TypeCorrect == Spec => []TypeOK
<1>1. SettlementInv => TypeOK
  BY DEF SettlementInv
<1> QED
  BY <1>1, SettlementCorrect, PTL

\* An order shown as paid always has money of its own behind it: a payment no other
\* order shares, or one captured for it.
THEOREM PaidOrdersAreBacked == Spec => []PaidIsBacked
<1>1. SettlementInv => PaidIsBacked
  BY DEF SettlementInv
<1> QED
  BY <1>1, SettlementCorrect, PTL

\* A SUCCEEDED row always belongs to a COMPLETED order.
THEOREM SucceededRowsAreSettled == Spec => []SucceededIsSettled
<1>1. SettlementInv => SucceededIsSettled
  BY DEF SettlementInv
<1> QED
  BY <1>1, SettlementCorrect, PTL

\* A success event is answered with a 2xx only once its order is paid, or its payment
\* has been recorded for another.
THEOREM AnswersComeAfterSettling == Spec => []AckedIsSettled
<1>1. SettlementInv => AckedIsSettled
  BY DEF SettlementInv
<1> QED
  BY <1>1, SettlementCorrect, PTL

\* No gateway payment is ever recorded in two rows.
THEOREM ReceiptsAreRecordedOnce == Spec => []ReceiptRecordedOnce
<1>1. SettlementInv => ReceiptRecordedOnce
  BY DEF SettlementInv
<1> QED
  BY <1>1, SettlementCorrect, PTL

-----------------------------------------------------------------------------
(* Refinement *)

\* A step that changes neither the gateway's books nor a receipt nor a paymentStatus
\* is a stutter of Settlement.
LEMMA QuietStep ==
    ASSUME UNCHANGED <<gatewayOrder, gatewayPay>>,
           \A a \in Attempts, o \in Orders, x \in GatewayPays :
              payment'[a].order = o /\ payment'[a].receipt = x
                <=> payment[a].order = o /\ payment[a].receipt = x,
           \A o \in Orders : order'[o].paymentStatus = order[o].paymentStatus
    PROVE  UNCHANGED Abstract!vars
  BY DEF Abstract!vars, HeldPayments, CapturedOrders, OrderCredits, Credits, PaidOrders, Held,
     Captured, PaidOrder, Paid

\* The gateway's steps and the opening of its orders only add to its books.
LEMMA ReceiveStep ==
    ASSUME SettlementInv, Kept, UNCHANGED <<payment, order>>
    PROVE  [Abstract!Next]_(Abstract!vars)
<1>1. HeldPayments' \in SUBSET GatewayPays /\ HeldPayments \subseteq HeldPayments'
  BY DEF Kept, HeldPayments
<1>2. CapturedOrders' \in SUBSET Orders /\ CapturedOrders \subseteq CapturedOrders'
  BY CapturedIsHeld DEF Kept, CapturedOrders
<1>3. UNCHANGED <<OrderCredits, PaidOrders>>
  BY DEF OrderCredits, Credits, PaidOrders, Paid
<1> QED
  BY <1>1, <1>2, <1>3 DEF Abstract!Next, Abstract!Receive

\* The settling transaction credits the order of its row with the receipt, or, when the
\* event brought none, recognises money captured for it.
LEMMA SettleRefines ==
    ASSUME SettlementInv, SettlementInv', NEW w \in Workers, Settle(w)
    PROVE  Abstract!Next
<1> USE DEF SettlementInv
<1>1. PICK a \in Attempts, x \in GatewayPays \cup {None}, h \in GatewayPays \cup {None} :
        a = request[w].attempt /\ x = request[w].receipt /\ h = request[w].hook
  BY DEF Settle, TypeOK, Request, IdleRequest, CreateRequest, InsertRequest, SettleRequest,
         FailRequest
<1>2. /\ Stored(a)
      /\ x # None => Held(x)
      /\ x = None => h # None /\ Captured(h) /\ PaidOrder(h) = payment[a].order
  BY <1>1 DEF Settle, RequestsAreSound, SoundRequest, SoundSettle
<1>3. PICK o \in Orders : o = payment[a].order
  BY <1>1, <1>2 DEF RowsMatchGateway
<1>4. UNCHANGED <<HeldPayments, CapturedOrders>>
  BY DEF Settle, HeldPayments, CapturedOrders, Held, Captured, PaidOrder
<1>5. PaidOrders' = PaidOrders \cup {o}
  BY <1>1, <1>3 DEF Settle, PaidOrders, Paid, TypeOK
<1>6. /\ payment'[a].receipt = x /\ payment'[a].order = o
      /\ \A b \in Attempts : b # a => payment'[b] = payment[b]
  BY <1>1, <1>3 DEF Settle, TypeOK, PaymentRow
<1>7. \A p \in Orders \ {o} : Credits(p)' = Credits(p)
  BY <1>3, <1>6 DEF Credits
<1>8. OrderCredits' = [OrderCredits EXCEPT ![o] = Credits(o)']
  BY <1>7 DEF OrderCredits
<1> DEFINE kept == Credits(o) \cap Credits(o)'
<1>9. kept \in SUBSET OrderCredits[o]
  BY DEF OrderCredits
<1>10. CASE x # None
  <2>1. x \in HeldPayments
    BY <1>2, <1>10 DEF HeldPayments
  <2>2. \A p \in Orders \ {o} : x \notin OrderCredits[p]
    <3>1. \A b \in Attempts : b # a => payment[b].receipt # x
      BY <1>1, <1>10 DEF Settle, ReceiptFree
    <3> QED
      BY <1>3, <3>1 DEF OrderCredits, Credits
  <2>3. Credits(o)' = kept \cup {x}
    BY <1>6, <1>10 DEF Credits
  <2> HIDE DEF kept
  <2>4. Abstract!Credit(o, x)
    BY <1>4, <1>5, <1>8, <1>9, <2>1, <2>2, <2>3 DEF Abstract!Credit
  <2> QED
    BY <1>1, <1>10, <2>4 DEF Abstract!Next
<1>11. CASE x = None
  <2>1. o \in CapturedOrders
    BY <1>1, <1>2, <1>3, <1>11 DEF CapturedOrders
  <2>2. Credits(o)' = kept
    BY <1>6, <1>11, NoneAssumption DEF Credits
  <2> HIDE DEF kept
  <2>3. Abstract!Recognise(o)
    BY <1>4, <1>5, <1>8, <1>9, <2>1, <2>2 DEF Abstract!Recognise
  <2> QED
    BY <2>3 DEF Abstract!Next
<1> QED
  BY <1>10, <1>11

\* Every step of Payments is a step or a stutter of Settlement: only the gateway's books
\* and the settling transaction show.
LEMMA StepRefines ==
    SettlementInv /\ SettlementInv' /\ [Next]_vars => [Abstract!Next]_(Abstract!vars)
<1> SUFFICES ASSUME SettlementInv, SettlementInv', [Next]_vars
             PROVE  [Abstract!Next]_(Abstract!vars)
  OBVIOUS
<1>1. ASSUME NEW w \in Workers, OpenGatewayOrder(w) PROVE [Abstract!Next]_(Abstract!vars)
  <2>1. \A x \in GatewayPays : Held(x) => PaidOrder(x)' = PaidOrder(x)
    BY <1>1, NoneAssumption DEF OpenGatewayOrder, SettlementInv, GatewayPaysAreForRows,
       RowsMatchGateway, Held, PaidOrder, TypeOK
  <2>2. Kept /\ UNCHANGED <<payment, order>>
    BY <1>1, <2>1 DEF OpenGatewayOrder, Kept, Stored, Held, Captured, Paid, database
  <2> QED
    BY <2>2, ReceiveStep
<1>2. ASSUME NEW x \in GatewayPays, CaptureAtGateway(x) \/ \E a \in Attempts : PayAtGateway(x, a)
      PROVE  [Abstract!Next]_(Abstract!vars)
  <2>1. \A y \in GatewayPays : Held(y) => gatewayPay'[y] = gatewayPay[y]
            \/ (Held(y)' /\ Captured(y)' /\ gatewayPay'[y].attempt = gatewayPay[y].attempt)
    BY <1>2 DEF CaptureAtGateway, PayAtGateway, SettlementInv, TypeOK, GatewayPayment, Held,
       Captured
  <2>2. Kept /\ UNCHANGED <<payment, order>>
    BY <1>2, <2>1, CapturedIsHeld DEF CaptureAtGateway, PayAtGateway, Kept, Stored, Held,
       Captured, Paid, PaidOrder, database
  <2> QED
    BY <2>2, ReceiveStep
<1>3. ASSUME NEW w \in Workers, Settle(w) PROVE Abstract!Next
  BY <1>3, SettleRefines
<1>4. ASSUME NEW w \in Workers, NEW o \in Orders, UpdateOrderStatusAdmin(w, o)
      PROVE  UNCHANGED Abstract!vars
  BY <1>4, QuietStep DEF UpdateOrderStatusAdmin, SettlementInv, TypeOK, gateway
<1>5. ASSUME NEW w \in Workers, InsertPayment(w) PROVE UNCHANGED Abstract!vars
  <2>1. payment[request[w].attempt].receipt \notin GatewayPays
    BY <1>5, NoneAssumption DEF InsertPayment, SettlementInv, RequestsAreSound, SoundRequest,
       ReceiptsAreSound, TypeOK, Request, IdleRequest, CreateRequest, InsertRequest,
       SettleRequest, FailRequest
  <2>2. \A a \in Attempts : \/ payment'[a] = payment[a]
                            \/ /\ payment'[a].receipt \notin GatewayPays
                               /\ payment[a].receipt \notin GatewayPays
    BY <1>5, <2>1, NoneAssumption DEF InsertPayment, SettlementInv, TypeOK
  <2>3. UNCHANGED <<gatewayOrder, gatewayPay, order>>
    BY <1>5 DEF InsertPayment, gateway
  <2> QED
    BY <2>2, <2>3, QuietStep
<1>6. ASSUME NEW w \in Workers, MarkFailed(w) PROVE UNCHANGED Abstract!vars
  <2>1. \A a \in Attempts : /\ payment'[a].order = payment[a].order
                            /\ payment'[a].receipt = payment[a].receipt
    BY <1>6 DEF MarkFailed, SettlementInv, TypeOK, PaymentRow
  <2>2. UNCHANGED <<gatewayOrder, gatewayPay, order>>
    BY <1>6 DEF MarkFailed, gateway
  <2> QED
    BY <2>1, <2>2, QuietStep
<1>7. ASSUME UNCHANGED <<gatewayOrder, gatewayPay, payment, order>>
      PROVE  UNCHANGED Abstract!vars
  BY <1>7, QuietStep
<1> QED
  BY <1>1, <1>2, <1>3, <1>4, <1>5, <1>6, <1>7
  DEF Next, vars, database, gateway, CreatePayment, VerifyFailure, VerifyReceipt,
      WebhookSucceeded, WebhookOrderPaid, WebhookDuplicate, WebhookFailed, SettleConflict,
      Abandon

\* The service implements its promise: orders become paid only by money the gateway
\* holds and no other order is credited with, or by money captured for them, and stay
\* paid.
THEOREM SettlementRefined == Spec => SettlesAsPromised
<1>1. Init => Abstract!Init
  BY NoneAssumption DEF Init, Abstract!Init, HeldPayments, CapturedOrders, OrderCredits,
     Credits, PaidOrders, Held, Captured, Paid
<1> QED
  BY <1>1, StepRefines, SettlementCorrect, PTL DEF Spec, SettlesAsPromised, Abstract!Spec

\* What a request that is served alone has read.
Fresh(r) ==
    /\ r.step \in {"create", "insert"} => ActiveAttempts(r.order) = {}
    /\ r.step = "settle" => /\ payment[r.attempt].status # "SUCCEEDED"
                            /\ r.seen = order[payment[r.attempt].order].status

\* Nobody is served beside a lone request: only what it goes on with must be fresh.
LEMMA ServedAlone ==
    ASSUME TypeOK, LoneRequestIsFresh, UNCHANGED alone,
           NEW w \in Workers, Free(w) \/ request[w] # Idle,
           NEW r, Serve(w, r), Fresh(r)'
    PROVE  LoneRequestIsFresh'
<1> SUFFICES ASSUME alone PROVE LoneRequestIsFresh'
  BY DEF LoneRequestIsFresh
<1>1. \A v \in Workers \ {w} : request'[v] = Idle
  BY DEF TypeOK, LoneRequestIsFresh, Free, Serve
<1>2. request'[w] = r
  BY DEF TypeOK, Serve
<1>3. \A v \in Workers : Fresh(request[v])'
  BY <1>1, <1>2 DEF Fresh, Idle
<1>4. \A u, v \in Workers : request'[u] # Idle /\ request'[v] # Idle => u = v
  BY <1>1
<1> QED
  BY <1>3, <1>4 DEF LoneRequestIsFresh, Fresh

\* Every step keeps a lone request's memory true: what it read at its start, or has
\* written since.
LEMMA FreshNext ==
    SettlementInv /\ SucceededIsSettled /\ LoneRequestIsFresh /\ [Next]_vars
      => LoneRequestIsFresh'
<1> SUFFICES ASSUME SettlementInv, SucceededIsSettled, LoneRequestIsFresh, [Next]_vars
             PROVE  LoneRequestIsFresh'
  OBVIOUS
<1>0. TypeOK
  BY DEF SettlementInv
<1>1. ASSUME UNCHANGED <<request, alone>>, UNCHANGED <<payment, order>>
      PROVE  LoneRequestIsFresh'
  BY <1>1 DEF LoneRequestIsFresh, ActiveAttempts
<1>2. ASSUME NEW w \in Workers, NEW o \in Orders, CreatePayment(w, o)
      PROVE  LoneRequestIsFresh'
  <2> DEFINE r == [step |-> "create", order |-> o]
  <2>1. Fresh(r)'
    BY <1>2 DEF CreatePayment, Fresh, ActiveAttempts, database
  <2> QED
    BY <1>0, <1>2, <2>1, ServedAlone DEF CreatePayment
<1>3. ASSUME NEW w \in Workers, OpenGatewayOrder(w) PROVE LoneRequestIsFresh'
  <2>1. PICK a \in Attempts, o \in {request[w].order} :
          Serve(w, [step |-> "insert", order |-> o, attempt |-> a])
    BY <1>3 DEF OpenGatewayOrder
  <2> DEFINE r == [step |-> "insert", order |-> o, attempt |-> a]
  <2>2. request[w] # Idle /\ UNCHANGED <<payment, alone>>
    BY <1>3 DEF OpenGatewayOrder, Idle, database
  <2>3. CASE alone
    <3>1. ActiveAttempts(o) = {}
      BY <1>3, <2>1, <2>3 DEF OpenGatewayOrder, LoneRequestIsFresh
    <3>2. Fresh(r)'
      BY <2>2, <3>1 DEF Fresh, ActiveAttempts
    <3> QED
      BY <1>0, <2>1, <2>2, <3>2, ServedAlone
  <2> QED
    BY <2>2, <2>3 DEF LoneRequestIsFresh
<1>4. ASSUME NEW w \in Workers, UNCHANGED alone, request[w] # Idle, Finish(w)
      PROVE  LoneRequestIsFresh'
  <2>1. Fresh(Idle)'
    BY DEF Fresh, Idle
  <2> QED
    BY <1>0, <1>4, <2>1, ServedAlone DEF Finish
<1>5. ASSUME NEW w \in Workers, NEW a \in Attempts, NEW x \in GatewayPays,
             VerifyReceipt(w, a, x)
      PROVE  LoneRequestIsFresh'
  <2>0. PICK seen : seen = order[payment[a].order].status
    OBVIOUS
  <2> DEFINE r == [step |-> "settle", attempt |-> a, receipt |-> x,
                   seen |-> seen, hook |-> None]
  <2>1. payment[a].status # "SUCCEEDED"
    BY <1>5 DEF VerifyReceipt, AlreadyVerified, SucceededIsSettled, Paid
  <2>2. Fresh(r)'
    BY <1>5, <2>0, <2>1 DEF VerifyReceipt, Fresh, database
  <2> QED
    BY <1>0, <1>5, <2>0, <2>2, ServedAlone DEF VerifyReceipt, ReadToSettle
<1>6. ASSUME NEW w \in Workers, NEW x \in GatewayPays,
             WebhookSucceeded(w, x) \/ WebhookOrderPaid(w, x)
      PROVE  LoneRequestIsFresh'
  <2>1. PICK a \in Attempts :
          /\ ~AlreadyProcessed(a)
          /\ \E receipt : ReadToSettle(w, a, receipt, x)
    BY <1>6 DEF WebhookSucceeded, WebhookOrderPaid, Matches, MatchesOrder
  <2>2. PICK receipt : ReadToSettle(w, a, receipt, x)
    BY <2>1
  <2>3. PICK seen : seen = order[payment[a].order].status
    OBVIOUS
  <2> DEFINE r == [step |-> "settle", attempt |-> a, receipt |-> receipt,
                   seen |-> seen, hook |-> x]
  <2>4. Fresh(r)'
    BY <1>6, <2>1, <2>3
    DEF WebhookSucceeded, WebhookOrderPaid, AlreadyProcessed, Fresh, database
  <2> QED
    BY <1>0, <1>6, <2>2, <2>3, <2>4, ServedAlone
    DEF WebhookSucceeded, WebhookOrderPaid, ReadToSettle
<1>7. ASSUME NEW w \in Workers, NEW r, Free(w), UNCHANGED alone, Serve(w, r), r.step = "fail"
      PROVE  LoneRequestIsFresh'
  <2>1. Fresh(r)'
    BY <1>7 DEF Fresh
  <2> QED
    BY <1>0, <1>7, <2>1, ServedAlone
<1>8. ASSUME NEW w \in Workers, NEW a \in Attempts, VerifyFailure(w, a)
      PROVE  LoneRequestIsFresh'
  BY <1>7, <1>8 DEF VerifyFailure
<1>9. ASSUME NEW w \in Workers, NEW x \in GatewayPays, WebhookFailed(w, x)
      PROVE  LoneRequestIsFresh'
  BY <1>7, <1>9 DEF WebhookFailed
<1>10. ASSUME NEW w \in Workers, Free(w), UNCHANGED <<request, alone>>
       PROVE  LoneRequestIsFresh'
  BY <1>10 DEF LoneRequestIsFresh, Free, Idle
<1>11. ASSUME NEW w \in Workers,
              \/ InsertPayment(w) \/ Settle(w) \/ SettleConflict(w) \/ MarkFailed(w)
              \/ Abandon(w)
       PROVE  LoneRequestIsFresh'
  <2>1. request[w] # Idle /\ Finish(w) /\ UNCHANGED alone
    BY <1>11 DEF InsertPayment, Settle, SettleConflict, MarkFailed, Abandon, Idle
  <2> QED
    BY <1>4, <2>1
<1> QED
  BY <1>1, <1>2, <1>3, <1>5, <1>6, <1>8, <1>9, <1>10, <1>11
  DEF Next, UpdateOrderStatusAdmin, WebhookDuplicate, PayAtGateway, CaptureAtGateway, vars,
      database

\* What a lone request has read is still so at every point of it (createPayment,
\* verifyPayment, handleWebhook).
LEMMA LoneRequestsAreFresh == Spec => []LoneRequestIsFresh
<1>1. Init => LoneRequestIsFresh
  BY DEF Init, LoneRequestIsFresh, Idle
<1> QED
  BY <1>1, FreshNext, SettlementCorrect, SucceededRowsAreSettled, PTL DEF Spec

\* createPayment, served alone, never opens a second active attempt.
THEOREM AttemptsAreOpenedOnce == Spec => []OneActiveAttempt
<1>1. Init => OneActiveAttempt
  BY DEF Init, OneActiveAttempt
<1>2. SettlementInv /\ LoneRequestIsFresh /\ OneActiveAttempt /\ [Next]_vars
        => OneActiveAttempt'
  <2> SUFFICES ASSUME SettlementInv, LoneRequestIsFresh, OneActiveAttempt, [Next]_vars
               PROVE  OneActiveAttempt'
    OBVIOUS
  <2>0. TypeOK
    BY DEF SettlementInv
  <2>1. CASE UNCHANGED <<payment, alone>>
    BY <2>1 DEF OneActiveAttempt
  <2>2. ASSUME NEW w \in Workers, NEW a, NEW s, s # "CREATED", NEW x, UNCHANGED alone,
               payment' = [payment EXCEPT ![a] = [status |-> s, order |-> @.order, receipt |-> x]]
        PROVE  OneActiveAttempt'
    <3>1. \A b \in Attempts : payment'[b].status = "CREATED" => payment'[b] = payment[b]
      BY <2>0, <2>2 DEF TypeOK
    <3> QED
      BY <2>2, <3>1 DEF OneActiveAttempt
  <2>3. ASSUME NEW w \in Workers, InsertPayment(w) PROVE OneActiveAttempt'
    <3> DEFINE row == [status |-> "CREATED", order |-> request[w].order, receipt |-> None]
    <3>1. payment' = [payment EXCEPT ![request[w].attempt] = row] /\ UNCHANGED alone
      BY <2>3 DEF InsertPayment
    <3>2. \A b \in Attempts : \/ b = request[w].attempt /\ payment'[b] = row
                              \/ payment'[b] = payment[b]
      BY <2>0, <3>1 DEF TypeOK
    <3>3. alone => \A b \in Attempts : payment[b].status = "CREATED"
                      => payment[b].order # request[w].order
      BY <2>3 DEF InsertPayment, LoneRequestIsFresh, ActiveAttempts
    <3> QED
      BY <3>1, <3>2, <3>3 DEF OneActiveAttempt
  <2>4. ASSUME NEW w \in Workers, Settle(w) PROVE OneActiveAttempt'
    BY <2>2, <2>4 DEF Settle
  <2>5. ASSUME NEW w \in Workers, MarkFailed(w) PROVE OneActiveAttempt'
    BY <2>2, <2>5 DEF MarkFailed
  <2> QED
    BY <2>1, <2>3, <2>4, <2>5 DEF Next, CreatePayment, UpdateOrderStatusAdmin,
       OpenGatewayOrder, VerifyFailure, VerifyReceipt, WebhookSucceeded, WebhookOrderPaid, WebhookDuplicate,
       WebhookFailed, SettleConflict, Abandon, PayAtGateway, CaptureAtGateway, vars, database
<1> QED
  BY <1>1, <1>2, SettlementCorrect, LoneRequestsAreFresh, PTL DEF Spec

\* Only a request that still sees its row unsettled settles it: a lone verification or
\* webhook never settles a SUCCEEDED row again.
THEOREM SettlementsAreNotRepeated == Spec => NoRepeatedSettlement
<1> DEFINE Once == \A a \in Attempts :
          alone /\ audit'[a] # audit[a] => payment[a].status # "SUCCEEDED"
<1>1. SettlementInv /\ LoneRequestIsFresh /\ [Next]_vars => [Once]_vars
  <2> SUFFICES ASSUME SettlementInv, LoneRequestIsFresh, Next, NEW a \in Attempts,
                      alone, audit'[a] # audit[a]
               PROVE  payment[a].status # "SUCCEEDED"
    OBVIOUS
  <2>1. PICK w \in Workers : Settle(w)
    BY DEF Next, CreatePayment, UpdateOrderStatusAdmin, OpenGatewayOrder, InsertPayment,
       VerifyFailure, VerifyReceipt, WebhookSucceeded, WebhookOrderPaid, WebhookDuplicate, WebhookFailed,
       SettleConflict, MarkFailed, Abandon, PayAtGateway, CaptureAtGateway, database
  <2>2. a = request[w].attempt
    BY <2>1 DEF Settle, SettlementInv, TypeOK
  <2> QED
    BY <2>1, <2>2 DEF Settle, LoneRequestIsFresh
<1> QED
  BY <1>1, SettlementCorrect, LoneRequestsAreFresh, PTL DEF Spec, NoRepeatedSettlement

\* The status a lone settlement computes its own from is the order's still: it turns
\* PENDING into CONFIRMED and leaves any other as staff wrote it.
THEOREM PaymentsConfirm == Spec => PaymentOnlyConfirms
<1> DEFINE Confirms == \A o \in Orders :
          alone /\ ~Paid(o) /\ order'[o].paymentStatus = "COMPLETED"
            => order'[o].status =
                 (IF order[o].status = "PENDING" THEN "CONFIRMED" ELSE order[o].status)
<1>1. SettlementInv /\ LoneRequestIsFresh /\ [Next]_vars => [Confirms]_vars
  <2> SUFFICES ASSUME SettlementInv, LoneRequestIsFresh, Next, NEW o \in Orders,
                      alone, ~Paid(o), order'[o].paymentStatus = "COMPLETED"
               PROVE  order'[o].status =
                        (IF order[o].status = "PENDING" THEN "CONFIRMED" ELSE order[o].status)
    OBVIOUS
  <2>0. TypeOK
    BY DEF SettlementInv
  <2>1. ~UNCHANGED order
    BY DEF Paid
  <2>2. ASSUME NEW w \in Workers, NEW q \in Orders, UpdateOrderStatusAdmin(w, q) PROVE FALSE
    BY <2>0, <2>2 DEF UpdateOrderStatusAdmin, TypeOK, Paid
  <2>3. PICK w \in Workers : Settle(w)
    BY <2>1, <2>2 DEF Next, CreatePayment, OpenGatewayOrder, InsertPayment,
       VerifyFailure, VerifyReceipt, WebhookSucceeded, WebhookOrderPaid, WebhookDuplicate, WebhookFailed,
       SettleConflict, MarkFailed, Abandon, PayAtGateway, CaptureAtGateway, database
  <2>4. request[w].seen = order[payment[request[w].attempt].order].status
    BY <2>3 DEF Settle, LoneRequestIsFresh
  <2>5. o = payment[request[w].attempt].order /\ order'[o].status = Confirm(request[w].seen)
    BY <2>0, <2>3 DEF Settle, TypeOK, Paid
  <2> QED
    BY <2>4, <2>5 DEF Confirm
<1> QED
  BY <1>1, SettlementCorrect, LoneRequestsAreFresh, PTL DEF Spec, PaymentOnlyConfirms
=============================================================================
