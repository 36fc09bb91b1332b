------------------------------ MODULE Payments ------------------------------
(***************************************************************************)
(* The payment half of the API: payments.service.ts over the Razorpay      *)
(* provider, the rows of `orders' and `payments' it writes, and the order   *)
(* status that staff write beside it (orders.service.ts).                   *)
(*                                                                          *)
(* A request is served by a worker.  It reads rows, awaits, and then writes *)
(* what it computed from the rows it read; between the two any other        *)
(* request may run, so every await is a step boundary.  A prisma            *)
(* $transaction whose writes depend only on rows read earlier is one step:  *)
(* it commits as a whole or not at all.                                     *)
(*                                                                          *)
(* The gateway keeps its own orders and payments.  It reports the outcome   *)
(* of a payment by webhooks that may come late, more than once and in any   *)
(* order, and repeats them until the API answers with a 2xx.                *)
(***************************************************************************)
EXTENDS Naturals, Requests

CONSTANTS
    Orders,         \* rows of the table `orders'
    Attempts,       \* payment attempts: one gateway order and, once it is
                    \* stored, one row of `payments' each
    GatewayPays,    \* payments a customer makes at the gateway
    Total,          \* Total[o]: Order.totalAmount, never written again
    AdminStatuses,  \* the order statuses staff choose from
    AuditCap,       \* bound: audit rows of one payment counted up to this many,
                    \* where requests are served one at a time
    None            \* SQL null

OrderStatus == {"PENDING", "CONFIRMED", "PREPARING", "READY_FOR_PICKUP",
                "OUT_FOR_DELIVERY", "DELIVERED", "CANCELLED"}

ASSUME TotalAssumption == Total \in [Orders -> Nat]
ASSUME StatusAssumption == AdminStatuses \subseteq OrderStatus
ASSUME CapAssumption == AuditCap \in Nat
ASSUME NoneAssumption == None \notin Orders \cup Attempts \cup GatewayPays

VARIABLES
    order,          \* order[o]: status and paymentStatus
    payment,        \* payment[a]: the row of attempt a, "ABSENT" before it exists
    audit,          \* audit[a]: audit rows of a's settlements, PAYMENT_SUCCEEDED
                    \* or WEBHOOK_PAYMENT_SUCCEEDED, capped
    gatewayOrder,   \* gatewayOrder[a]: the order a gateway order is for
    gatewayPay,     \* gatewayPay[x]: the attempt x pays for and its outcome
    acked,          \* gateway payments with a success event answered by a 2xx
    alone,          \* TRUE in behaviours that serve one request at a time
    astray          \* history: gateway payments ever recorded for an order other
                    \* than the one they were made for

vars == <<order, payment, audit, gatewayOrder, gatewayPay, acked, request, alone, astray>>
database == <<order, payment, audit, astray>>
gateway == <<gatewayOrder, gatewayPay, acked>>

-----------------------------------------------------------------------------
OrderRow == [status : OrderStatus, paymentStatus : {"PENDING", "COMPLETED"}]

\* order: Payment.orderId; receipt: Payment.providerPaymentId, written together
\* with paidAt.  The gateway never answers PENDING, so CREATED is the one active
\* status and REFUNDED is written nowhere.
PaymentRow == [status : {"ABSENT", "CREATED", "SUCCEEDED", "FAILED"},
               order : Orders \cup {None},
               receipt : GatewayPays \cup {None}]

GatewayPayment == [attempt : Attempts \cup {None},
                   outcome : {"none", "authorized", "captured", "failed"}]

CreateRequest == [step : {"create"}, order : Orders]
InsertRequest == [step : {"insert"}, order : Orders, attempt : Attempts]
\* `receipt' is the providerPaymentId to be written, which may be the row's own as
\* the request read it; `seen' is payment.order.status as it read it; `hook' is the
\* payment a webhook tells of, None in a call of the customer's browser.
SettleRequest == [step : {"settle"}, attempt : Attempts, receipt : GatewayPays \cup {None},
                  seen : OrderStatus, hook : GatewayPays \cup {None}]
FailRequest == [step : {"fail"}, attempt : Attempts]
Request == IdleRequest \cup CreateRequest \cup InsertRequest
             \cup SettleRequest \cup FailRequest

\* Shape of the state.
TypeOK ==
    /\ order \in [Orders -> OrderRow]
    /\ payment \in [Attempts -> PaymentRow]
    /\ audit \in [Attempts -> 0..AuditCap]
    /\ gatewayOrder \in [Attempts -> Orders \cup {None}]
    /\ gatewayPay \in [GatewayPays -> GatewayPayment]
    /\ acked \subseteq GatewayPays
    /\ request \in [Workers -> Request]
    /\ alone \in BOOLEAN
    /\ astray \subseteq GatewayPays

Init ==
    /\ order = [o \in Orders |-> [status |-> "PENDING", paymentStatus |-> "PENDING"]]
    /\ payment = [a \in Attempts |->
                    [status |-> "ABSENT", order |-> None, receipt |-> None]]
    /\ audit = [a \in Attempts |-> 0]
    /\ gatewayOrder = [a \in Attempts |-> None]
    /\ gatewayPay = [x \in GatewayPays |-> [attempt |-> None, outcome |-> "none"]]
    /\ acked = {}
    /\ request = [w \in Workers |-> Idle]
    /\ alone \in BOOLEAN
    /\ astray = {}

-----------------------------------------------------------------------------
Stored(a) == payment[a].status # "ABSENT"

\* MUTANT of ActiveAttempts: looks for PENDING alone.
PendingAttempts(o) == {a \in Attempts : payment[a].order = o /\ payment[a].status = "PENDING"}

ActiveAttempts(o) == {a \in Attempts : payment[a].order = o /\ payment[a].status = "CREATED"}

Captured(x) == gatewayPay[x].outcome = "captured"
Held(x) == gatewayPay[x].outcome \in {"authorized", "captured"}
PaidOrder(x) == gatewayOrder[gatewayPay[x].attempt]

\* A worker that may take up a request.
Free(w) == request[w] = Idle /\ (alone => \A v \in Workers : request[v] = Idle)

-----------------------------------------------------------------------------
(* createPayment *)

Payable(o) ==
    /\ order[o].paymentStatus # "COMPLETED"
    /\ order[o].status # "CANCELLED"
    /\ Total[o] > 0

\* The read and the eligibility checks.  An order that is not payable and one with
\* an active attempt (which is returned) end the request without a write.
CreatePayment(w, o) ==
    /\ Free(w)
    /\ Payable(o)
    /\ ActiveAttempts(o) = {}
    /\ Serve(w, [step |-> "create", order |-> o])
    /\ UNCHANGED <<database, gateway, alone>>

\* paymentProvider.createPayment: the gateway opens an order of its own, of the
\* same amount and with the order's id in its notes.
OpenGatewayOrder(w) ==
    /\ request[w].step = "create"
    /\ \E a \in Attempts :
        /\ gatewayOrder[a] = None
        /\ gatewayOrder' = [gatewayOrder EXCEPT ![a] = request[w].order]
        /\ Serve(w, [step |-> "insert", order |-> request[w].order, attempt |-> a])
    /\ UNCHANGED <<database, gatewayPay, acked, alone>>

\* payment.create; nothing read before the gateway call is read again.
InsertPayment(w) ==
    /\ request[w].step = "insert"
    /\ payment' = [payment EXCEPT ![request[w].attempt] =
                     [status |-> "CREATED", order |-> request[w].order, receipt |-> None]]
    /\ Finish(w)
    /\ UNCHANGED <<order, audit, astray, gateway, alone>>

-----------------------------------------------------------------------------
(* The gateway, as its callers in src/ rely on it *)

\* The checkout form, opened with the gateway order of a stored attempt, ends in
\* a payment of its amount, authorized first or captured at once, or in a failure;
\* one form may see several payments.
PayAtGateway(x, a) ==
    /\ gatewayPay[x].outcome = "none"
    /\ Stored(a)
    /\ \E outcome \in {"authorized", "captured", "failed"} :
        gatewayPay' = [gatewayPay EXCEPT ![x] = [attempt |-> a, outcome |-> outcome]]
    /\ UNCHANGED <<database, gatewayOrder, acked, request, alone>>

\* Authorized money is captured later, or never.
CaptureAtGateway(x) ==
    /\ gatewayPay[x].outcome = "authorized"
    /\ gatewayPay' = [gatewayPay EXCEPT ![x] = [attempt |-> @.attempt, outcome |-> "captured"]]
    /\ UNCHANGED <<database, gatewayOrder, acked, request, alone>>

-----------------------------------------------------------------------------
(* verifyPayment *)

\* MUTANT of AlreadyVerified: verifies whatever the row says.
NeverVerified(a) == FALSE

AlreadyVerified(a) ==
    /\ payment[a].status = "SUCCEEDED"
    /\ order[payment[a].order].paymentStatus = "COMPLETED"

\* MUTANT of SignedReceipt: the signature is not compared.
UncheckedReceipt(x) == gatewayPay[x].outcome # "none"

\* The gateway signs the pair of its order and the payment once it holds the money.
\* The pair is the one the browser sends, and nothing compares its gateway order or
\* its amount with the row's.
SignedReceipt(x) == Held(x)

\* What a request goes on to settle with, read before it awaits.
ReadToSettle(w, a, receipt, hook) ==
    Serve(w, [step |-> "settle", attempt |-> a, receipt |-> receipt,
              seen |-> order[payment[a].order].status, hook |-> hook])

\* The browser brings back a signed receipt.  The signature check is a local
\* computation: it adds a suspension, not a state.
VerifyReceipt(w, a, x) ==
    /\ Free(w)
    /\ Stored(a)
    /\ ~AlreadyVerified(a)
    /\ SignedReceipt(x)
    /\ ReadToSettle(w, a, x, None)
    /\ UNCHANGED <<database, gateway, alone>>

\* The browser reports a declined or dismissed form, or a receipt that is
\* incomplete or does not carry the gateway's signature.
VerifyFailure(w, a) ==
    /\ Free(w)
    /\ Stored(a)
    /\ ~AlreadyVerified(a)
    /\ Serve(w, [step |-> "fail", attempt |-> a])
    /\ UNCHANGED <<database, gateway, alone>>

-----------------------------------------------------------------------------
(* handleWebhook *)

\* Rows that the gateway order of x, or the order id in its notes, points at.
MatchesOrder(x) ==
    {a \in Attempts : Stored(a) /\ (a = gatewayPay[x].attempt \/ payment[a].order = PaidOrder(x))}

\* findFirst with OR and no order: any row that one of the three ids points at.
Matches(x) == MatchesOrder(x) \cup {a \in Attempts : Stored(a) /\ payment[a].receipt = x}

AmountAgrees(a, x) == Total[payment[a].order] = Total[PaidOrder(x)]

\* MUTANT of AlreadyProcessed: takes a FAILED row for a processed one.
NoLongerActive(a) == payment[a].status \in {"SUCCEEDED", "FAILED"}

AlreadyProcessed(a) == payment[a].status = "SUCCEEDED"

\* payment.authorized, payment.captured, and order.paid with its payment: one to the
\* API.
WebhookSucceeded(w, x) ==
    /\ Free(w)
    /\ Held(x)
    /\ \E a \in Matches(x) :
        /\ ~AlreadyProcessed(a)
        /\ AmountAgrees(a, x)
        /\ ReadToSettle(w, a, x, x)
    /\ UNCHANGED <<database, gateway, alone>>

\* order.paid without its payment: the row is found by its order, no amount is
\* compared, and the receipt to be written is the one the row has.
WebhookOrderPaid(w, x) ==
    /\ Free(w)
    /\ Captured(x)
    /\ \E a \in MatchesOrder(x) :
        /\ ~AlreadyProcessed(a)
        /\ ReadToSettle(w, a, payment[a].receipt, x)
    /\ UNCHANGED <<database, gateway, alone>>

\* A row already marked SUCCEEDED: any of these events is acknowledged without a
\* write.
WebhookDuplicate(w, x) ==
    /\ Free(w)
    /\ Held(x)
    /\ \E a \in Matches(x) : AlreadyProcessed(a)
    /\ acked' = acked \cup {x}
    /\ UNCHANGED <<database, gatewayOrder, gatewayPay, request, alone>>

\* payment.failed: no test of the row's status.
WebhookFailed(w, x) ==
    /\ Free(w)
    /\ gatewayPay[x].outcome = "failed"
    /\ \E a \in Matches(x) : Serve(w, [step |-> "fail", attempt |-> a])
    /\ UNCHANGED <<database, gateway, alone>>

-----------------------------------------------------------------------------
(* The writes verifyPayment and handleWebhook share *)

\* MUTANT of ReceiptFree: the column is not unique.
ReceiptUnconstrained(a, x) == TRUE

\* Payment.providerPaymentId is unique, nulls apart.
ReceiptFree(a, x) == x # None => \A b \in Attempts \ {a} : payment[b].receipt # x

\* MUTANT of Confirm: always CONFIRMED.
ConfirmAlways(seen) == "CONFIRMED"

Confirm(seen) == IF seen = "PENDING" THEN "CONFIRMED" ELSE seen

\* MUTANT of Settle: the order is left to a later step.
SettlePaymentOnly(w) ==
    LET r == request[w] IN
    /\ r.step = "settle"
    /\ payment' = [payment EXCEPT ![r.attempt] =
                     [status |-> "SUCCEEDED", order |-> @.order, receipt |-> r.receipt]]
    /\ Finish(w)
    /\ UNCHANGED <<order, audit, astray, gateway, alone>>

\* The transaction: the payment row with its receipt, the order row with a status
\* computed from the one the request read, and the audit row.
Settle(w) ==
    LET r == request[w] IN
    /\ r.step = "settle"
    /\ ReceiptFree(r.attempt, r.receipt)
    /\ payment' = [payment EXCEPT ![r.attempt] =
                     [status |-> "SUCCEEDED", order |-> @.order, receipt |-> r.receipt]]
    /\ order' = [order EXCEPT ![payment[r.attempt].order] =
                   [status |-> Confirm(r.seen), paymentStatus |-> "COMPLETED"]]
    /\ audit' = [audit EXCEPT ![r.attempt] = IF alone /\ @ < AuditCap THEN @ + 1 ELSE @]
    /\ acked' = acked \cup ({r.hook} \ {None})
    /\ astray' = astray \cup {x \in {r.receipt} \ {None} : PaidOrder(x) # payment[r.attempt].order}
    /\ Finish(w)
    /\ UNCHANGED <<gatewayOrder, gatewayPay, alone>>

\* The unique constraint fails: the transaction rolls back, the answer is a 500.
SettleConflict(w) ==
    /\ request[w].step = "settle"
    /\ ~ReceiptFree(request[w].attempt, request[w].receipt)
    /\ Finish(w)
    /\ UNCHANGED <<database, gateway, alone>>

MarkFailed(w) ==
    LET r == request[w] IN
    /\ r.step = "fail"
    /\ payment' = [payment EXCEPT ![r.attempt] =
                     [status |-> "FAILED", order |-> @.order, receipt |-> @.receipt]]
    /\ Finish(w)
    /\ UNCHANGED <<order, audit, astray, gateway, alone>>

-----------------------------------------------------------------------------
\* updateOrderStatusAdmin: the row it reads first only serves the 404, so the
\* update is a step of its own; any status may follow any other.
UpdateOrderStatusAdmin(w, o) ==
    /\ Free(w)
    /\ \E s \in AdminStatuses :
        order' = [order EXCEPT ![o] = [status |-> s, paymentStatus |-> @.paymentStatus]]
    /\ UNCHANGED <<payment, audit, astray, gateway, request, alone>>

\* The process dies, the gateway call or a database call throws: the request
\* ends between two of its writes.
Abandon(w) ==
    /\ request[w] # Idle
    /\ Finish(w)
    /\ UNCHANGED <<database, gateway, alone>>

Next ==
    \/ \E w \in Workers :
        \/ \E o \in Orders : CreatePayment(w, o) \/ UpdateOrderStatusAdmin(w, o)
        \/ OpenGatewayOrder(w) \/ InsertPayment(w)
        \/ \E a \in Attempts : VerifyFailure(w, a) \/ \E x \in GatewayPays : VerifyReceipt(w, a, x)
        \/ \E x \in GatewayPays :
             \/ WebhookSucceeded(w, x) \/ WebhookOrderPaid(w, x)
             \/ WebhookDuplicate(w, x) \/ WebhookFailed(w, x)
        \/ Settle(w) \/ SettleConflict(w) \/ MarkFailed(w)
        \/ Abandon(w)
    \/ \E x \in GatewayPays : CaptureAtGateway(x) \/ \E a \in Attempts : PayAtGateway(x, a)

Spec == Init /\ [][Next]_vars

\* Every request ends, one way or another.  The gateway repeats the event of a
\* capture until it is acknowledged, and the API does not lose the process, the connection or the
\* database every single time it is about to commit one.
Proceed(w) ==
    \/ OpenGatewayOrder(w) \/ InsertPayment(w)
    \/ Settle(w) \/ SettleConflict(w) \/ MarkFailed(w) \/ Abandon(w)

Redeliver(x) ==
    /\ Captured(x) /\ x \notin acked
    /\ \E w \in Workers : WebhookSucceeded(w, x) \/ WebhookDuplicate(w, x)

Complete(x) ==
    \E w \in Workers :
        /\ request[w].step = "settle" /\ request[w].hook = x
        /\ Settle(w) \/ SettleConflict(w)

LiveSpec ==
    /\ Spec
    /\ \A w \in Workers : WF_vars(Proceed(w))
    /\ \A x \in GatewayPays : SF_vars(Redeliver(x)) /\ SF_vars(Complete(x))

-----------------------------------------------------------------------------
(* Properties *)

Paid(o) == order[o].paymentStatus = "COMPLETED"

\* An order is COMPLETED only for money: a row of it names a payment whose money the
\* gateway holds and which no other order shares, or a payment made for the order was
\* captured.  Whatever browsers, late failures, repeated events and stale writes of a
\* receipt do to the rows, one payment recorded once makes one order paid
\* (verifyPayment, handleWebhook, the unique providerPaymentId).
PaidIsBacked ==
    \A o \in Orders : Paid(o) =>
        \/ \E x \in GatewayPays : Captured(x) /\ PaidOrder(x) = o
        \/ \E a \in Attempts, x \in GatewayPays :
             /\ payment[a].order = o /\ payment[a].receipt = x /\ Held(x)
             /\ \A b \in Attempts : payment[b].receipt = x => payment[b].order = o

\* Once the API has answered a success event with a 2xx the gateway goes silent about
\* it, so the order its payment was made for had better be paid by then.  It is, also
\* when the answer rests on another row, unless the payment had been recorded for
\* another order before (handleWebhook's findFirst and its early return).
AckedIsSettled == \A x \in acked : Paid(PaidOrder(x)) \/ x \in astray

\* A row that says SUCCEEDED belongs to an order that says COMPLETED: the early
\* returns of both handlers acknowledge on the strength of the row alone, which
\* would lose the order's settlement if this ever failed.
SucceededIsSettled ==
    \A a \in Attempts : payment[a].status = "SUCCEEDED" => Paid(payment[a].order)

\* No gateway payment is recorded in two rows, however browser and webhook race
\* for it over the attempts of the orders.
ReceiptRecordedOnce ==
    \A a, b \in Attempts :
        a # b /\ payment[a].receipt # None => payment[a].receipt # payment[b].receipt

(* The abstract specification that Payments implements *)

HeldPayments == {x \in GatewayPays : Held(x)}
CapturedOrders == {o \in Orders : \E x \in GatewayPays : Captured(x) /\ PaidOrder(x) = o}
Credits(o) == {x \in GatewayPays : \E a \in Attempts : payment[a].order = o /\ payment[a].receipt = x}
OrderCredits == [o \in Orders |-> Credits(o)]
PaidOrders == {o \in Orders : Paid(o)}

Abstract == INSTANCE Settlement WITH Payments <- GatewayPays, held <- HeldPayments,
              captured <- CapturedOrders, credits <- OrderCredits, paid <- PaidOrders

\* Orders become paid one at a time, by a payment credited to no other order or by
\* money captured for them; they never cease to be paid, and no payment is ever
\* credited to two orders.
SettlesAsPromised == Abstract!Spec

\* An order whose payment was captured is eventually COMPLETED, though the browser
\* never comes back, webhooks are answered with errors, and requests die after any of
\* their steps; unless the payment has been recorded for another order.
Owed(x) == Captured(x) /\ ~Paid(PaidOrder(x)) /\ x \notin astray

EveryCaptureSettles == \A x \in GatewayPays : Owed(x) ~> ~Owed(x)

(* What the proofs need besides: every part relates rows, gateway and requests. *)

\* A row is for the order its gateway order is for.
RowsMatchGateway ==
    \A a \in Attempts : Stored(a) => /\ payment[a].order \in Orders
                                     /\ gatewayOrder[a] = payment[a].order

\* The gateway holds the money of a receipt in a row, and the row's order is paid; a
\* receipt of another order's payment is remembered as astray.
ReceiptsAreSound ==
    \A a \in Attempts :
        LET x == payment[a].receipt IN
        x # None => /\ Stored(a)
                    /\ Held(x)
                    /\ PaidOrder(x) = payment[a].order \/ x \in astray
                    /\ Paid(payment[a].order)

\* Customers pay only what createPayment handed out.
GatewayPaysAreForRows ==
    \A x \in GatewayPays : gatewayPay[x].outcome # "none" =>
        /\ gatewayPay[x].attempt \in Attempts
        /\ Stored(gatewayPay[x].attempt)

\* What a request remembers of rows and gateway stays true while it waits; what
\* it remembers of the order's status (`seen') does not, and is not here.
SoundSettle(r) ==
    /\ Stored(r.attempt)
    /\ r.receipt # None => Held(r.receipt)
    /\ r.receipt = None => /\ r.hook # None /\ Captured(r.hook)
                           /\ PaidOrder(r.hook) = payment[r.attempt].order
    /\ r.hook # None => /\ Held(r.hook)
                        /\ PaidOrder(r.hook) = payment[r.attempt].order \/ r.hook \in astray

SoundRequest(r) ==
    /\ r.step = "insert" => ~Stored(r.attempt) /\ gatewayOrder[r.attempt] = r.order
    /\ r.step = "settle" => SoundSettle(r)
    /\ r.step = "fail" => Stored(r.attempt)

RequestsAreSound == \A w \in Workers : SoundRequest(request[w])

InsertsAreDistinct ==
    \A v, w \in Workers :
        v # w /\ request[v].step = "insert" /\ request[w].step = "insert"
          => request[v].attempt # request[w].attempt

\* Answers are given for money the gateway holds, and settle its order.
AnswersAreSound == \A x \in acked : Held(x)

\* The inductive invariant behind PaidIsBacked, AckedIsSettled and the refinement:
\* whatever createPayment, verifyPayment, handleWebhook and the gateway do in any
\* order, rows, gateway, answers and waiting requests agree.
SettlementInv ==
    /\ TypeOK
    /\ RowsMatchGateway
    /\ ReceiptsAreSound
    /\ SucceededIsSettled
    /\ GatewayPaysAreForRows
    /\ RequestsAreSound
    /\ InsertsAreDistinct
    /\ ReceiptRecordedOnce
    /\ AnswersAreSound
    /\ AckedIsSettled
    /\ PaidIsBacked

(* The next three hold while requests are served one at a time. *)

\* docs/payments.md 2.4, Creation Idempotency: an order with an active attempt
\* is given no second one.
OneActiveAttempt ==
    alone => \A a, b \in Attempts :
                payment[a].status = "CREATED" /\ payment[b].status = "CREATED" /\ a # b
                  => payment[a].order # payment[b].order

\* docs/payments.md 2.4, Webhook and Verification Idempotency: a row already
\* marked SUCCEEDED gets no second audit row.
NoRepeatedSettlement ==
    [][\A a \in Attempts :
         alone /\ audit'[a] # audit[a] => payment[a].status # "SUCCEEDED"]_vars

\* A payment moves an order from PENDING to CONFIRMED and otherwise leaves the
\* status that staff gave it, CANCELLED included.
PaymentOnlyConfirms ==
    [][\A o \in Orders : alone /\ ~Paid(o) /\ order'[o].paymentStatus = "COMPLETED"
         => order'[o].status =
              (IF order[o].status = "PENDING" THEN "CONFIRMED" ELSE order[o].status)]_vars

\* Behind them: a request served alone is the only one, and what it has read of
\* attempts, row and order is still so when it writes.
LoneRequestIsFresh ==
    alone =>
        /\ \A v, w \in Workers : request[v] # Idle /\ request[w] # Idle => v = w
        /\ \A w \in Workers :
             LET r == request[w] IN
             /\ r.step \in {"create", "insert"} => ActiveAttempts(r.order) = {}
             /\ r.step = "settle" =>
                  /\ payment[r.attempt].status # "SUCCEEDED"
                  /\ r.seen = order[payment[r.attempt].order].status

(* The code does not keep the next one. *)

\* docs/payments.md 2.5: failed payments leave the order unpaid.
FailedLeavesUnpaid ==
    \A o \in Orders :
        LET rows == {a \in Attempts : payment[a].order = o} IN
        rows # {} /\ (\A a \in rows : payment[a].status = "FAILED") => ~Paid(o)
=============================================================================
