# Verification of the family-vaishno-dhaba API

TLA+ models of the NestJS API under `src/src/`, checked with TLC on small
instances and, for the properties that matter most, proved with TLAPS for every
size of the system. Paths below are relative to `src/`.

## 1. The system

An HTTP API of a restaurant: customers browse a menu, verify a phone number,
place orders with coupons, pay through Razorpay and follow the delivery; staff
run orders, coupons and drivers; drivers move deliveries along. All state that
survives is in one PostgreSQL database, written through Prisma. A request is an
`async` handler: it reads rows, awaits, checks, awaits, writes. Between two awaits
any other request of the same or another process may run. A Prisma
`$transaction` is atomic, runs at READ COMMITTED, and locks the rows it has
updated until it ends. Nothing uses `SELECT ... FOR UPDATE`, a serializable
transaction or a version column, and most updates are by id alone, so a check is
only as good as its row still is when the write comes.

| Component | State it keeps | Operations that change it | Talks to |
| --- | --- | --- | --- |
| payments (`modules/payments`) | `payments`, `orders.paymentStatus`, `orders.status`, `audit_logs` | createPayment, verifyPayment, handleWebhook | Razorpay (calls and webhooks), `orders` |
| checkout (`modules/orders`) | `orders`, `order_items`, `coupons.usageCount` | createOrder | verification (token), coupons, menu |
| staff order status (`modules/orders`) | `orders.status` | updateOrderStatusAdmin | races payments and delivery |
| coupons (`modules/coupons`) | `coupons` | create, update, toggle, delete | read and incremented by checkout |
| delivery (`modules/delivery`) | `driver_profiles`, `delivery_assignments`, `delivery_status_history`, `delivery_location_history` | activate, suspend, assign, reassign, availability, transition, location | `orders.status`, routing, websocket gateway |
| verification (`modules/verification`) | `phone_verifications` | sendOtp, verifyOtp, validateAndConsumeToken | SMS provider; checkout |
| websocket gateway (`delivery.gateway.ts`) | sockets, their users and rooms, in memory | connect, disconnect, join an order's, a driver's or the admins' room, broadcast | told by delivery after its commits |
| routing (`modules/delivery/routing`) | a cache in memory | calculateRoute | OSRM; a straight line when it fails |
| two-factor (`modules/auth`) | `two_factor_auth`, recovery codes, challenges | setup, verify, login by TOTP or recovery code, disable, regenerate | sessions |
| sessions (`modules/auth`) | `sessions`, `users` | register, phoneLogin, login, logout | two-factor |
| OAuth (`modules/auth`) | `oauth_accounts`, `sessions` | Google and Apple sign-in, link, unlink | Google, Apple; sessions, two-factor |
| addresses (`modules/addresses`) | `addresses` | create, update, delete, setDefault | checkout reads them |
| menu (`modules/menu`) | `categories`, `products` | create, update, toggle, delete | priced from by checkout; order lines refer to it |
| banners, upload, health, guards | an array in memory, nothing | plain edits | - |

What makes each hard, and what makes it correct:

* **Payments.** The browser's receipt, the gateway's webhooks (late, repeated, in
  any order) and staff all write the same two rows, each from rows read before an
  await; and a receipt settles whichever row the browser names with it. Correct
  means: an order is shown as paid only for money, no payment stands behind two orders
  at once, the gateway is not told to be silent before the order is paid, and captured
  money is not lost, all of it but for payments that were recorded for another order
  than they were made for (section 3, "Excepted cases").
* **Checkout.** Retries and double clicks of one call, a coupon counted in one
  statement and checked in another, a token checked without a lock, and all of it
  rolled back when a late step fails. Correct means: one order per idempotency
  key, a usage count equal to the orders placed, a bounded overdraft of a limit, a
  token used only by orders that exist.
* **Delivery.** Staff take a delivery away while its driver moves it; the checks of
  an assignment are as old as a call to a routing service; a settled payment writes
  back the order status it read. Correct means: only what was picked up and carried is
  delivered, and order and delivery agree unless staff or such a payment wrote over
  the order.
* **Positions and rooms.** A position is stamped before it is stored, its estimate
  saved by an update that nobody awaits, and events are told after the commit, from
  values computed before it, to rooms that were joined on rows read earlier. Correct
  means: what is shown as live is recent, an estimate is of the driver it stands
  beside, a screen that nothing more will reach shows the row, and news of an order
  reaches only people who have to do with it.
* **Verification and two-factor.** Counters and single-use codes kept by a read and a
  later write. Correct means: a code of two-factor authentication opens one session at
  most, a code sent to a phone is first accepted only in time, and limits are passed by
  no more than the requests in flight.
* **Accounts.** Two providers and two local ways in look up rows and insert later.
  Correct means: nobody loses the last way in, a Google account is linked only by its
  own sign-up or on demand, and no identity changes hands. Apple's sign-in links
  silently, to whoever has the address that comes with it; that is what the code does,
  and `Accounts` has it.
* **Addresses.** "One default" is kept by two statements, over rows that other
  requests write; a delete trusts what it read before its transaction. Correct means:
  what overlaps break, the next request that runs alone mends for good.
* **Menu.** An order is priced from rows that staff edit and delete while it is
  computed. Correct means: one order has one computation, references hold, past orders
  do not change, and the preview is what is charged unless something it shows changed.

`PROJECT.json` lists every component with its status, and every hazard with the
line where it bites.

## 2. Modules

| Module | Models | Proofs | TLC instance |
| --- | --- | --- | --- |
| `Requests` | what a worker remembers between two awaits | in those that extend it | - |
| `Deliveries` | the machine of a delivery, its orders and drivers | in those that extend it | - |
| `Settlement` | what the payment service promises about money (abstract) | - | - |
| `Payments` | createPayment, verifyPayment, handleWebhook, the gateway, staff | `PaymentsProofs` | `MCPayments` |
| `Checkout` | createOrder, validateAndConsumeToken, the coupon rows | `CheckoutProofs` | `MCCheckout` |
| `Menu` | categories, products, the price of a cart, the preview of a coupon | `CheckoutProofs` | `MCMenu` |
| `Dispatch` | drivers, assignments, transitions, staff | `DispatchProofs` | `MCDispatch` |
| `Tracking` | positions that drivers report, and estimates of arrival | `TrackingProofs` | `MCTracking` |
| `Gateway` | sockets, rooms, and what is told to them after each commit | `TrackingProofs` | `MCGateway` |
| `TwoFactor` | two-factor authentication of an account, and the sign-in around it | `TwoFactorProofs` | `MCTwoFactor` |
| `PhoneOtp` | codes sent to a phone number, entered, counted, verified, consumed | `PhoneOtpProofs` | `MCPhoneOtp` |
| `Accounts` | users, sessions, Google and Apple accounts linked to them | `AccountsProofs` | `MCAccounts` |
| `Addresses` | a customer's addresses and which is the default | `AddressesProofs` | `MCAddresses` |

`Requests` is extended by all but `Checkout` and `Settlement`, `Deliveries` by
`Dispatch`, `Tracking` and `Gateway`. `Checkout` with `Menu` are createOrder seen twice,
and `Tracking` with `Gateway` recordDriverLocation; each pair is proved about in one
module, which is why `Menu` and `Gateway` name their state apart (`MenuInit`, `tables`,
`offer`, `GatewaySpec`, `row`, ...).

All models share their form. A request that outlives an await is a record (or,
in `Checkout`, a step) that remembers exactly what the handler keeps in local
variables; one action runs from one await to the next. Reads that follow one
another without a write are one step, at the last of them. A transaction whose
writes rest only on earlier reads is one step. `Abandon` / `Abort` ends a request
anywhere between its steps: a refusal, an exception of a call, the death of the
process. Refusals that write nothing (ownership, missing rows, menu and address
checks) need no action of their own; they are the absence of a step, or that one.

Components meet in the tables, and so do their models: what a component reads of
another is a variable of its module, written by actions that stand for the other's
handlers at the grain that matters to it. `Payments` and `Dispatch` both have
updateOrderStatusAdmin; `Checkout` has validateAndConsumeToken inside its
transaction and the staff's coupon edits beside it; `Menu` has createOrder's prices,
and its refusals for a token or a limit are an `Abandon`; `Tracking` and `Gateway`
let an assignment pass between drivers as `Dispatch` allows or more freely;
`TwoFactor` has the sign-in that `Accounts` shows as a session opened later or never.

`alone` (`Payments`, `Dispatch`), `parallel` (`Checkout`, `PhoneOtp`) and their like
fix, for a whole behaviour, how many requests are served side by side, and only
whether a request is taken up depends on them. History variables say what a property
is about and no guard reads them: `staffWrote`, `setBack`, `astray`, `edited`,
`doubled`, `starters`, `creator`, `raced`, `renounced`, `disturbed`, `settled`,
`stirred`, `carriers` and `crossed` remember what no row does.

### Payments

| Code | Action |
| --- | --- |
| createPayment: read and checks / provider call / `payment.create` | `CreatePayment` / `OpenGatewayOrder` / `InsertPayment` |
| verifyPayment up to its transaction, with a good or a bad result | `VerifyReceipt` / `VerifyFailure` |
| handleWebhook: an event of a payment authorized or captured; order.paid without its payment | `WebhookSucceeded`; `WebhookOrderPaid` |
| handleWebhook: an acknowledged duplicate; payment.failed | `WebhookDuplicate`; `WebhookFailed` |
| the transaction both share, its unique violation, the failure update | `Settle` / `SettleConflict` / `MarkFailed` |
| updateOrderStatusAdmin | `UpdateOrderStatusAdmin` |

The gateway is external (`PayAtGateway`, `CaptureAtGateway`). What the code relies on:
a receipt that carries its signature is of a payment whose money the gateway holds,
authorized or captured (`Held`), the amount is the one asked for, and a webhook is
repeated until a 2xx answer.

What the code does not check is not in the model either. verifyPayment signs the
gateway order and the payment that the browser sends, and takes the amount from the
row (payments.service.ts:193-198): a receipt of any gateway order is good for any row
(`SignedReceipt`, `VerifyReceipt`). The provider reports payment.authorized like
payment.captured (razorpay-payment.provider.ts:307-312), so authorized money settles.
An order.paid without its payment has no amount to compare and no receipt to record
(`WebhookOrderPaid`). findFirst may find, by any of three ids, a row of another order,
and an event is acknowledged on the strength of the row it finds (`WebhookDuplicate`).
`astray` is a history variable: payments that were ever recorded for another order
than they were made for. `acked` holds the payments with a success event answered by a
2xx.

`Settlement` is what remains as the promise: an order becomes paid when a payment
whose money is held is credited to it and to no other (`Credit`), or because money made
out to it was captured (`Recognise`); it stays paid. Credits of an order may be
replaced, because a later settlement of a row writes over its receipt.

`seen` in a waiting request is the order status the handler read before the
provider call; the transaction computes the new status from it. `Total` is fixed
because no code writes `totalAmount` after the order is placed. `alone` selects
behaviours that serve one request at a time. The MOCK provider (development) is left
out. `audit` counts audit rows up to `AuditCap`.

### Checkout

Each call names the order it would place. `Begin` or `AnswerAgain` is the
idempotency read; `CheckCoupon` the check outside the transaction; `Redeem` the
increment that opens it and takes the row lock (`lock`, `count`); `ReadToken` the
token's check; `Commit` the rest, which others see only then; `Abort` the
rollback. `CreateCoupon`, `EditCoupon`, `DeleteCoupon` are staff, `ExpireToken` is
time. `edited` is a history variable: a limit that staff lower below the count is
not an overdraft by checkouts. `parallel` fixes, for a whole behaviour, how many
requests are served side by side, so one run states what holds for one and what
for `MaxParallel`.

### Menu

| Code | Action |
| --- | --- |
| createCategory; deleteCategory: count / delete | `CreateCategory`; `CountDishes` / `DeleteCategory` |
| createProduct, updateProduct, deleteProduct | `CreateProduct`, `UpdateProduct`, `DeleteProduct` |
| toggleAvailability: read / update | `ReadAvailability` / `ToggleAvailability` |
| updateCoupon, toggleCoupon, time; deleteCoupon | `UpdateCoupon`; `RemoveCoupon` |
| what the customer is shown: getMenuItems, validateCoupon | `Quote` |
| createOrder: products / coupon / transaction | `ReadMenu` / `ReadCoupon` / `PlaceOrder` |

`OrderLines`, `Discount`, `Total` are createOrder's price computation, `Preview`
validateCoupon's, each translated from its own lines although they ought to agree:
`PreviewIsCharged` compares them. Amounts are whole rupees, so `RoundPercent` is
`Math.round` of a percentage. The keys of `schema.prisma` (Restrict on a product's
category, SetNull on a line's product) are in `Deletable` and `Detached`. `Init` is
what the seed leaves, with recipes from a set, or a category without dishes.
`stirred` marks a quote of which a dish or the coupon was edited before createOrder
read it.

### Dispatch

| Code | Action |
| --- | --- |
| createAndActivateDriver, activateDriver / updateDriverStatus | `ActivateDriver` / `UpdateDriverStatus` |
| assignDriverToOrder: call / checks / transaction | `AssignDriver` / `CheckAssignment` / `WriteAssignment` |
| reassignDriver: read / old driver / history row, then the above | `ReassignDriver` / `FreeOldDriver` / `LogReassignment` |
| transitionDeliveryStatus: checks / transaction | `TransitionDeliveryStatus` / `WriteTransition` |
| updateAvailability: check / update | `UpdateAvailability` / `WriteAvailability` |
| updateOrderStatusAdmin | `UpdateOrderStatusAdmin` |
| verifyPayment, handleWebhook, as they write `orders.status`: read / transaction | `ReadForPayment` / `WriteConfirmed` |

`orders.status` has three writers: drivers, staff, and settled payments, which write
what they read before an await (payments.service.ts:232-235, 390-393). Whether there is
a payment is left open: any order may be settled at any time and again, which is more
than `Payments` allows. `setBack` remembers orders where a settlement wrote over
another status than the one it had read. `history[o]` is the set of statuses that have a history row; how many rows and
their notes are left out. `staffWrote` remembers whose the order's status is, because
staff may write any status over any other; a settlement that writes back a status
writes back whose it was. `alone` selects
behaviours that serve one request at a time.

### Tracking

| Code | Action |
| --- | --- |
| recordDriverLocation: checks and stamp / delivery / two writes / route, broadcast | `RecordDriverLocation` / `FindDelivery` / `StorePosition` / `EstimateArrival` |
| the update of estimatedDelivery that is not awaited | `SaveEstimate` |
| assignDriverToOrder, transitionDeliveryStatus | `AssignDriver`, `Transition` |
| getDeliveryTracking: `isLocationStale` | `IsStale` |

Reads of a report are steps of their own, because it is the time between the stamp
and the write that the properties are about. `late` holds estimates on their way to
the database, which outlive their request. `raced` marks orders that were assigned
while a report of another driver was under way.

### Gateway

| Code | Action |
| --- | --- |
| handleConnection, handleDisconnect | `HandleConnection`, `HandleDisconnect` |
| handleJoinOrder, handleJoinDriver: reads / `client.join` | `HandleJoinOrder`, `HandleJoinDriver` / `Join` |
| handleJoinAdmin | `HandleJoinAdmin` |
| assignDriverToOrder / its event | `AssignDriverToOrder` / `Broadcast` |
| transitionDeliveryStatus: checks / transaction / its event | `TransitionDeliveryStatus` / `WriteTransition` / `Broadcast` |
| recordDriverLocation, over a socket or HTTP / broadcastLocationUpdate | `HandleLocationUpdate` / `BroadcastLocation` |
| getUserOrders: orders placed as a guest become the customer's | `GetUserOrders` |

An order's `userId` may be null: the order was placed by a guest, and `Owner` is who has
its phone number. It is set (`linked`) when that customer lists orders, and only then
may the customer join the order's room.

`screen` is the last event a socket received of an order in the order's or the
admins' room, `calls` and `trace` what it ever received in a driver's room and of
positions. Delivery of a message to a connected socket is immediate: Socket.IO keeps
the order of one connection, and what a lost connection misses is what
`HandleDisconnect` forgets. `crossed` marks orders whose last commit met another
handler that had still to tell, wrote over a reassignment or lost its event. An event
is a delivery's status and driver; the order status that some carry is left out.
`NewsReachParties` speaks of rooms only: whom the HTTP endpoint getDeliveryTracking
answers is no part of it.

### TwoFactor

| Code | Action |
| --- | --- |
| generateSetup | `GenerateSetup` |
| verifySetup: checks / update | `VerifySetup` / `Enable` |
| regenerateRecoveryCodes: checks | `RegenerateRecoveryCodes` |
| generateAndStoreRecoveryCodes: deleteMany / createMany | `PurgeCodes` / `StoreCodes` |
| disable: checks / delete with its cascade | `Disable` / `DeleteRecord` |
| login: checks / session without a challenge | `SignIn` / `CreateSession` |
| createLoginChallenge: deleteMany / create | `ClearChallenges` / `IssueChallenge` |
| verifyLogin, verifyRecoveryLogin: checks | `VerifyLogin`, `VerifyRecoveryLogin` |
| delete of the recovery code / of the challenge / establishSessionForUser | `SpendCode` / `ConsumeChallenge` / `EstablishSession` |

One account, since accounts share no row. A record is named by the first secret it
held, because an upsert keeps the row and a new setup after `disable` makes
another: codes are stored by the id that was read, enabling and disabling are by
user. `opened` and `redeemed` count sessions per challenge and per recovery code;
`confirmed` holds the secrets whose code verifySetup accepted. Google and Apple
sign-in enter as `SignIn` does. phoneLogin and register open sessions without
reading or writing any row of this module; logout deletes sessions, which no
action reads.

### PhoneOtp

| Code | Action |
| --- | --- |
| sendOtp: cooldown / count / create | `SendOtp` / `CountLastHour` / `InsertCode` |
| verifyOtp: reads and checks, a wrong or a right code | `EnterWrong`, `EnterRight` |
| verifyOtp: update of `attempts` / of token and expiry | `CountWrong` / `IssueToken` |
| validateAndConsumeToken | `ConsumeToken` |

One phone number, since numbers share no row. The clock `now` is the database's
and the process's; a handler takes it once, at its start, and a row is dated when
it is written (`createdAt`), so the two differ by as much as a request is held up.
`latest` is any of the rows that share the last date. `tries` counts the wrong
codes that were answered, which `attempts` should; `entered` is when the code of a
row was first accepted.

### Accounts

| Code | Action |
| --- | --- |
| register, phoneLogin, the user of createAndActivateDriver: checks / create | `Register`, `PhoneLogin`, `CreateDriverUser` / `CreateUser` |
| login; the session that every sign-in ends in; logout, expiry | `Login`; `OpenSession`; `Logout` |
| GET google with action=link; expiry of the state token | `GoogleAuth`; `StateExpires` |
| googleCallback, nativeGoogleAuth, nativeAppleAuth, up to the profile | `GoogleCallback`, `NativeGoogleAuth`, `NativeAppleAuth` |
| handleGoogleIdentity and handleAppleIdentity: lookup by identity | `LookupToLink`, `LookupToEnter` |
| lookup by e-mail / insert of the link / insert of user and link | `LookupEmail` / `SaveLink` / `SignUp` |
| unlinkGoogle: checks / deleteMany | `UnlinkGoogle` / `DeleteGoogleLinks` |

Google's answer, asked for over the network, is taken as genuine and its address as
verified (`EmailOf`). Apple's token is decoded and its signature not checked, and when
it has no address the client's `providedEmail` is used (apple-auth.service.ts:53-80): any
address may come with an Apple identity, or none. Refusals of tokens change nothing.
`Unused` and `Unlinked` are the unique columns of `schema.prisma`, which alone are
checked at the write; a null is equal to nothing, so any number of users may be without
a phone. `creator`,
`starters` and `doubled` remember which identity created a user, who asked for a
link, and who ever had two Google accounts linked. The branch of handleAppleIdentity
that links on demand has no caller and no action.

### Addresses

| Code | Action |
| --- | --- |
| create, update, setDefault: reads | `Create`, `Update`, `SetDefault` |
| updateMany of the old defaults: snapshot / locks and writes | `FindDefaults` / `UnsetDefaults` |
| create / update, and the commit | `InsertAddress` / `WriteAddress` |
| delete: read / delete / findFirst / update, and the commit | `Delete` / `DeleteRow` / `FindNewest` / `PromoteNewest`, `DeleteLast` |

The transactions are modelled statement by statement, with the row locks and the
re-check of READ COMMITTED, because two of them interleave. What a transaction has
written shows with its commit, which is its last statement's step. A deadlock that
PostgreSQL breaks is an `Abandon`. `settled` holds from when a request that ran
alone wrote a default until requests overlap and one of them writes; `renounced`
says that the last default was unset by an update that named no other.

## 3. Runs

| Run | Distinct states | Shows |
| --- | --- | --- |
| `payments` | 1,506,889 | the invariants of settlement and the refinement of `Settlement`, two requests at a time over two orders of different amounts; what docs/payments.md 2.4 promises, one at a time |
| `payments_live` | 231,402 | captured money ends in a COMPLETED order, unless it is recorded for another |
| `payments_late_failure` | violation | a late failure writes FAILED over the only row of a paid order |
| `checkout` | 521,397 | keys, counts, tokens and overdraft with one to three requests at a time |
| `menu` | 1,227,359 | references, totals, the preview and past orders, while staff edit what an order is priced from |
| `dispatch` | 3,159,768 | carried before delivered; order and delivery agree but for what staff or a stale settlement wrote; moves follow the machine one request at a time |
| `tracking` | 1,631,385 | positions shown as live are recent, estimates are of the delivery's own driver |
| `gateway` | 1,621,315 | screens end up showing the row, and news stay among the parties, a guest's customer being one once the order is linked |
| `two_factor` | 144,362 | challenges and recovery codes open one session each; one batch, one challenge and a confirmed secret when requests do not overlap |
| `phone_otp` | 2,562,536 | a bounded overdraft of the hourly limit, codes first accepted only in time, tries counted and codes spaced when requests do not overlap |
| `accounts` | 2,709,837 | a way in is kept, Google's links are asked for, no link is taken |
| `addresses` | 427,871 | one default, and a default kept, once a request has run alone |

**Bounds.** Payments: two attempts, two gateway payments and two requests are enough
for every race the handlers can have: two rows that one webhook may match, two payments
for one row, a handler suspended while another completes. Two orders of different
totals let a receipt be recorded for the order it was not made for, a webhook meet that
row, and an amount disagree; two attempts may be of one order or one of each.
Audit rows are counted up to two where requests are served one at a time, which
`NoRepeatedSettlement` speaks of. Staff write CANCELLED, which the handlers tell apart
from PENDING as from the rest; in `payments_late_failure` also a status that only the
kitchen writes. `payments_live` has one gateway payment, because its property is about one at a time;
`payments_late_failure` needs one order only. Checkout: three calls, because an overdraft of two beyond the limit and a
third call that is answered again need three; one coupon, key and token that all
of them may or may not bring; a limit of one, and none. Dispatch: one order (no
action relates two orders except through a driver's availability, of which the
passing properties say nothing), two drivers so that a reassignment has somebody
to go to, two requests. Two-factor: two requests, two secrets (so a
setup can be begun again, and after a disable), a batch of two codes and one of one,
and two challenges. Menu: two products and two categories; the prices of two recipes,
a cart with one line and one with two, a half portion and an extra; coupons that are
flat, capped, above 100 % and switched off; one order against two edits by staff
(`MaxOrders`, `MaxEdits`), because a property relates one order to an edit before and
one after it was read. Tracking: one order, two drivers, two reports; a unit of time
is the 60 seconds of both thresholds, fixes are one unit old, two (too old) or of no
known time, and the clock stops at `Horizon` 2, when a fix may be too old by one
unit. Gateway: one socket, which the customer, one of the staff or a driver may have
in turn (sockets hear of each other nothing), two drivers, two handlers, so that one
is overtaken between its commit and its event. Accounts: two users, two Google
accounts with an address each and an Apple account that may come with either, one phone
number and one session per user: both users may come from a provider and have no phone,
two accounts of Google make a double link, and the shared addresses make Apple and
Google meet. Swapping the two Google accounts together with their addresses is a
symmetry as well, since it leaves `EmailOf` as it is. Addresses: two requests over four addresses, as
many as a history of several defaults, a delete and a promotion needs. Phone codes: the times keep their order (cooldown and code shorter
than the hour and the token) on a clock of three ticks; three rows, so that
older rows return as the latest; one try allowed and two modelled, so that the
limit is met and would be passed. Three rows cannot pass a limit of two by more than
the one code that `OverSentByInFlight` allows two requests at a time: the run tests the
serial case, the interleaving is the proof's (with `HourlyLimit = 1`, where a third row
would pass the bound, the invariant was checked by hand, 380,496 states). Symmetric model values are permuted where no temporal
property with fairness is checked. `checkout.cfg` switches deadlock off: calls are
finite, and when all are done and the coupon is deleted the system stops.
`phone_otp.cfg`, `accounts.cfg` and `menu.cfg` do so too: rows are created once each,
edits are counted, the clock stops at `Horizon`, and then nothing is left to do.

**Fairness** (`payments_live`). `WF` on the steps of a request that is under way:
every await of the event loop ends, in an answer or an exception. `SF` on
`Redeliver`: the gateway repeats an unacknowledged webhook forever, and the API is
up again and again to take it up. `SF` on `Complete`: a redelivered webhook does
not meet a dying process or a failing database every single time. No fairness is
given to customers, their browsers or staff: nobody has to come back.

**Serial properties.** `OneActiveAttempt`, `NoRepeatedSettlement`,
`PaymentOnlyConfirms`, `TokenUsedOnceSerially`, `MovesFollowMachine`,
`OneBatchSerially`, `EnabledIsConfirmedSerially`, `OneChallengeSerially`,
`SpacedSerially`, `TriesCountedSerially` speak of behaviours that serve one request at
a time. They are what the handlers' checks achieve; the code has no lock that
would make them hold under overlap, and the hazard list says so at each line.

**Excepted cases.** Some properties hold under every overlap but for a case that a
history variable names, as narrowly as the code allows: `EstimateOfItsDriver` but for
orders reassigned while the old driver's report was under way (`raced`),
`ScreensShowTheRow` but for handlers that cross (`crossed`), `WayInKept` but for users
who had two Google accounts (`doubled`), `AckedIsSettled` and `EveryCaptureSettles` but for
payments recorded for another order (`astray`), `OrderMatchesDelivery` but for orders
whose status is staff's (`staffWrote`) or was written back by a settlement (`setBack`),
`PreviewIsCharged` but for what was edited in
between (`stirred`), the two of `Addresses` but for the time until a request has run
alone (`settled`). Each exception is a behaviour that the code has.

**Violation.** `payments_late_failure` checks a sentence of a document that the code
does not keep; `findings` in `PROJECT.json` quotes it.

**Observed while modelling**, and not the subject of a run:

* Two overlapping createPayment calls leave two active attempts for one order, where
  docs/payments.md:30 has one (`OneActiveAttempt` holds serially).
* Two overlapping checkouts without a coupon may use one phone token: the read
  (verification.service.ts:261) and the update (273) are not one statement, and the
  column has no unique index (prisma/schema.prisma:199). A coupon's row lock prevents
  it (`NoSharedCouponAndToken`).
* reassignDriver writes the old driver ONLINE whatever he is, suspended included,
  before it checks the new one (delivery.service.ts:335, 589-590).
* A driver who has been replaced stays in the order's room until the connection
  closes, and is not told in his own room that the delivery is no longer his.
* updateOrderStatusAdmin tells no room: a cancellation by staff is seen only when the
  order is read again.
* verifyPayment does not compare the gateway order or the amount of a receipt with the
  row's (payments.service.ts:193-200). A payment recorded for another order settles that
  order; the webhook of the order it was made for then finds that row by its receipt and
  is answered as a duplicate (328-360), or its amount is refused, and nothing settles the
  order it was made for any more. This is what `astray` excepts.
* Money that is authorized and never captured counts as paid
  (razorpay-payment.provider.ts:310).
* A settlement that waits while a driver goes on writes the order's status back, for
  instance PREPARING over OUT_FOR_DELIVERY; the next transition repairs it, but after
  DELIVERED there is none. Overlapping staff writes are lost in the same way.
* unlinkGoogle counts links and deletes all that are Google's: a user with two Google
  accounts and no password is locked out (google-auth.service.ts:430,
  docs/google-auth.md:123).
* A phone code that was accepted may be entered again as long as its token lasts, and
  each time prolongs both (verification.service.ts:143-213): `FirstEntryInTime` is about
  the first acceptance.
* Sign-in with Apple links the identity to whoever has the address that came with it,
  without asking (apple-auth.service.ts:205-218), where Google's is refused
  (google-auth.service.ts:366-374).

## 4. Proofs

The theorems hold for any number of orders, attempts, requests, coupons, tokens
and drivers, from the assumptions named in the modules (`None` is not an element of
the other sets, staff statuses are order statuses, totals and limits are naturals,
the calls, and of `PhoneOtp` the rows and workers, are finitely many). Each component has
one inductive invariant; its proof has a lemma per action or group of like actions.
The serial properties rest on a second one, relative to the first, of the same shape
in four modules: a request served alone is the only one, and what it remembers of the
rows is still so (`LoneRequestIsFresh`).

* **`SettlementInv`** (`PaymentsProofs`). Neither `PaidIsBacked` nor `AckedIsSettled` is
  inductive: a waiting request might settle with a receipt the gateway never gave, and
  an early return might rest on a row whose order is not paid. The invariant adds that
  what requests remember of rows and gateway stays true (`RequestsAreSound`; the
  remembered order status does not, and is left out), that rows are for the order of
  their gateway order, that the money of a receipt in a row is held, its order paid, and
  the receipt either of that order or astray (`ReceiptsAreSound`), and that a SUCCEEDED
  row is of a paid order. Failures change a status but never the receipt, so evidence
  persists; a settlement may replace one receipt by another, of money held as well, and
  the unique column keeps a payment from backing two orders.
  From it: `PaidIsBacked`, `AckedIsSettled`, `SucceededIsSettled`,
  `ReceiptRecordedOnce`, and the refinement: `Settle` maps to `Settlement!Credit` with
  a receipt, to `Recognise` without one or to a stutter, a payment or a capture to
  `Receive`, all else to a stutter. With `LoneRequestIsFresh` (a lone `createPayment` still finds no active
  attempt, a lone confirmation still finds the status it has read): `OneActiveAttempt`,
  `NoRepeatedSettlement` and `PaymentOnlyConfirms`.
* **`CheckoutInv`** (`CheckoutProofs`). `UsageCountsOrders` needs the row lock: a
  call past its increment is the only one to hold the row and its uncommitted count
  is the committed one plus one (`LocksAreHeld`). `NoSharedCouponAndToken` needs
  `ReadUnderLock`: a call that has read its token while it holds the coupon's row
  cannot be overtaken by another with the same pair. `OneOrderPerKey` rests on the
  unique column at the commit, not on the read. `OverdrawnByInFlight` counts a call
  past its check as a use: usage and such calls together stay below the limit plus
  `parallel` (`OverdraftIsBounded`), since a check that succeeds does so beside no more
  calls than are served at once. `TokenUsedOnceSerially` follows from
  `LoneTokenIsUnused`: the token that a lone call has read pays for no order yet.
* **`DispatchInv`** (`DispatchProofs`). A history is closed under "comes before"
  (`HistoryIsComplete`), and a transition under way was valid for a status that is
  in the history (`MovesAreLogged`), however stale it is when it is written; a
  settlement that is to write DELIVERED back, not from staff, has read it from a driver
  (`SettlementsAreLogged`). Served alone it is not stale, which gives `MovesFollowMachine`.
* **`TwoFactorInv`** (`TwoFactorProofs`). Every check of a login may be stale; what
  decides is the delete by id, which throws when the row is gone. Whoever deleted a
  challenge or a code holds it alone until its session is opened (`ConsumedOnce`,
  `SpentOnce`), a challenge that opened a session is gone for good
  (`OpenedAreGone`), and no later batch brings a used code back (`CodesAreMade`).
  Served alone, a request that stores codes has just deleted the others, one that
  enables has just confirmed the secret, one that issues a challenge has just cleared
  the rest: `OneBatchSerially`, `EnabledIsConfirmedSerially`, `OneChallengeSerially`.
* **`OtpInv`** (`PhoneOtpProofs`). `expiresAt` serves the code first and the token
  later. Only an acceptance prolongs it, so a row that is not verified expires with
  its code (`UnverifiedExpires`), and a request that has read it in that state
  entered its code in time, or another has verified the row meanwhile
  (`RightInTime`). `AttemptsAreTries` bounds what stale increments can write.
  `OverSentByInFlight` holds because a request about to insert has counted, in every
  hour that is not over, fewer codes than the limit, beside no more such requests than
  are served at once (`InsertsAreBounded`). Served alone, the tries that are written
  are those that were read and one more (`TriesCountedSerially`), and a row is dated no
  earlier than the clock that found the others old enough (`SpacedSerially`).
* **`TrackingInv`** (`TrackingProofs`). A stamp is never later than now nor, by more
  than `MaxAge`, than the phone's time, in a waiting request as in a row
  (`FixesAreWellStamped`); so what is not stale was taken at most `MaxAge` +
  `StaleAfter` ago, in whatever order reports are stored. Every estimate under way,
  awaited or not, is of the order's driver or the order is marked
  (`ReportsAreOfItsDriver`).
* **`GatewayInv`** (`TrackingProofs`). `NewsReachParties` is about what was heard, and
  what is heard depends on rooms that were joined, or are about to be, on rows read
  earlier; it needs that every room is held by somebody who may hold it
  (`RoomsAreEarned`), that being a party is never lost (`carriers` and `linked` only
  grow), that the driver of every row, event or report under way has carried the order
  (`DriversAreCarriers`), and that a connection that is lost takes rooms and memory
  with it (`GoneIsForgotten`), because its socket may be somebody else's next.
  `ScreensShowTheRow` needs that an order which is not marked has one telling to come
  at most, of its row (`TellingIsTheRow`), and that whoever heard of an order is still
  in a room that the telling reaches (`HearersStay`).
* **`MenuInv`** (`CheckoutProofs`). `PreviewIsCharged` compares a preview with an order
  that is computed later in three reads. What was shown stands until it is stirred: a
  quote while its dishes and the coupon are as they were (`QuoteStands`), lines once
  the dishes are read while the coupon is (`PriceStands`), the order once both are
  (`OrderIsReady`); a coupon may be deleted at any time and then there is no discount
  to compare, as a dish may and then the order is refused. `TotalsAddUp` and the action
  property `LinesAreKept` rest on the same requests: an order is written with the sum
  of its own lines, and what a later edit writes is no line of it but a reference set
  to null. Sums of amounts of any length are defined by a recursive function. That one
  exists, and is a natural number, is an induction over the length, and is proved by
  contradiction at the least length for which it fails (`LeastNumber`, from the
  library's theorem that the order of the naturals is well-founded).
* **`AccountsInv`** (`AccountsProofs`). A request that may unlink relies on something
  that nothing takes away: a password, an Apple link, or a mark of two Google links
  (`RequestsAreSound`, `DoublesAreNoted`). Apple links by address, so that a Google
  account is linked only on demand needs that requests to link it come from state
  tokens, and tokens from users who were signed in (`RowsAreOfUsers`).
* **`AddressesInv`** (`AddressesProofs`). A request that no other ran beside is the
  only one in flight and what it has read is still so (`UndisturbedRunAlone`);
  whatever overlaps did before, its default is the only one when it commits.

The inductive invariants that are not themselves the subject of a run were checked
with TLC on the instances above before they were proved.

Every invariant and every action property of a passing run is thus a theorem. Only
model-checked: liveness (`EveryCaptureSettles`) and the fairness it rests on, which are
beyond the prover.

## 5. Not modelled

* Banners: an array in memory changed by synchronous code; nothing depends on it.
* Upload and health: pure input and output.
* The cache and the geometry of routing: a call to it is an await that always gives an
  estimate, and no property tells estimates apart but by whose position they are from.
* updateCategory, images, names, order of display; fields of an address or a user
  other than those named; `user.role`, which activation writes: no modelled code
  decides by it but to refuse.
* The MOCK payment provider, for development, and the linking branch of
  handleAppleIdentity, which nothing calls.
* Guards, filters, interceptors, validation pipes and configuration: stateless; a
  refusal is a step not taken. AuthGuard and OptionalAuthGuard are `SignedIn` and
  `Recognised` of `Accounts`.
* `scripts/`, which drive the API over HTTP. `prisma/seed.ts` is the initial state of
  `Menu` and has no model of its own.
* Probabilities: that random order numbers collide, or a code is guessed, is an
  `Abort` or a nondeterministic choice.

## 6. Plan

Done: the modules of section 2 and the proofs of section 4. What is left:

1. That a captured payment which is not astray is never beyond settling, as a safety
   property that the liveness of `payments_live` rests on: as long as it is owed
   (`Owed`) a webhook can settle it.
2. The MOCK payment provider, if it is ever more than a help in development.
3. A document for the observations of section 3 that the project's documents leave
   open: what becomes of money paid for a cancelled order, and of a delivery whose
   driver is suspended.
