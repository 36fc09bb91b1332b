------------------------------ MODULE Checkout ------------------------------
(***************************************************************************)
(* Placing an order: createOrder of orders.service.ts, the phone token that *)
(* validateAndConsumeToken of verification.service.ts uses up for it, and    *)
(* the coupon rows that staff edit meanwhile (coupons.service.ts).           *)
(*                                                                           *)
(* createOrder reads and checks outside a transaction and then writes inside *)
(* one.  The transaction is interactive and runs at PostgreSQL's default     *)
(* isolation, READ COMMITTED: each of its statements sees what others have   *)
(* committed by then, and a row it has updated stays locked until it ends.   *)
(* The coupon's increment comes first, so that row is locked while the token *)
(* is read; the statements after that read change only at the commit what    *)
(* others can see, and are one step with it.                                 *)
(***************************************************************************)
EXTENDS Naturals, FiniteSets

CONSTANTS
    Calls,          \* calls of POST /orders; the order a call places bears its name
    Keys,           \* values of the Idempotency-Key header
    Coupons,        \* rows of `coupons', each once created and once deleted
    Tokens,         \* phone verification tokens that verifyOtp has issued
    Limits,         \* values staff give to maxUsage, 0 for none
    MaxParallel,    \* bound: requests served at the same time
    None

ASSUME ParallelAssumption == MaxParallel \in Nat \ {0}
ASSUME LimitsAssumption == Limits \subseteq Nat
ASSUME NoneAssumption == None \notin Calls \cup Keys \cup Coupons \cup Tokens
ASSUME CallsAssumption == IsFiniteSet(Calls)

VARIABLES
    step,           \* step[c]: how far the call is
    asks,           \* asks[c]: the key, coupon and token the call came with
    answer,         \* answer[c]: the order the call was answered with
    count,          \* count[c]: the usageCount its open transaction has written
    coupon,         \* coupon[k]: the row
    token,          \* token[t]: the row of `phone_verifications' that holds t
    lock,           \* lock[k]: the call whose open transaction has written row k
    placed,         \* orders committed
    parallel        \* requests served at the same time in this behaviour

calls == <<step, asks, answer, count>>
rows == <<coupon, token, placed>>
vars == <<calls, rows, lock, parallel>>

-----------------------------------------------------------------------------
Steps == {"idle", "check", "redeem", "token", "commit", "done"}

Ask == [key : Keys \cup {None}, coupon : Coupons \cup {None}, token : Tokens \cup {None}]

\* limit: maxUsage; edited: history, TRUE once updateCoupon has written the limit.
CouponRow == [state : {"absent", "active", "inactive", "deleted"},
              usage : Nat, limit : Limits \cup {0}, edited : BOOLEAN]

\* Shape of the state.
TypeOK ==
    /\ step \in [Calls -> Steps]
    /\ asks \in [Calls -> Ask]
    /\ answer \in [Calls -> Calls \cup {None}]
    /\ count \in [Calls -> Nat]
    /\ coupon \in [Coupons -> CouponRow]
    /\ token \in [Tokens -> {"verified", "consumed", "expired"}]
    /\ lock \in [Coupons -> Calls \cup {None}]
    /\ placed \subseteq Calls
    /\ parallel \in 1..MaxParallel

Init ==
    /\ step = [c \in Calls |-> "idle"]
    /\ asks = [c \in Calls |-> [key |-> None, coupon |-> None, token |-> None]]
    /\ answer = [c \in Calls |-> None]
    /\ count = [c \in Calls |-> 0]
    /\ coupon = [k \in Coupons |-> [state |-> "absent", usage |-> 0,
                                    limit |-> 0, edited |-> FALSE]]
    /\ token = [t \in Tokens |-> "verified"]
    /\ lock = [k \in Coupons |-> None]
    /\ placed = {}
    /\ parallel \in 1..MaxParallel

-----------------------------------------------------------------------------
InFlight == {c \in Calls : step[c] \notin {"idle", "done"}}

\* A request is taken up when fewer than `parallel' are being served.
SlotFree == Cardinality(InFlight) < parallel

GoTo(c, s) == step' = [step EXCEPT ![c] = s]

\* Where a call that needs no coupon, or has redeemed it, goes on.
TokenOrCommit(ask) == IF ask.token # None THEN "token" ELSE "commit"

\* The end of a transaction lets go of the row it has written.
Release(c) == lock' = [k \in Coupons |-> IF lock[k] = c THEN None ELSE lock[k]]

-----------------------------------------------------------------------------
(* createOrder before its transaction *)

PlacedWith(key) == {c \in placed : asks[c].key = key}

\* The idempotency read finds the order of an earlier call, which is the answer.
AnswerAgain(c, ask) ==
    /\ step[c] = "idle" /\ SlotFree
    /\ ask.key # None
    /\ \E o \in PlacedWith(ask.key) : answer' = [answer EXCEPT ![c] = o]
    /\ asks' = [asks EXCEPT ![c] = ask]
    /\ GoTo(c, "done")
    /\ UNCHANGED <<count, rows, lock, parallel>>

\* It finds none, or there is no key; the refusals of address, menu and portion
\* write nothing and are those of Abort.
Begin(c, ask) ==
    /\ step[c] = "idle" /\ SlotFree
    /\ ask.key = None \/ PlacedWith(ask.key) = {}
    /\ asks' = [asks EXCEPT ![c] = ask]
    /\ GoTo(c, IF ask.coupon # None THEN "check" ELSE TokenOrCommit(ask))
    /\ UNCHANGED <<answer, count, rows, lock, parallel>>

\* MUTANT of UnderLimit: off by one.
AtMostLimit(k) == coupon[k].limit # 0 => coupon[k].usage <= coupon[k].limit

UnderLimit(k) == coupon[k].limit # 0 => coupon[k].usage < coupon[k].limit

\* The coupon is read and checked; expiry date and minimum are refusals too.
CheckCoupon(c) ==
    LET k == asks[c].coupon IN
    /\ step[c] = "check"
    /\ coupon[k].state = "active"
    /\ UnderLimit(k)
    /\ GoTo(c, "redeem")
    /\ UNCHANGED <<asks, answer, count, rows, lock, parallel>>

-----------------------------------------------------------------------------
(* The transaction *)

\* MUTANT of RowFree: the count is read and written back without the row's lock.
RowNotLocked(k) == TRUE

RowFree(k) == lock[k] = None

Live(k) == coupon[k].state \in {"active", "inactive"}

\* usageCount: { increment: 1 } waits for the row, which must still be there.
Redeem(c) ==
    LET k == asks[c].coupon IN
    /\ step[c] = "redeem"
    /\ RowFree(k)
    /\ Live(k)
    /\ lock' = [lock EXCEPT ![k] = c]
    /\ count' = [count EXCEPT ![c] = coupon[k].usage + 1]
    /\ GoTo(c, TokenOrCommit(asks[c]))
    /\ UNCHANGED <<asks, answer, rows, parallel>>

\* MUTANT of Usable: consumedAt is not looked at.
NotExpired(t) == token[t] # "expired"

Usable(t) == token[t] = "verified"

\* MUTANT of ReadToken: validateAndConsumeToken is not given the transaction.
ReadTokenOutside(c) ==
    /\ step[c] = "token"
    /\ Usable(asks[c].token)
    /\ token' = [token EXCEPT ![asks[c].token] = "consumed"]
    /\ GoTo(c, "commit")
    /\ UNCHANGED <<asks, answer, count, coupon, placed, lock, parallel>>

\* validateAndConsumeToken reads and checks the token.
ReadToken(c) ==
    /\ step[c] = "token"
    /\ Usable(asks[c].token)
    /\ GoTo(c, "commit")
    /\ UNCHANGED <<asks, answer, count, rows, lock, parallel>>

\* MUTANT of KeyFree: the column is an index that is not unique.
KeyUnconstrained(key) == TRUE

\* Order.idempotencyKey is unique.
KeyFree(key) == key = None \/ PlacedWith(key) = {}

\* The token is marked, whatever it says by now, the order inserted, and all of
\* it committed.
Commit(c) ==
    LET k == asks[c].coupon
        t == asks[c].token IN
    /\ step[c] = "commit"
    /\ KeyFree(asks[c].key)
    /\ placed' = placed \cup {c}
    /\ answer' = [answer EXCEPT ![c] = c]
    /\ coupon' = IF k = None THEN coupon
                 ELSE [coupon EXCEPT ![k] = [state |-> @.state, usage |-> count[c],
                                             limit |-> @.limit, edited |-> @.edited]]
    /\ token' = IF t = None THEN token ELSE [token EXCEPT ![t] = "consumed"]
    /\ Release(c)
    /\ GoTo(c, "done")
    /\ UNCHANGED <<asks, count, parallel>>

\* Any check refuses, the coupon is gone, the token is not usable, the key or the
\* order number is taken, the process dies: an open transaction rolls back.
Abort(c) ==
    /\ c \in InFlight
    /\ Release(c)
    /\ GoTo(c, "done")
    /\ UNCHANGED <<asks, answer, count, rows, parallel>>

-----------------------------------------------------------------------------
(* Staff and time *)

CreateCoupon(k) ==
    /\ SlotFree
    /\ coupon[k].state = "absent"
    /\ \E s \in {"active", "inactive"}, n \in Limits :
        coupon' = [coupon EXCEPT ![k] = [state |-> s, usage |-> 0,
                                         limit |-> n, edited |-> FALSE]]
    /\ UNCHANGED <<calls, token, placed, lock, parallel>>

\* updateCoupon and toggleCoupon: toggling writes the opposite of what it read
\* before, which by now may be either value.
EditCoupon(k) ==
    /\ SlotFree
    /\ Live(k) /\ RowFree(k)
    /\ \E s \in {"active", "inactive"}, n \in Limits \cup {coupon[k].limit} :
        coupon' = [coupon EXCEPT ![k] =
                     [state |-> s, usage |-> @.usage, limit |-> n,
                      edited |-> @.edited \/ n # @.limit]]
    /\ UNCHANGED <<calls, token, placed, lock, parallel>>

DeleteCoupon(k) ==
    /\ SlotFree
    /\ Live(k) /\ RowFree(k)
    /\ coupon' = [coupon EXCEPT ![k] = [state |-> "deleted", usage |-> @.usage,
                                       limit |-> @.limit, edited |-> @.edited]]
    /\ UNCHANGED <<calls, token, placed, lock, parallel>>

\* expiresAt passes.
ExpireToken(t) ==
    /\ token[t] = "verified"
    /\ token' = [token EXCEPT ![t] = "expired"]
    /\ UNCHANGED <<calls, coupon, placed, lock, parallel>>

Next ==
    \/ \E c \in Calls :
        \/ \E ask \in Ask : AnswerAgain(c, ask) \/ Begin(c, ask)
        \/ CheckCoupon(c) \/ Redeem(c) \/ ReadToken(c) \/ Commit(c) \/ Abort(c)
    \/ \E k \in Coupons : CreateCoupon(k) \/ EditCoupon(k) \/ DeleteCoupon(k)
    \/ \E t \in Tokens : ExpireToken(t)

Spec == Init /\ [][Next]_vars

-----------------------------------------------------------------------------
(* Properties *)

OrdersWithCoupon(k) == {c \in placed : asks[c].coupon = k}
OrdersWithToken(t) == {c \in placed : asks[c].token = t}

\* docs/orders.md 3: retries, double clicks and concurrent calls with one
\* Idempotency-Key place one order, and each is answered with it or not at all.
OneOrderPerKey ==
    \A c \in Calls : answer[c] # None /\ asks[c].key # None =>
        PlacedWith(asks[c].key) = {answer[c]}

\* usageCount is the number of orders placed with the coupon, though calls
\* increment it concurrently, roll back, and staff edit or delete the row.
UsageCountsOrders ==
    \A k \in Coupons : coupon[k].usage = Cardinality(OrdersWithCoupon(k))

\* The limit is checked long before the increment: a coupon whose limit was never
\* edited is overdrawn at most by the requests served beside each other, and
\* never when they are served one at a time.
OverdrawnByInFlight ==
    \A k \in Coupons :
        coupon[k].limit # 0 /\ ~coupon[k].edited
          => coupon[k].usage + 1 <= coupon[k].limit + parallel

\* A customer does not have to verify the phone again for an order that was not
\* placed: what rolls back gives the token back (createOrder passes its
\* transaction to validateAndConsumeToken).
ConsumedHasOrder ==
    \A t \in Tokens : token[t] = "consumed" => OrdersWithToken(t) # {}

\* Tokens are checked and consumed without a lock of their own, yet a coupon is
\* not redeemed twice on one token: the coupon's row lock keeps the second call
\* from reading the token before the first has committed (createOrder).
NoSharedCouponAndToken ==
    \A c, d \in placed :
        c # d /\ asks[c].token # None /\ asks[c].token = asks[d].token
          => asks[c].coupon = None \/ asks[c].coupon # asks[d].coupon

\* Requests served one at a time use a token for one order (schema.prisma 199,
\* "single-use verified token"); overlapping ones that redeem no coupon do not.
TokenUsedOnceSerially ==
    parallel = 1 => \A t \in Tokens : Cardinality(OrdersWithToken(t)) <= 1

(* What the proofs need besides. *)

\* A transaction past the increment, and no other call, holds its coupon's row;
\* the count it will commit is still the next one.
LocksAreHeld ==
    \A k \in Coupons, c \in Calls :
        /\ lock[k] = c <=> step[c] \in {"token", "commit"} /\ asks[c].coupon = k
        /\ lock[k] = c => Live(k) /\ count[c] = coupon[k].usage + 1

\* A call waits only for what it asked for.
StepsFit ==
    \A c \in Calls : /\ step[c] \in {"check", "redeem"} => asks[c].coupon \in Coupons
                     /\ step[c] = "token" => asks[c].token \in Tokens

\* A coupon is created with nothing redeemed on it.
UsageStartsAtZero == \A k \in Coupons : coupon[k].state = "absent" => coupon[k].usage = 0

\* Exactly the calls that placed an order are answered with their own.
AnswersAreOrders ==
    /\ \A c \in placed : step[c] = "done" /\ answer[c] = c
    /\ \A c \in Calls : answer[c] # None =>
         /\ step[c] = "done"
         /\ answer[c] \in placed
         /\ answer[c] # c => asks[c].key = asks[answer[c]].key /\ asks[c].key # None

\* Two orders share no key.
KeysAreUnique ==
    \A c, d \in placed : asks[c].key = asks[d].key /\ c # d => asks[c].key = None

\* A token that an order used stays consumed, past its expiry too.
OrdersConsume == \A c \in placed : asks[c].token # None => token[asks[c].token] = "consumed"

\* A call that has read its token under a coupon's lock is still the only one to
\* use the two together.
ReadUnderLock ==
    \A c \in Calls, d \in placed :
        step[c] = "commit" /\ asks[c].token # None /\ asks[c].token = asks[d].token
          => asks[c].coupon = None \/ asks[c].coupon # asks[d].coupon

\* Calls that have passed a coupon's check and have not ended.
PastCheck(k) ==
    {c \in Calls : step[c] \in {"redeem", "token", "commit"} /\ asks[c].coupon = k}

\* Behind OverdrawnByInFlight: a call past the check has as good as used the coupon,
\* and no more of them are under way than are served at once.
OverdraftIsBounded ==
    /\ Cardinality(InFlight) <= parallel
    /\ \A k \in Coupons :
        /\ coupon[k].state = "absent" => PastCheck(k) = {}
        /\ coupon[k].limit # 0 /\ ~coupon[k].edited
             => coupon[k].usage + Cardinality(PastCheck(k)) + 1 <= coupon[k].limit + parallel

\* Behind TokenUsedOnceSerially: nobody uses the token that a lone call has read.
LoneTokenIsUnused ==
    parallel = 1 =>
        /\ \A c, d \in InFlight : c = d
        /\ \A c \in Calls, d \in placed :
             step[c] = "commit" /\ asks[c].token # None => asks[d].token # asks[c].token
        /\ \A c, d \in placed : c # d /\ asks[c].token # None => asks[d].token # asks[c].token

\* The inductive invariant behind OneOrderPerKey, UsageCountsOrders,
\* ConsumedHasOrder and NoSharedCouponAndToken: at every point of every call
\* (createOrder), locks, uncommitted counts and rows agree.
CheckoutInv ==
    /\ TypeOK
    /\ StepsFit
    /\ LocksAreHeld
    /\ UsageStartsAtZero
    /\ AnswersAreOrders
    /\ KeysAreUnique
    /\ OrdersConsume
    /\ ReadUnderLock
    /\ UsageCountsOrders
    /\ ConsumedHasOrder
    /\ NoSharedCouponAndToken
=============================================================================
