--------------------------- MODULE CheckoutProofs ---------------------------
(***************************************************************************)
(* Proofs about Checkout, for every set of calls, keys, coupons and tokens   *)
(* and every number of requests served side by side: CheckoutInv is an       *)
(* invariant, and with it the properties about orders, coupons and tokens    *)
(* that hold under concurrency.                                              *)
(*                                                                           *)
(* The argument for NoSharedCouponAndToken is the heart of it: a call that   *)
(* reads its token holds the lock of its coupon (LocksAreHeld), so an order  *)
(* with that coupon cannot be committed until it ends, and one committed     *)
(* before has left the token consumed (OrdersConsume).                       *)
(*                                                                           *)
(* The second half is about Menu, what those orders cost: MenuInv is an      *)
(* invariant for every menu, cart and coupon.  Its argument follows a quote  *)
(* from the preview to the order: what a request remembers stays true of the *)
(* rows it will be computed from until one of them is edited, which stirs it.*)
(***************************************************************************)
EXTENDS Checkout, Menu, FiniteSetTheorems, SequenceTheorems, WellFoundedInduction, TLAPS

\* Steps that commit nothing leave what is counted as it is.
LEMMA NothingPlaced ==
    ASSUME UNCHANGED placed, \A c \in placed : asks'[c] = asks[c]
    PROVE  /\ \A k \in Coupons : OrdersWithCoupon(k)' = OrdersWithCoupon(k)
           /\ \A t \in Tokens : OrdersWithToken(t)' = OrdersWithToken(t)
  BY DEF OrdersWithCoupon, OrdersWithToken

\* Nothing is redeemed on a coupon that no order names.
LEMMA InitInv == Init => CheckoutInv
  <1> SUFFICES ASSUME Init PROVE CheckoutInv
    OBVIOUS
  <1>1. TypeOK
    BY ParallelAssumption DEF Init, TypeOK, Steps, Ask, CouponRow
  <1>2. UsageCountsOrders
    <2>1. \A k \in Coupons : OrdersWithCoupon(k) = {}
      BY DEF Init, OrdersWithCoupon
    <2> QED
      BY <2>1, FS_EmptySet DEF Init, UsageCountsOrders
  <1>3. StepsFit /\ LocksAreHeld /\ UsageStartsAtZero /\ AnswersAreOrders /\ KeysAreUnique
    BY NoneAssumption DEF Init, StepsFit, LocksAreHeld, UsageStartsAtZero, AnswersAreOrders, KeysAreUnique
  <1>4. OrdersConsume /\ ReadUnderLock /\ ConsumedHasOrder /\ NoSharedCouponAndToken
    BY DEF Init, OrdersConsume, ReadUnderLock, ConsumedHasOrder, NoSharedCouponAndToken
  <1> QED
    BY <1>1, <1>2, <1>3, <1>4 DEF CheckoutInv

\* A call that begins or is answered again holds nothing and has placed nothing.
LEMMA BeginInv ==
    ASSUME CheckoutInv, NEW c \in Calls, NEW ask \in Ask,
           AnswerAgain(c, ask) \/ Begin(c, ask)
    PROVE  CheckoutInv'
  <1> USE DEF calls, rows
  <1>1. /\ step[c] = "idle" /\ c \notin placed /\ answer[c] = None
        /\ UNCHANGED <<count, rows, lock, parallel>>
        /\ asks' = [asks EXCEPT ![c] = ask]
        /\ \A d \in Calls \ {c} : step'[d] = step[d] /\ answer'[d] = answer[d]
    BY DEF AnswerAgain, Begin, GoTo, CheckoutInv, AnswersAreOrders, TypeOK
  <1>2. step'[c] # "idle" /\ (step'[c] = "commit" => ask.token = None)
        /\ (step'[c] \in {"token", "commit"} => ask.coupon = None)
    BY DEF AnswerAgain, Begin, GoTo, CheckoutInv, TypeOK, TokenOrCommit
  <1>3. TypeOK'
    BY DEF AnswerAgain, Begin, GoTo, CheckoutInv, TypeOK, TokenOrCommit, Steps, PlacedWith
  <1>4. \A d \in placed : asks'[d] = asks[d]
    BY <1>1 DEF CheckoutInv, TypeOK
  <1>5. UsageCountsOrders' /\ ConsumedHasOrder'
    BY <1>1, <1>4, NothingPlaced DEF CheckoutInv, UsageCountsOrders, ConsumedHasOrder
  <1>6. LocksAreHeld' /\ UsageStartsAtZero'
    BY <1>1, <1>2, NoneAssumption DEF CheckoutInv, TypeOK, LocksAreHeld, UsageStartsAtZero, Live
  <1>10. StepsFit'
    BY <1>1 DEF AnswerAgain, Begin, GoTo, CheckoutInv, TypeOK, TokenOrCommit, StepsFit, Ask
  <1>7. AnswersAreOrders'
    <2>1. AnswerAgain(c, ask) =>
            answer'[c] \in placed /\ step'[c] = "done"
            /\ asks[answer'[c]].key = ask.key /\ ask.key # None
      BY DEF AnswerAgain, PlacedWith, GoTo, CheckoutInv, TypeOK
    <2>2. Begin(c, ask) => answer'[c] = None
      BY <1>1 DEF Begin
    <2> QED
      BY <1>1, <1>3, <1>4, <2>1, <2>2 DEF CheckoutInv, TypeOK, AnswersAreOrders
  <1>8. KeysAreUnique' /\ OrdersConsume' /\ NoSharedCouponAndToken'
    BY <1>1, <1>4 DEF CheckoutInv, KeysAreUnique, OrdersConsume, NoSharedCouponAndToken
  <1>9. ReadUnderLock'
    BY <1>1, <1>2, <1>4 DEF CheckoutInv, TypeOK, ReadUnderLock
  <1> QED
    BY <1>3, <1>5, <1>6, <1>7, <1>8, <1>9, <1>10 DEF CheckoutInv

\* A check that passes writes nothing.
LEMMA CheckCouponInv ==
    ASSUME CheckoutInv, NEW c \in Calls, CheckCoupon(c)
    PROVE  CheckoutInv'
  <1> USE DEF calls, rows
  <1>1. /\ step[c] = "check" /\ step' = [step EXCEPT ![c] = "redeem"]
        /\ UNCHANGED <<asks, answer, count, coupon, token, placed, lock, parallel>>
    BY DEF CheckCoupon, GoTo
  <1>2. TypeOK'
    BY <1>1 DEF CheckoutInv, TypeOK, Steps
  <1>3. UsageCountsOrders' /\ ConsumedHasOrder'
    BY <1>1, NothingPlaced DEF CheckoutInv, UsageCountsOrders, ConsumedHasOrder
  <1>4. StepsFit' /\ LocksAreHeld' /\ UsageStartsAtZero'
    BY <1>1 DEF CheckoutInv, TypeOK, StepsFit, LocksAreHeld, UsageStartsAtZero, Live
  <1>5. AnswersAreOrders' /\ KeysAreUnique' /\ OrdersConsume' /\ NoSharedCouponAndToken'
        /\ ReadUnderLock'
    BY <1>1 DEF CheckoutInv, TypeOK, AnswersAreOrders, KeysAreUnique, OrdersConsume,
                NoSharedCouponAndToken, ReadUnderLock
  <1> QED
    BY <1>2, <1>3, <1>4, <1>5 DEF CheckoutInv

\* The increment takes the lock of a free row.
LEMMA RedeemInv ==
    ASSUME CheckoutInv, NEW c \in Calls, Redeem(c)
    PROVE  CheckoutInv'
  <1> USE DEF calls, rows
  <1> PICK k \in Coupons : k = asks[c].coupon
    BY DEF CheckoutInv, StepsFit, Redeem
  <1>1. /\ step[c] = "redeem" /\ lock[k] = None /\ Live(k)
        /\ lock' = [lock EXCEPT ![k] = c]
        /\ count' = [count EXCEPT ![c] = coupon[k].usage + 1]
        /\ step' = [step EXCEPT ![c] = TokenOrCommit(asks[c])]
        /\ UNCHANGED <<asks, answer, coupon, token, placed, parallel>>
    BY DEF Redeem, RowFree, GoTo
  <1>2. TokenOrCommit(asks[c]) \in {"token", "commit"}
        /\ (TokenOrCommit(asks[c]) = "commit" <=> asks[c].token = None)
    BY DEF TokenOrCommit
  <1>3. TypeOK /\ c # None /\ asks[c] \in Ask
    BY NoneAssumption DEF CheckoutInv, TypeOK
  <1>4. TypeOK'
    BY <1>1, <1>2, <1>3 DEF TypeOK, Steps, CouponRow
  <1>5. UsageCountsOrders' /\ ConsumedHasOrder'
    BY <1>1, NothingPlaced DEF CheckoutInv, UsageCountsOrders, ConsumedHasOrder
  <1>6. StepsFit' /\ UsageStartsAtZero'
    BY <1>1, <1>2, <1>3 DEF CheckoutInv, TypeOK, Ask, StepsFit, UsageStartsAtZero
  <1>7. LocksAreHeld'
    <2> SUFFICES ASSUME NEW j \in Coupons, NEW d \in Calls
                 PROVE /\ lock'[j] = d <=> step'[d] \in {"token", "commit"} /\ asks[d].coupon = j
                       /\ lock'[j] = d => Live(j) /\ count'[d] = coupon[j].usage + 1
      BY <1>1 DEF LocksAreHeld, Live
    <2>1. CASE d = c
      BY <1>1, <1>2, <1>3, <2>1 DEF CheckoutInv, TypeOK, LocksAreHeld
    <2>2. CASE d # c
      BY <1>1, <1>2, <1>3, <2>2, NoneAssumption DEF CheckoutInv, TypeOK, LocksAreHeld
    <2> QED
      BY <2>1, <2>2
  <1>8. AnswersAreOrders' /\ KeysAreUnique' /\ OrdersConsume' /\ NoSharedCouponAndToken'
        /\ ReadUnderLock'
    BY <1>1, <1>2 DEF CheckoutInv, TypeOK, AnswersAreOrders, KeysAreUnique, OrdersConsume,
                NoSharedCouponAndToken, ReadUnderLock
  <1> QED
    BY <1>4, <1>5, <1>6, <1>7, <1>8 DEF CheckoutInv

\* The token is read while the coupon's row is locked: an order with this coupon
\* is either committed, and then has consumed the token, or waits for the lock.
LEMMA ReadTokenInv ==
    ASSUME CheckoutInv, NEW c \in Calls, ReadToken(c)
    PROVE  CheckoutInv'
  <1> USE DEF calls, rows
  <1>1. /\ step[c] = "token" /\ step' = [step EXCEPT ![c] = "commit"]
        /\ token[asks[c].token] = "verified"
        /\ UNCHANGED <<asks, answer, count, coupon, token, placed, lock, parallel>>
    BY DEF ReadToken, GoTo, Usable
  <1>2. TypeOK'
    BY <1>1 DEF CheckoutInv, TypeOK, Steps
  <1>3. UsageCountsOrders' /\ ConsumedHasOrder'
    BY <1>1, NothingPlaced DEF CheckoutInv, UsageCountsOrders, ConsumedHasOrder
  <1>4. StepsFit' /\ LocksAreHeld' /\ UsageStartsAtZero'
    BY <1>1 DEF CheckoutInv, TypeOK, StepsFit, LocksAreHeld, UsageStartsAtZero, Live
  <1>5. AnswersAreOrders' /\ KeysAreUnique' /\ OrdersConsume' /\ NoSharedCouponAndToken'
    BY <1>1 DEF CheckoutInv, TypeOK, AnswersAreOrders, KeysAreUnique, OrdersConsume,
                NoSharedCouponAndToken
  <1>6. ReadUnderLock'
    <2>1. \A d \in placed : asks[d].token # asks[c].token \/ asks[c].token = None
      BY <1>1 DEF CheckoutInv, OrdersConsume
    <2> QED
      BY <1>1, <2>1 DEF CheckoutInv, TypeOK, ReadUnderLock
  <1> QED
    BY <1>2, <1>3, <1>4, <1>5, <1>6 DEF CheckoutInv

\* Rolling back frees the row and changes none.
LEMMA AbortInv ==
    ASSUME CheckoutInv, NEW c \in Calls, Abort(c)
    PROVE  CheckoutInv'
  <1> USE DEF calls, rows
  <1>1. /\ step[c] \notin {"idle", "done"} /\ step' = [step EXCEPT ![c] = "done"]
        /\ lock' = [k \in Coupons |-> IF lock[k] = c THEN None ELSE lock[k]]
        /\ UNCHANGED <<asks, answer, count, coupon, token, placed, parallel>>
    BY DEF Abort, GoTo, Release, InFlight
  <1>2. TypeOK'
    BY <1>1 DEF CheckoutInv, TypeOK, Steps
  <1>3. UsageCountsOrders' /\ ConsumedHasOrder'
    BY <1>1, NothingPlaced DEF CheckoutInv, UsageCountsOrders, ConsumedHasOrder
  <1>4. StepsFit' /\ LocksAreHeld' /\ UsageStartsAtZero'
    BY <1>1, NoneAssumption
       DEF CheckoutInv, TypeOK, StepsFit, LocksAreHeld, UsageStartsAtZero, Live
  <1>5. AnswersAreOrders' /\ KeysAreUnique' /\ OrdersConsume' /\ NoSharedCouponAndToken'
        /\ ReadUnderLock'
    BY <1>1 DEF CheckoutInv, TypeOK, AnswersAreOrders, KeysAreUnique, OrdersConsume,
                NoSharedCouponAndToken, ReadUnderLock
  <1> QED
    BY <1>2, <1>3, <1>4, <1>5 DEF CheckoutInv

\* The commit adds one order to those of its coupon and its token.
LEMMA CommitInv ==
    ASSUME CheckoutInv, NEW c \in Calls, Commit(c)
    PROVE  CheckoutInv'
  <1> USE DEF calls, rows
  <1>1. /\ step[c] = "commit" /\ c \notin placed /\ TypeOK /\ asks[c] \in Ask
        /\ step' = [step EXCEPT ![c] = "done"]
        /\ placed' = placed \cup {c}
        /\ answer' = [answer EXCEPT ![c] = c]
        /\ lock' = [k \in Coupons |-> IF lock[k] = c THEN None ELSE lock[k]]
        /\ UNCHANGED <<asks, count, parallel>>
    BY DEF Commit, GoTo, Release, CheckoutInv, TypeOK, AnswersAreOrders
  <1>2. \A k \in Coupons :
          IF k = asks[c].coupon
            THEN /\ lock[k] = c /\ Live(k) /\ Live(k)' /\ coupon'[k] \in CouponRow
                 /\ coupon'[k].usage = coupon[k].usage + 1
            ELSE coupon'[k] = coupon[k]
    <2> SUFFICES ASSUME NEW k \in Coupons
                 PROVE IF k = asks[c].coupon
                         THEN /\ lock[k] = c /\ Live(k) /\ Live(k)' /\ coupon'[k] \in CouponRow
                              /\ coupon'[k].usage = coupon[k].usage + 1
                         ELSE coupon'[k] = coupon[k]
      OBVIOUS
    <2>1. CASE k = asks[c].coupon
      <3>1. lock[k] = c /\ Live(k) /\ count[c] = coupon[k].usage + 1
        BY <1>1, <2>1 DEF CheckoutInv, LocksAreHeld
      <3>2. coupon'[k] = [state |-> coupon[k].state, usage |-> count[c],
                          limit |-> coupon[k].limit, edited |-> coupon[k].edited]
        BY <1>1, <2>1, NoneAssumption DEF Commit, TypeOK
      <3> QED
        BY <1>1, <2>1, <3>1, <3>2 DEF TypeOK, CouponRow, Live
    <2>2. CASE k # asks[c].coupon
      BY <1>1, <2>2 DEF Commit, TypeOK
    <2> QED
      BY <2>1, <2>2
  <1>3. \A t \in Tokens : token'[t] = (IF t = asks[c].token THEN "consumed" ELSE token[t])
    BY <1>1, NoneAssumption DEF Commit, TypeOK
  <1>4. TypeOK'
    <2>1. coupon' \in [Coupons -> CouponRow]
      <3>1. DOMAIN coupon' = Coupons /\ coupon' = [k \in Coupons |-> coupon'[k]]
        BY <1>1 DEF Commit, TypeOK
      <3> QED
        BY <1>1, <1>2, <3>1 DEF TypeOK
    <2>2. token' \in [Tokens -> {"verified", "consumed", "expired"}]
      BY <1>1 DEF Commit, TypeOK
    <2> QED
      BY <1>1, <2>1, <2>2 DEF TypeOK, Steps
  <1>5. StepsFit' /\ LocksAreHeld' /\ UsageStartsAtZero'
    <2>1. StepsFit'
      BY <1>1 DEF CheckoutInv, TypeOK, StepsFit
    <2>2. UsageStartsAtZero'
      BY <1>2 DEF CheckoutInv, UsageStartsAtZero, Live
    <2>3. ASSUME NEW k \in Coupons, NEW d \in Calls
          PROVE  /\ lock'[k] = d <=> step'[d] \in {"token", "commit"} /\ asks'[d].coupon = k
                 /\ lock'[k] = d => Live(k)' /\ count'[d] = coupon'[k].usage + 1
      <3>1. CASE d = c
        BY <1>1, <3>1, NoneAssumption DEF TypeOK
      <3>2. CASE d # c /\ k = asks[c].coupon
        BY <1>1, <1>2, <3>2, NoneAssumption DEF CheckoutInv, TypeOK, LocksAreHeld
      <3>3. CASE d # c /\ k # asks[c].coupon
        BY <1>1, <1>2, <3>3, NoneAssumption DEF CheckoutInv, TypeOK, LocksAreHeld, Live
      <3> QED
        BY <3>1, <3>2, <3>3
    <2> QED
      BY <2>1, <2>2, <2>3 DEF LocksAreHeld
  <1>6. AnswersAreOrders'
    BY <1>1 DEF CheckoutInv, TypeOK, AnswersAreOrders
  <1>7. KeysAreUnique'
    BY <1>1 DEF CheckoutInv, KeysAreUnique, Commit, KeyFree, PlacedWith
  <1>8. OrdersConsume'
    BY <1>1, <1>3, NoneAssumption DEF CheckoutInv, TypeOK, Ask, OrdersConsume
  <1>9. NoSharedCouponAndToken'
    BY <1>1 DEF CheckoutInv, TypeOK, NoSharedCouponAndToken, ReadUnderLock
  <1>10. ReadUnderLock'
    <2> SUFFICES ASSUME NEW b \in Calls, NEW d \in placed',
                        step'[b] = "commit", asks[b].token # None,
                        asks[b].token = asks[d].token, asks[b].coupon # None
                 PROVE  asks[b].coupon # asks[d].coupon
      BY <1>1 DEF ReadUnderLock
    <2>1. b # c /\ step[b] = "commit" /\ asks[b].coupon \in Coupons
      BY <1>1, NoneAssumption DEF TypeOK, Ask
    <2>2. CASE d = c
      BY <1>1, <2>1, <2>2, NoneAssumption DEF CheckoutInv, LocksAreHeld
    <2>3. CASE d \in placed
      BY <2>1, <2>3 DEF CheckoutInv, ReadUnderLock
    <2> QED
      BY <1>1, <2>2, <2>3
  <1>11. UsageCountsOrders'
    <2> SUFFICES ASSUME NEW k \in Coupons
                 PROVE  coupon'[k].usage = Cardinality(OrdersWithCoupon(k)')
      BY DEF UsageCountsOrders
    <2>1. coupon[k].usage = Cardinality(OrdersWithCoupon(k))
      BY DEF CheckoutInv, UsageCountsOrders
    <2>2. CASE k = asks[c].coupon
      <3>1. OrdersWithCoupon(k)' = OrdersWithCoupon(k) \cup {c} /\ c \notin OrdersWithCoupon(k)
        BY <1>1, <2>2 DEF OrdersWithCoupon
      <3>2. IsFiniteSet(OrdersWithCoupon(k))
        BY <1>1, CallsAssumption, FS_Subset DEF OrdersWithCoupon, TypeOK
      <3>3. Cardinality(OrdersWithCoupon(k) \cup {c}) = Cardinality(OrdersWithCoupon(k)) + 1
        BY <3>1, <3>2, FS_AddElement, Zenon
      <3>4. coupon'[k].usage = coupon[k].usage + 1
        BY <1>2, <2>2
      <3> QED
        BY <2>1, <3>1, <3>3, <3>4
    <2>3. CASE k # asks[c].coupon
      <3>1. OrdersWithCoupon(k)' = OrdersWithCoupon(k)
        BY <1>1, <2>3 DEF OrdersWithCoupon
      <3> QED
        BY <1>2, <2>1, <2>3, <3>1
    <2> QED
      BY <2>2, <2>3
  <1>12. ConsumedHasOrder'
    BY <1>1, <1>3 DEF CheckoutInv, ConsumedHasOrder, OrdersWithToken
  <1> QED
    BY <1>4, <1>5, <1>6, <1>7, <1>8, <1>9, <1>10, <1>11, <1>12 DEF CheckoutInv

\* Staff change rows nobody has locked, and never a usage count; time only
\* expires tokens that no order used.
LEMMA StaffAndTimeInv ==
    ASSUME CheckoutInv,
           \/ \E k \in Coupons : CreateCoupon(k) \/ EditCoupon(k) \/ DeleteCoupon(k)
           \/ \E t \in Tokens : ExpireToken(t)
    PROVE  CheckoutInv'
  <1> USE DEF calls, rows
  <1>1. ASSUME NEW k \in Coupons, CreateCoupon(k) \/ EditCoupon(k) \/ DeleteCoupon(k)
        PROVE  CheckoutInv'
    <2>1. /\ lock[k] = None \/ ~Live(k)
          /\ coupon'[k] \in CouponRow
          /\ coupon' = [coupon EXCEPT ![k] = coupon'[k]]
          /\ coupon'[k].usage = coupon[k].usage
          /\ coupon'[k].state # "absent"
          /\ UNCHANGED <<step, asks, answer, count, token, placed, lock, parallel>>
      <3>1. TypeOK /\ coupon[k] \in CouponRow /\ (coupon[k].state = "absent" => coupon[k].usage = 0)
        BY DEF CheckoutInv, TypeOK, UsageStartsAtZero
      <3>2. CASE CreateCoupon(k)
        BY <3>1, <3>2 DEF CreateCoupon, Live, TypeOK, CouponRow
      <3>3. CASE EditCoupon(k)
        BY <3>1, <3>3 DEF EditCoupon, RowFree, TypeOK, CouponRow
      <3>4. CASE DeleteCoupon(k)
        BY <3>1, <3>4 DEF DeleteCoupon, RowFree, TypeOK, CouponRow
      <3> QED
        BY <1>1, <3>2, <3>3, <3>4
    <2>2. TypeOK'
      BY <2>1 DEF CheckoutInv, TypeOK
    <2>3. UsageCountsOrders' /\ ConsumedHasOrder'
      BY <2>1, NothingPlaced DEF CheckoutInv, TypeOK, UsageCountsOrders, ConsumedHasOrder
    <2>4. LocksAreHeld'
      BY <2>1, NoneAssumption DEF CheckoutInv, TypeOK, LocksAreHeld, Live
    <2>5. StepsFit' /\ UsageStartsAtZero' /\ AnswersAreOrders' /\ KeysAreUnique'
          /\ OrdersConsume' /\ NoSharedCouponAndToken' /\ ReadUnderLock'
      BY <2>1 DEF CheckoutInv, TypeOK, StepsFit, UsageStartsAtZero, AnswersAreOrders,
                  KeysAreUnique, OrdersConsume, NoSharedCouponAndToken, ReadUnderLock
    <2> QED
      BY <2>2, <2>3, <2>4, <2>5 DEF CheckoutInv
  <1>2. ASSUME NEW t \in Tokens, ExpireToken(t)
        PROVE  CheckoutInv'
    <2>1. /\ token[t] = "verified" /\ token' = [token EXCEPT ![t] = "expired"]
          /\ UNCHANGED <<step, asks, answer, count, coupon, placed, lock, parallel>>
      BY <1>2 DEF ExpireToken
    <2>2. TypeOK'
      BY <2>1 DEF CheckoutInv, TypeOK
    <2>3. UsageCountsOrders' /\ ConsumedHasOrder'
      BY <2>1, NothingPlaced DEF CheckoutInv, TypeOK, UsageCountsOrders, ConsumedHasOrder
    <2>4. OrdersConsume'
      BY <2>1 DEF CheckoutInv, TypeOK, OrdersConsume
    <2>5. StepsFit' /\ LocksAreHeld' /\ UsageStartsAtZero' /\ AnswersAreOrders'
          /\ KeysAreUnique' /\ NoSharedCouponAndToken' /\ ReadUnderLock'
      BY <2>1 DEF CheckoutInv, TypeOK, StepsFit, LocksAreHeld, UsageStartsAtZero, Live,
                  AnswersAreOrders, KeysAreUnique, NoSharedCouponAndToken, ReadUnderLock
    <2> QED
      BY <2>2, <2>3, <2>4, <2>5 DEF CheckoutInv
  <1> QED
    BY <1>1, <1>2

\* CheckoutInv is inductive.
LEMMA NextInv == CheckoutInv /\ [Next]_vars => CheckoutInv'
  <1> SUFFICES ASSUME CheckoutInv, [Next]_vars PROVE CheckoutInv'
    OBVIOUS
  <1>1. ASSUME NEW c \in Calls, NEW ask \in Ask, AnswerAgain(c, ask) \/ Begin(c, ask)
        PROVE  CheckoutInv'
    BY <1>1, BeginInv
  <1>2. ASSUME NEW c \in Calls, CheckCoupon(c) PROVE CheckoutInv'
    BY <1>2, CheckCouponInv
  <1>3. ASSUME NEW c \in Calls, Redeem(c) PROVE CheckoutInv'
    BY <1>3, RedeemInv
  <1>4. ASSUME NEW c \in Calls, ReadToken(c) PROVE CheckoutInv'
    BY <1>4, ReadTokenInv
  <1>5. ASSUME NEW c \in Calls, Commit(c) PROVE CheckoutInv'
    BY <1>5, CommitInv
  <1>6. ASSUME NEW c \in Calls, Abort(c) PROVE CheckoutInv'
    BY <1>6, AbortInv
  <1>7. ASSUME UNCHANGED vars PROVE CheckoutInv'
    <2> USE <1>7 DEF vars, calls, rows
    <2>1. UsageCountsOrders' /\ ConsumedHasOrder'
      BY NothingPlaced DEF CheckoutInv, UsageCountsOrders, ConsumedHasOrder
    <2>2. TypeOK' /\ StepsFit' /\ LocksAreHeld' /\ UsageStartsAtZero' /\ AnswersAreOrders'
      BY DEF CheckoutInv, TypeOK, StepsFit, LocksAreHeld, UsageStartsAtZero, Live,
             AnswersAreOrders
    <2>3. KeysAreUnique' /\ OrdersConsume' /\ NoSharedCouponAndToken' /\ ReadUnderLock'
      BY DEF CheckoutInv, KeysAreUnique, OrdersConsume, NoSharedCouponAndToken, ReadUnderLock
    <2> QED
      BY <2>1, <2>2, <2>3 DEF CheckoutInv
  <1> QED
    BY <1>1, <1>2, <1>3, <1>4, <1>5, <1>6, <1>7, StaffAndTimeInv DEF Next

\* At every point of every call, locks, uncommitted counts and rows agree
\* (createOrder with validateAndConsumeToken, coupons.service.ts).
THEOREM CheckoutCorrect == Spec => []CheckoutInv
  <1>1. Init => CheckoutInv
    BY InitInv
  <1>2. CheckoutInv /\ [Next]_vars => CheckoutInv'
    BY NextInv
  <1> QED
    BY <1>1, <1>2, PTL DEF Spec

\* One Idempotency-Key, one order: every call with the key that gets an answer
\* gets that order (createOrder, docs/orders.md 3).
THEOREM KeysPlaceOneOrder == Spec => []OneOrderPerKey
  <1>1. CheckoutInv => OneOrderPerKey
    BY DEF CheckoutInv, AnswersAreOrders, KeysAreUnique, OneOrderPerKey, PlacedWith, TypeOK
  <1> QED
    BY <1>1, CheckoutCorrect, PTL

\* A coupon's usageCount is the number of orders placed with it, for any number
\* of concurrent calls, rollbacks and edits (createOrder).
THEOREM UsageIsExact == Spec => []UsageCountsOrders
  <1>1. CheckoutInv => UsageCountsOrders
    BY DEF CheckoutInv
  <1> QED
    BY <1>1, CheckoutCorrect, PTL

\* A token is consumed only by an order that was placed: a failed checkout gives
\* it back (createOrder, validateAndConsumeToken).
THEOREM TokensPayForOrders == Spec => []ConsumedHasOrder
  <1>1. CheckoutInv => ConsumedHasOrder
    BY DEF CheckoutInv
  <1> QED
    BY <1>1, CheckoutCorrect, PTL

\* No coupon is redeemed twice on one phone token, though the token itself is
\* checked without a lock (createOrder, validateAndConsumeToken).
THEOREM CouponOncePerToken == Spec => []NoSharedCouponAndToken
  <1>1. CheckoutInv => NoSharedCouponAndToken
    BY DEF CheckoutInv
  <1> QED
    BY <1>1, CheckoutCorrect, PTL

-----------------------------------------------------------------------------
(* How far a limit is overdrawn *)

\* Calls are finitely many, and so are those under way or past a check.
LEMMA FewCalls ==
    ASSUME NEW S \in SUBSET Calls
    PROVE  IsFiniteSet(S) /\ Cardinality(S) \in Nat
  BY CallsAssumption, FS_Subset, FS_CardinalityType

\* The numbers that are compared are numbers.
LEMMA CouponNumbers ==
    ASSUME TypeOK, NEW k \in Coupons
    PROVE  coupon[k].usage \in Nat /\ coupon[k].limit \in Nat /\ parallel \in Nat
  <1>1. coupon[k] \in CouponRow /\ parallel \in 1..MaxParallel
    BY DEF TypeOK
  <1>2. coupon[k].usage \in Nat /\ coupon[k].limit \in Nat
    <2>1. coupon[k].usage \in Nat /\ coupon[k].limit \in Limits \cup {0}
      BY <1>1, Zenon DEF CouponRow
    <2>2. \A n \in Limits : n \in Nat
      BY LimitsAssumption, Zenon
    <2>3. coupon[k].limit \in Limits \/ coupon[k].limit = 0
      BY <2>1, Zenon
    <2> QED
      BY <2>1, <2>2, <2>3
  <1>3. parallel \in Nat
    BY <1>1, ParallelAssumption
  <1> QED
    BY <1>2, <1>3

\* A step that takes no call past the check of a coupon and leaves coupons alone.
LEMMA NoneMorePastCheck ==
    ASSUME CheckoutInv, OverdraftIsBounded, UNCHANGED <<coupon, parallel>>,
           Cardinality(InFlight)' <= parallel,
           \A k \in Coupons : PastCheck(k)' \subseteq PastCheck(k)
    PROVE  OverdraftIsBounded'
  <1> SUFFICES ASSUME NEW k \in Coupons
               PROVE  /\ coupon[k].state = "absent" => PastCheck(k)' = {}
                      /\ coupon[k].limit # 0 /\ ~coupon[k].edited
                           => coupon[k].usage + Cardinality(PastCheck(k)') + 1
                                <= coupon[k].limit + parallel
    BY DEF OverdraftIsBounded
  <1>1. PastCheck(k) \subseteq Calls /\ PastCheck(k)' \subseteq PastCheck(k)
    BY DEF PastCheck
  <1>2. Cardinality(PastCheck(k)') <= Cardinality(PastCheck(k))
        /\ Cardinality(PastCheck(k)') \in Nat /\ Cardinality(PastCheck(k)) \in Nat
    BY <1>1, FewCalls, FS_Subset
  <1>3. coupon[k].usage \in Nat /\ coupon[k].limit \in Nat /\ parallel \in Nat
    BY CouponNumbers DEF CheckoutInv
  <1> QED
    BY <1>1, <1>2, <1>3 DEF OverdraftIsBounded

\* A call takes a free slot, or is answered and takes none.
LEMMA BeginBounded ==
    ASSUME CheckoutInv, OverdraftIsBounded, NEW c \in Calls, NEW ask \in Ask,
           AnswerAgain(c, ask) \/ Begin(c, ask)
    PROVE  OverdraftIsBounded'
  <1>1. /\ TypeOK /\ step[c] = "idle" /\ Cardinality(InFlight) < parallel
        /\ asks' = [asks EXCEPT ![c] = ask]
        /\ UNCHANGED <<coupon, parallel>>
    BY DEF AnswerAgain, Begin, SlotFree, CheckoutInv, rows
  <1>2. \A d \in Calls \ {c} : step'[d] = step[d] /\ asks'[d] = asks[d]
    BY <1>1 DEF AnswerAgain, Begin, GoTo, TypeOK
  <1>3. step'[c] \in {"redeem", "token", "commit"} => asks'[c].coupon = None
    BY <1>1 DEF AnswerAgain, Begin, GoTo, TypeOK, TokenOrCommit
  <1>4. \A k \in Coupons : PastCheck(k)' \subseteq PastCheck(k)
    BY <1>2, <1>3, NoneAssumption DEF PastCheck
  <1>5. InFlight \subseteq Calls /\ InFlight' \subseteq InFlight \cup {c}
    BY <1>2 DEF InFlight
  <1>6. Cardinality(InFlight') <= Cardinality(InFlight \cup {c})
        /\ Cardinality(InFlight \cup {c}) <= Cardinality(InFlight) + 1
        /\ Cardinality(InFlight') \in Nat /\ Cardinality(InFlight \cup {c}) \in Nat
        /\ Cardinality(InFlight) \in Nat
    BY <1>5, FewCalls, FS_Subset, FS_AddElement
  <1>7. Cardinality(InFlight') <= parallel
    BY <1>1, <1>6, ParallelAssumption DEF TypeOK
  <1> QED
    BY <1>1, <1>4, <1>7, NoneMorePastCheck

\* A call passes the check while the count is below the limit, beside no more calls
\* than are served at once.
LEMMA CheckBounded ==
    ASSUME CheckoutInv, OverdraftIsBounded, NEW c \in Calls, CheckCoupon(c)
    PROVE  OverdraftIsBounded'
  <1> DEFINE j == asks[c].coupon
  <1>1. /\ TypeOK /\ step[c] = "check" /\ step' = [step EXCEPT ![c] = "redeem"]
        /\ coupon[j].state = "active" /\ UnderLimit(j) /\ j \in Coupons
        /\ UNCHANGED <<asks, coupon, parallel>>
    BY DEF CheckCoupon, GoTo, CheckoutInv, StepsFit, rows
  <1>2. InFlight' = InFlight /\ InFlight \subseteq Calls
    BY <1>1 DEF InFlight, TypeOK
  <1>3. \A k \in Coupons \ {j} : PastCheck(k)' = PastCheck(k)
    BY <1>1 DEF PastCheck, TypeOK
  <1>4. PastCheck(j)' \subseteq InFlight
    BY <1>1 DEF PastCheck, InFlight, TypeOK
  <1>5. Cardinality(PastCheck(j)') <= Cardinality(InFlight)
        /\ Cardinality(PastCheck(j)') \in Nat /\ Cardinality(InFlight) \in Nat
    BY <1>2, <1>4, FewCalls, FS_Subset
  <1>6. coupon[j].usage \in Nat /\ coupon[j].limit \in Nat /\ parallel \in Nat
    BY <1>1, CouponNumbers
  <1>7. coupon[j].limit # 0 => coupon[j].usage + Cardinality(PastCheck(j)') + 1
                                 <= coupon[j].limit + parallel
    BY <1>1, <1>5, <1>6 DEF UnderLimit, OverdraftIsBounded
  <1> QED
    BY <1>1, <1>2, <1>3, <1>7 DEF OverdraftIsBounded

\* A commit turns a call past its check into a use of the coupon.
LEMMA CommitBounded ==
    ASSUME CheckoutInv, OverdraftIsBounded, NEW c \in Calls, Commit(c)
    PROVE  OverdraftIsBounded'
  <1>1. /\ TypeOK /\ step[c] = "commit" /\ step' = [step EXCEPT ![c] = "done"]
        /\ UNCHANGED <<asks, parallel>>
    BY DEF Commit, GoTo, CheckoutInv
  <1>2. InFlight' \subseteq InFlight /\ InFlight \subseteq Calls
    BY <1>1 DEF InFlight, TypeOK
  <1>3. Cardinality(InFlight') <= Cardinality(InFlight)
        /\ Cardinality(InFlight') \in Nat /\ Cardinality(InFlight) \in Nat
    BY <1>2, FewCalls, FS_Subset
  <1>4. Cardinality(InFlight') <= parallel'
    BY <1>1, <1>3, ParallelAssumption DEF OverdraftIsBounded, TypeOK
  <1>5. ASSUME NEW k \in Coupons
        PROVE  /\ coupon'[k].state = "absent" => PastCheck(k)' = {}
               /\ coupon'[k].limit # 0 /\ ~coupon'[k].edited
                    => coupon'[k].usage + Cardinality(PastCheck(k)') + 1
                         <= coupon'[k].limit + parallel
    <2>1. PastCheck(k)' = PastCheck(k) \ {c} /\ PastCheck(k) \subseteq Calls
      BY <1>1 DEF PastCheck, TypeOK
    <2>2. IsFiniteSet(PastCheck(k)) /\ Cardinality(PastCheck(k)) \in Nat
      BY <2>1, FewCalls
    <2>3. CASE k = asks[c].coupon
      <3>1. c \in PastCheck(k)
        BY <1>1, <2>3 DEF PastCheck
      <3>2. Cardinality(PastCheck(k)') = Cardinality(PastCheck(k)) - 1
        BY <2>1, <2>2, <3>1, FS_RemoveElement
      <3>3. count[c] = coupon[k].usage + 1 /\ coupon[k].state # "absent"
        BY <1>1, <2>3 DEF CheckoutInv, LocksAreHeld, Live
      <3>4. coupon'[k] = [state |-> coupon[k].state, usage |-> count[c],
                          limit |-> coupon[k].limit, edited |-> coupon[k].edited]
        BY <1>1, <2>3, NoneAssumption DEF Commit, TypeOK
      <3>5. coupon[k].usage \in Nat /\ coupon[k].limit \in Nat /\ parallel \in Nat
        BY <1>1, CouponNumbers
      <3> QED
        BY <2>2, <3>2, <3>3, <3>4, <3>5 DEF OverdraftIsBounded
    <2>4. CASE k # asks[c].coupon
      <3>1. coupon'[k] = coupon[k]
        BY <1>1, <2>4 DEF Commit, TypeOK
      <3>2. PastCheck(k)' = PastCheck(k)
        BY <2>1, <2>4 DEF PastCheck
      <3> QED
        BY <3>1, <3>2 DEF OverdraftIsBounded
    <2> QED
      BY <2>3, <2>4
  <1> QED
    BY <1>1, <1>4, <1>5 DEF OverdraftIsBounded

\* Staff create a coupon that no call has passed the check of; a new limit is an edit.
LEMMA StaffBounded ==
    ASSUME CheckoutInv, OverdraftIsBounded, NEW k \in Coupons,
           CreateCoupon(k) \/ EditCoupon(k) \/ DeleteCoupon(k)
    PROVE  OverdraftIsBounded'
  <1>1. /\ TypeOK /\ coupon[k] \in CouponRow
        /\ UNCHANGED <<step, asks, parallel>>
        /\ \A j \in Coupons \ {k} : coupon'[j] = coupon[j]
    BY DEF CheckoutInv, TypeOK, CreateCoupon, EditCoupon, DeleteCoupon, calls
  <1>2. InFlight' = InFlight /\ \A j \in Coupons : PastCheck(j)' = PastCheck(j)
    BY <1>1 DEF InFlight, PastCheck
  <1>3. CASE CreateCoupon(k)
    <2>1. coupon'[k].usage = 0 /\ coupon'[k].limit \in Nat /\ coupon'[k].state # "absent"
          /\ PastCheck(k) = {}
      BY <1>1, <1>3, LimitsAssumption DEF CreateCoupon, TypeOK, OverdraftIsBounded
    <2>2. Cardinality(PastCheck(k)) = 0 /\ parallel \in Nat
      BY <1>1, <2>1, FS_EmptySet, ParallelAssumption DEF TypeOK
    <2>3. coupon'[k].limit # 0 => coupon'[k].usage + Cardinality(PastCheck(k)) + 1
                                    <= coupon'[k].limit + parallel
      BY <2>1, <2>2
    <2> QED
      BY <1>1, <1>2, <2>1, <2>3 DEF OverdraftIsBounded
  <1>4. CASE EditCoupon(k) \/ DeleteCoupon(k)
    <2>1. /\ coupon'[k].usage = coupon[k].usage /\ coupon'[k].state # "absent"
          /\ ~coupon'[k].edited => ~coupon[k].edited /\ coupon'[k].limit = coupon[k].limit
      <3>1. CASE EditCoupon(k)
        <4>1. PICK s \in {"active", "inactive"}, n \in Limits \cup {coupon[k].limit} :
                coupon' = [coupon EXCEPT ![k] = [state |-> s, usage |-> @.usage, limit |-> n,
                                                 edited |-> @.edited \/ n # @.limit]]
          BY <3>1 DEF EditCoupon
        <4>2. PICK e : e = (coupon[k].edited \/ n # coupon[k].limit)
          OBVIOUS
        <4>3. coupon'[k] = [state |-> s, usage |-> coupon[k].usage, limit |-> n, edited |-> e]
          BY <1>1, <4>1, <4>2 DEF TypeOK
        <4>4. coupon'[k].usage = coupon[k].usage /\ coupon'[k].state = s
              /\ coupon'[k].limit = n /\ coupon'[k].edited = e
          BY <4>3
        <4> QED
          BY <4>2, <4>4
      <3>2. CASE DeleteCoupon(k)
        BY <1>1, <3>2 DEF DeleteCoupon, TypeOK, CouponRow
      <3> QED
        BY <1>4, <3>1, <3>2
    <2> QED
      BY <1>1, <1>2, <2>1 DEF OverdraftIsBounded
  <1> QED
    BY <1>3, <1>4

\* OverdraftIsBounded is inductive relative to CheckoutInv.
LEMMA BoundedNext == CheckoutInv /\ OverdraftIsBounded /\ [Next]_vars => OverdraftIsBounded'
  <1> SUFFICES ASSUME CheckoutInv, OverdraftIsBounded, [Next]_vars PROVE OverdraftIsBounded'
    OBVIOUS
  <1>1. ASSUME NEW c \in Calls, Redeem(c) \/ ReadToken(c) \/ Abort(c) PROVE OverdraftIsBounded'
    <2>1. /\ TypeOK /\ UNCHANGED <<asks, coupon, parallel>>
          /\ step[c] \notin {"idle", "done"}
          /\ Abort(c) \/ step[c] \in {"redeem", "token"}
          /\ \A d \in Calls \ {c} : step'[d] = step[d]
          /\ step'[c] \in {"token", "commit", "done"} /\ (Abort(c) => step'[c] = "done")
      BY <1>1 DEF Redeem, ReadToken, Abort, GoTo, CheckoutInv, TypeOK, TokenOrCommit, InFlight, rows
    <2>2. InFlight' \subseteq InFlight /\ InFlight \subseteq Calls
      BY <2>1 DEF InFlight
    <2>3. Cardinality(InFlight') <= Cardinality(InFlight)
          /\ Cardinality(InFlight') \in Nat /\ Cardinality(InFlight) \in Nat
      BY <2>2, FewCalls, FS_Subset
    <2>4. Cardinality(InFlight') <= parallel
      BY <2>1, <2>3, ParallelAssumption DEF OverdraftIsBounded, TypeOK
    <2>5. \A k \in Coupons : PastCheck(k)' \subseteq PastCheck(k)
      BY <2>1, <1>1 DEF PastCheck, Redeem, ReadToken
    <2> QED
      BY <2>1, <2>4, <2>5, NoneMorePastCheck
  <1>2. CASE UNCHANGED <<step, asks, coupon, parallel>>
    BY <1>2 DEF OverdraftIsBounded, InFlight, PastCheck
  <1> QED
    BY <1>1, <1>2, BeginBounded, CheckBounded, CommitBounded, StaffBounded
    DEF Next, ExpireToken, vars, calls, rows

\* A limit that staff never edited is overdrawn at most by the calls served beside each
\* other, less one (createOrder checks usageCount long before it increments it).
THEOREM OverdraftsAreBounded == Spec => []OverdrawnByInFlight
  <1>1. Init => OverdraftIsBounded
    <2> SUFFICES ASSUME Init PROVE OverdraftIsBounded
      OBVIOUS
    <2>1. InFlight = {} /\ \A k \in Coupons : PastCheck(k) = {}
      BY DEF Init, InFlight, PastCheck
    <2>2. Cardinality(InFlight) <= parallel
      BY <2>1, FS_EmptySet, ParallelAssumption DEF Init
    <2> QED
      BY <2>1, <2>2 DEF Init, OverdraftIsBounded
  <1>2. CheckoutInv /\ OverdraftIsBounded => OverdrawnByInFlight
    <2> SUFFICES ASSUME CheckoutInv, OverdraftIsBounded, NEW k \in Coupons,
                        coupon[k].limit # 0, ~coupon[k].edited
                 PROVE  coupon[k].usage + 1 <= coupon[k].limit + parallel
      BY DEF OverdrawnByInFlight
    <2>1. Cardinality(PastCheck(k)) \in Nat
      BY FewCalls DEF PastCheck
    <2>2. coupon[k].usage \in Nat /\ coupon[k].limit \in Nat /\ parallel \in Nat
      BY CouponNumbers DEF CheckoutInv
    <2> QED
      BY <2>1, <2>2 DEF OverdraftIsBounded
  <1> QED
    BY <1>1, <1>2, BoundedNext, CheckoutCorrect, PTL DEF Spec

-----------------------------------------------------------------------------
(* Tokens when calls are served one at a time *)

\* A call that begins does so when no other is under way.
LEMMA BeginAlone ==
    ASSUME CheckoutInv, LoneTokenIsUnused, parallel = 1, NEW c \in Calls, NEW ask \in Ask,
           AnswerAgain(c, ask) \/ Begin(c, ask)
    PROVE  LoneTokenIsUnused'
  <1>1. /\ TypeOK /\ step[c] = "idle" /\ Cardinality(InFlight) < 1 /\ c \notin placed
        /\ asks' = [asks EXCEPT ![c] = ask]
        /\ UNCHANGED placed
    BY DEF AnswerAgain, Begin, SlotFree, CheckoutInv, AnswersAreOrders, rows
  <1>2. \A d \in Calls \ {c} : step'[d] = step[d] /\ asks'[d] = asks[d]
    BY <1>1 DEF AnswerAgain, Begin, GoTo, TypeOK
  <1>3. step'[c] = "commit" => asks'[c].token = None
    BY <1>1 DEF AnswerAgain, Begin, GoTo, TypeOK, TokenOrCommit
  <1>4. Cardinality(InFlight) = 0 /\ IsFiniteSet(InFlight)
    BY <1>1, FewCalls DEF InFlight
  <1>5. InFlight = {}
    BY <1>4, FS_EmptySet
  <1>6. \A b, d \in InFlight' : b = d
    BY <1>2, <1>5 DEF InFlight
  <1>7. placed \subseteq Calls \ {c}
    BY <1>1 DEF TypeOK
  <1> QED
    BY <1>1, <1>2, <1>3, <1>6, <1>7 DEF LoneTokenIsUnused

\* How many requests are served side by side is settled for a whole behaviour.
LEMMA ParallelIsFixed == [Next]_vars => UNCHANGED parallel
  <1>1. ASSUME NEW c \in Calls, NEW ask \in Ask, AnswerAgain(c, ask) \/ Begin(c, ask)
        PROVE  UNCHANGED parallel
    BY <1>1 DEF AnswerAgain, Begin
  <1>2. ASSUME NEW c \in Calls,
               CheckCoupon(c) \/ Redeem(c) \/ ReadToken(c) \/ Commit(c) \/ Abort(c)
        PROVE  UNCHANGED parallel
    BY <1>2 DEF CheckCoupon, Redeem, ReadToken, Commit, Abort
  <1>3. ASSUME NEW k \in Coupons, CreateCoupon(k) \/ EditCoupon(k) \/ DeleteCoupon(k)
        PROVE  UNCHANGED parallel
    BY <1>3 DEF CreateCoupon, EditCoupon, DeleteCoupon
  <1>4. ASSUME NEW t \in Tokens, ExpireToken(t) PROVE UNCHANGED parallel
    BY <1>4 DEF ExpireToken
  <1>5. CASE UNCHANGED vars
    BY <1>5 DEF vars
  <1> QED
    BY <1>1, <1>2, <1>3, <1>4, <1>5 DEF Next

\* A token that is read as verified has paid for no order, and the call that read it is
\* the only one to use it before it commits.
LEMMA LoneNext == CheckoutInv /\ LoneTokenIsUnused /\ [Next]_vars => LoneTokenIsUnused'
  <1> SUFFICES ASSUME CheckoutInv, LoneTokenIsUnused, [Next]_vars, parallel = 1
               PROVE  LoneTokenIsUnused'
    BY ParallelIsFixed DEF LoneTokenIsUnused
  <1>0. TypeOK
    BY DEF CheckoutInv
  <1>1. ASSUME NEW c \in Calls, CheckCoupon(c) \/ Redeem(c) \/ Abort(c)
        PROVE  LoneTokenIsUnused'
    <2>1. /\ step[c] \notin {"idle", "done"} /\ UNCHANGED <<asks, placed>>
          /\ \A d \in Calls \ {c} : step'[d] = step[d]
          /\ step'[c] = "commit" => asks[c].token = None
      BY <1>0, <1>1 DEF CheckCoupon, Redeem, Abort, GoTo, TypeOK, TokenOrCommit, InFlight, rows
    <2>2. InFlight' \subseteq InFlight
      BY <2>1 DEF InFlight
    <2> QED
      BY <2>1, <2>2 DEF LoneTokenIsUnused
  <1>2. ASSUME NEW c \in Calls, ReadToken(c) PROVE LoneTokenIsUnused'
    <2>1. /\ step[c] = "token" /\ token[asks[c].token] = "verified" /\ UNCHANGED <<asks, placed>>
          /\ \A d \in Calls \ {c} : step'[d] = step[d]
      BY <1>0, <1>2 DEF ReadToken, Usable, GoTo, TypeOK, rows
    <2>2. InFlight' \subseteq InFlight
      BY <2>1 DEF InFlight
    <2>3. \A d \in placed : asks[c].token # None => asks[d].token # asks[c].token
      BY <2>1 DEF CheckoutInv, OrdersConsume
    <2> QED
      BY <2>1, <2>2, <2>3 DEF LoneTokenIsUnused
  <1>3. ASSUME NEW c \in Calls, Commit(c) PROVE LoneTokenIsUnused'
    <2>1. /\ step[c] = "commit" /\ step'[c] = "done" /\ UNCHANGED asks
          /\ placed' = placed \cup {c}
          /\ \A d \in Calls \ {c} : step'[d] = step[d]
      BY <1>0, <1>3 DEF Commit, GoTo, TypeOK
    <2>2. InFlight' \subseteq InFlight /\ c \in InFlight
      BY <2>1 DEF InFlight
    <2>3. \A d \in Calls : step'[d] # "commit"
      BY <2>1, <2>2 DEF LoneTokenIsUnused, InFlight
    <2>4. \A d \in placed : asks[c].token # None => asks[d].token # asks[c].token
      BY <2>1 DEF LoneTokenIsUnused
    <2>5. \A b, d \in placed' : b # d /\ asks[b].token # None => asks[d].token # asks[b].token
      BY <2>1, <2>4 DEF LoneTokenIsUnused
    <2> QED
      BY <2>1, <2>2, <2>3, <2>5 DEF LoneTokenIsUnused
  <1>4. CASE UNCHANGED <<step, asks, placed>>
    BY <1>4 DEF LoneTokenIsUnused, InFlight
  <1> QED
    BY <1>1, <1>2, <1>3, <1>4, BeginAlone
    DEF Next, CreateCoupon, EditCoupon, DeleteCoupon, ExpireToken, vars, calls, rows

\* Checkouts served one at a time place one order on a phone token
\* (validateAndConsumeToken within createOrder).
THEOREM TokensAreSingleUseSerially == Spec => []TokenUsedOnceSerially
  <1>1. Init => LoneTokenIsUnused
    BY DEF Init, LoneTokenIsUnused, InFlight
  <1>2. CheckoutInv /\ LoneTokenIsUnused => TokenUsedOnceSerially
    <2> SUFFICES ASSUME CheckoutInv, LoneTokenIsUnused, parallel = 1, NEW t \in Tokens
                 PROVE  Cardinality(OrdersWithToken(t)) <= 1
      BY DEF TokenUsedOnceSerially
    <2>1. \A c, d \in OrdersWithToken(t) : c = d
      BY NoneAssumption DEF LoneTokenIsUnused, OrdersWithToken
    <2>2. CASE OrdersWithToken(t) = {}
      BY <2>2, FS_EmptySet
    <2>3. CASE OrdersWithToken(t) # {}
      <3>1. PICK c : OrdersWithToken(t) = {c}
        BY <2>1, <2>3
      <3>2. Cardinality({c}) = 1
        BY FS_Singleton, Zenon
      <3> QED
        BY <3>1, <3>2
    <2> QED
      BY <2>2, <2>3
  <1> QED
    BY <1>1, <1>2, LoneNext, CheckoutCorrect, PTL DEF Spec

-----------------------------------------------------------------------------
(* The menu: sums *)

\* There is no endless descent of numbers.
LEMMA LessIsWellFounded == IsWellFoundedOn({p \in Nat \X Nat : p[1] < p[2]}, Nat)
  BY NatLessThanWellFounded DEF OpToRel

\* A set of numbers has a least one: what stands in for induction below.
LEMMA LeastNumber ==
    ASSUME NEW S \in SUBSET Nat, S # {}
    PROVE  \E x \in S : \A y \in S : x <= y
  <1> DEFINE R == {p \in Nat \X Nat : p[1] < p[2]}
  <1>1. PICK x \in S : \A y \in S : <<y, x>> \notin R
    <2> HIDE DEF R
    <2> QED
      BY LessIsWellFounded, WFMin DEF R
  <1>2. \A y \in S : <<y, x>> \in Nat \X Nat /\ <<y, x>>[1] = y /\ <<y, x>>[2] = x
    OBVIOUS
  <1>3. \A y \in S : ~ (y < x)
    BY <1>1, <1>2
  <1> QED
    BY <1>3

\* g holds the partial sums of the first n amounts.
PartialSums(g, amounts, n) ==
    g = [m \in 0..n |-> IF m = 0 THEN 0 ELSE g[m - 1] + amounts[m]]

\* The recursion of Sum defines a function: there is no first n at which it fails.
LEMMA PartialSumsExist ==
    ASSUME NEW N \in Nat, NEW s \in [1..N -> Nat]
    PROVE  \E g \in [0..N -> Nat] : PartialSums(g, s, N)
  <1> DEFINE Exists(n) == \E g \in [0..n -> Nat] : PartialSums(g, s, n)
             Fails == {n \in 0..N : ~Exists(n)}
  <1> SUFFICES ASSUME Fails # {} PROVE FALSE
    <2>1. N \notin Fails => Exists(N)
      <3> HIDE DEF Exists
      <3> QED
        OBVIOUS
    <2> HIDE DEF Fails
    <2> QED
      BY <2>1
  <1>1. PICK n \in Fails : \A m \in Fails : n <= m
    <2>1. Fails \in SUBSET Nat
      OBVIOUS
    <2> HIDE DEF Fails
    <2> QED
      BY <2>1, LeastNumber
  <1>2. n \in 0..N
    OBVIOUS
  <1>3. n # 0
    <2> DEFINE z == [m \in 0..0 |-> 0]
    <2>1. z \in [0..0 -> Nat] /\ z = [m \in 0..0 |-> IF m = 0 THEN 0 ELSE z[m - 1] + s[m]]
      OBVIOUS
    <2> HIDE DEF z
    <2>2. Exists(0)
      BY <2>1 DEF PartialSums
    <2> HIDE DEF Exists
    <2> QED
      BY <2>2
  <1>4. Exists(n - 1)
    <2>1. n - 1 \in 0..N /\ ~ (n <= n - 1)
      BY <1>2, <1>3
    <2>2. n - 1 \notin Fails
      <3> HIDE DEF Fails
      <3> QED
        BY <1>1, <2>1
    <2> HIDE DEF Exists
    <2> QED
      BY <2>1, <2>2
  <1>5. PICK g \in [0..n - 1 -> Nat] :
              g = [m \in 0..n - 1 |-> IF m = 0 THEN 0 ELSE g[m - 1] + s[m]]
    BY <1>4 DEF PartialSums
  <1> DEFINE h == [m \in 0..n |-> IF m = n THEN g[n - 1] + s[n] ELSE g[m]]
  <1>6. h \in [0..n -> Nat] /\ h = [m \in 0..n |-> h[m]]
    BY <1>2, <1>3
  <1>7. ASSUME NEW m \in 0..n PROVE h[m] = IF m = 0 THEN 0 ELSE h[m - 1] + s[m]
    <2>1. CASE m = n
      BY <2>1, <1>2, <1>3
    <2>2. CASE m # n
      <3>1. m \in 0..n - 1 /\ h[m] = g[m] /\ (m # 0 => h[m - 1] = g[m - 1])
        BY <2>2, <1>2
      <3>2. g[m] = IF m = 0 THEN 0 ELSE g[m - 1] + s[m]
        BY <1>5, <3>1
      <3> QED
        BY <3>1, <3>2
    <2> QED
      BY <2>1, <2>2
  <1>8. Exists(n)
    <2> HIDE DEF h
    <2> QED
      BY <1>6, <1>7 DEF PartialSums
  <1> HIDE DEF Exists
  <1> QED
    BY <1>8

\* What createOrder adds up is a number of rupees, however many items there are.
LEMMA SumIsNatural ==
    ASSUME NEW s \in Seq(Nat)
    PROVE  Sum(s) \in Nat
  <1> DEFINE g == CHOOSE f : f = [n \in 0..Len(s) |-> IF n = 0 THEN 0 ELSE f[n - 1] + s[n]]
             Odd == {n \in 0..Len(s) : g[n] \notin Nat}
  <1>1. g = [n \in 0..Len(s) |-> IF n = 0 THEN 0 ELSE g[n - 1] + s[n]]
    <2>1. Len(s) \in Nat /\ s \in [1..Len(s) -> Nat]
      OBVIOUS
    <2>2. PICK h \in [0..Len(s) -> Nat] : PartialSums(h, s, Len(s))
      BY <2>1, PartialSumsExist
    <2> QED
      BY <2>2, Zenon DEF PartialSums
  <1> HIDE DEF g
  <1>2. Odd = {}
    <2> SUFFICES ASSUME Odd # {} PROVE FALSE
      OBVIOUS
    <2>1. Odd \in SUBSET Nat
      OBVIOUS
    <2>2. PICK n \in Odd : \A m \in Odd : n <= m
      <3> HIDE DEF Odd
      <3> QED
        BY <2>1, LeastNumber
    <2>3. g[n] \notin Nat /\ (n # 0 => n - 1 \in 0..Len(s) /\ g[n - 1] \in Nat /\ s[n] \in Nat)
      BY <2>2
    <2>4. g[n] = IF n = 0 THEN 0 ELSE g[n - 1] + s[n]
      BY <1>1
    <2> HIDE DEF Odd
    <2>5. CASE n = 0
      BY <2>3, <2>4, <2>5
    <2>6. CASE n # 0
      BY <2>3, <2>4, <2>6
    <2> QED
      BY <2>5, <2>6
  <1> QED
    BY <1>2 DEF Sum, g

\* ... and so is what its lines come to.
LEMMA SumOfIsNatural ==
    ASSUME NEW lines \in Seq(Line)
    PROVE  SumOf(lines) \in Nat
  <1>1. Len(lines) \in Nat /\ \A i \in 1..Len(lines) : lines[i] \in Line
    BY ElementOfSeq
  <1>2. [i \in 1..Len(lines) |-> lines[i].subtotal] \in [1..Len(lines) -> Nat]
    BY <1>1 DEF Line
  <1>3. [i \in 1..Len(lines) |-> lines[i].subtotal] \in Seq(Nat)
    BY <1>1, <1>2, SeqDef
  <1> QED
    BY <1>3, SumIsNatural DEF SumOf

\* It depends on nothing but the subtotals.
LEMMA SameSubtotals ==
    ASSUME NEW l, NEW m, Len(l) = Len(m), \A i \in 1..Len(l) : l[i].subtotal = m[i].subtotal
    PROVE  SumOf(l) = SumOf(m)
  <1>1. [i \in 1..Len(l) |-> l[i].subtotal] = [i \in 1..Len(m) |-> m[i].subtotal]
    OBVIOUS
  <1> QED
    BY <1>1 DEF SumOf

-----------------------------------------------------------------------------
(* The menu: typing *)

\* It holds of the menu that the seed leaves.
LEMMA MenuInitInv == MenuInit => MenuInv
  <1> SUFFICES ASSUME MenuInit PROVE MenuInv
    OBVIOUS
  <1>0. /\ retired = {} /\ orders = <<>> /\ edits = 0 /\ offer \in Terms
        /\ request = [w \in Workers |-> Idle]
    BY DEF MenuInit
  <1>1. /\ categories \subseteq Categories
        /\ dishes \in [DOMAIN dishes -> Dish] /\ DOMAIN dishes \subseteq Dishes
        /\ \A d \in DOMAIN dishes : dishes[d].category \in categories
    <2>1. PICK c \in Categories, D \in {{}, Dishes} :
              categories = {c} /\ dishes \in [D -> [recipe : Recipes, available : {TRUE}, category : {c}]]
      BY DEF MenuInit
    <2>2. DOMAIN dishes = D /\ D \subseteq Dishes
      BY <2>1
    <2>3. \A d \in D : dishes[d] \in Dish /\ dishes[d].category = c
      BY <2>1 DEF Dish
    <2> QED
      BY <2>1, <2>2, <2>3
  <1>2. MenuTypeOK
    <2>2. orders \in Seq(Order) /\ edits \in 0..MaxEdits
      BY <1>0, BoundsAssumption
    <2>3. request \in [Workers -> IdleRequest]
      BY <1>0 DEF Idle, IdleRequest
    <2> QED
      BY <1>0, <1>1, <2>2, <2>3 DEF MenuTypeOK, MenuRequest
  <1>3. ASSUME NEW w \in Workers
        PROVE  RequestStands(request[w])
    <2>1. request[w].step = "idle"
      BY <1>0 DEF Idle
    <2> QED
      BY <2>1 DEF RequestStands, QuoteStands, PriceStands, OrderIsReady
  <1>4. ReferencesHold /\ TotalsAddUp /\ PreviewIsCharged
    <2>1. Len(orders) = 0
      BY <1>0
    <2> QED
      BY <1>1, <2>1 DEF ReferencesHold, TotalsAddUp, PreviewIsCharged
  <1> QED
    BY <1>2, <1>3, <1>4 DEF MenuInv

\* An item that can be ordered has a line with its dish.
LEMMA OrderLineTyped ==
    ASSUME NEW item \in Item, NEW recipe \in Recipe,
           item.portion = "HALF" => recipe.half # Null, item.extra => recipe.extra # Null
    PROVE  /\ OrderLine(item, recipe) \in Line
           /\ OrderLine(item, recipe).dish = item.dish
  <1> DEFINE base == IF item.portion = "HALF" THEN recipe.half ELSE recipe.price
             unit == base + (IF item.extra THEN recipe.extra ELSE 0)
  <1>1. item.dish \in Dishes /\ item.portion \in {"FULL", "HALF"} /\ item.extra \in BOOLEAN
        /\ item.quantity \in Nat
    BY DEF Item
  <1>2. recipe.price \in Nat /\ recipe.half \in Nat \cup {Null} /\ recipe.extra \in Nat \cup {Null}
    BY DEF Recipe
  <1>3. unit \in Nat
    BY <1>1, <1>2
  <1>4. OrderLine(item, recipe) = [dish |-> item.dish, unit |-> unit, quantity |-> item.quantity,
                                   subtotal |-> unit * item.quantity]
    BY DEF OrderLine
  <1> HIDE DEF unit
  <1>5. unit * item.quantity \in Nat
    BY <1>1, <1>3
  <1> QED
    BY <1>1, <1>3, <1>4, <1>5 DEF Line

\* The lines of a cart that can be ordered are the cart's.
LEMMA OrderLinesTyped ==
    ASSUME MenuTypeOK, NEW cart \in Carts, \A i \in 1..Len(cart) : Orderable(cart[i])
    PROVE  /\ OrderLines(cart) \in Seq(Line)
           /\ LinesAreOf(cart, OrderLines(cart))
           /\ SumOf(OrderLines(cart)) \in Nat
  <1>1. cart \in Seq(Item)
    BY BoundsAssumption
  <1>2. Len(cart) \in Nat /\ \A i \in 1..Len(cart) : cart[i] \in Item
    BY <1>1, ElementOfSeq
  <1>3. ASSUME NEW i \in 1..Len(cart)
        PROVE  LET line == OrderLine(cart[i], dishes[cart[i].dish].recipe)
               IN  line \in Line /\ line.dish = cart[i].dish
    <2>1. cart[i].dish \in DOMAIN dishes /\ dishes[cart[i].dish] \in Dish
      BY DEF Orderable, MenuTypeOK
    <2>2. dishes[cart[i].dish].recipe \in Recipe
      BY <2>1, BoundsAssumption DEF Dish
    <2> QED
      BY <1>2, <2>2, OrderLineTyped DEF Orderable
  <1>4. OrderLines(cart) \in [1..Len(cart) -> Line]
    BY <1>3 DEF OrderLines
  <1>5. OrderLines(cart) \in Seq(Line) /\ Len(OrderLines(cart)) = Len(cart)
    BY <1>2, <1>4, SeqDef
  <1>6. LinesAreOf(cart, OrderLines(cart))
    BY <1>3, <1>5 DEF LinesAreOf, OrderLines
  <1> QED
    BY <1>5, <1>6, SumOfIsNatural

\* A discount is a number of rupees.
LEMMA DiscountIsNatural ==
    ASSUME NEW t \in Terms, NEW n \in Nat
    PROVE  Discount(t, n) \in Nat
  <1>1. t.value \in Nat /\ t.cap \in Nat \cup {Null}
    BY BoundsAssumption DEF CouponTerms
  <1>2. n * t.value \in Nat
    BY <1>1
  <1>3. RoundPercent(n * t.value) \in Nat
    <2> DEFINE product == n * t.value
    <2>1. product \in Nat
      BY <1>2
    <2> HIDE DEF product
    <2>2. (product + 50) \div 100 \in Nat
      BY <2>1
    <2> QED
      BY <2>2 DEF RoundPercent, product
  <1> QED
    BY <1>1, <1>3 DEF Discount, Least

\* What validateCoupon shows is what createOrder takes off, as long as the coupon says the same.
LEMMA PreviewIsDiscount ==
    ASSUME NEW t \in Terms \cup {Null}, NEW n \in Nat, Preview(t, n) # Null
    PROVE  Applies(t, n) /\ Preview(t, n) = Discount(t, n)
  <1>1. t # Null /\ t.usable /\ ~ (n < t.min)
    BY DEF Preview
  <1>2. t.min \in Nat
    BY <1>1, BoundsAssumption DEF CouponTerms
  <1> QED
    BY <1>1, <1>2 DEF Preview, Applies, Discount

\* A total is never negative and adds up.
LEMMA TotalAddsUp ==
    ASSUME NEW n \in Nat, NEW d \in Nat
    PROVE  /\ Total(n, d) \in Nat
           /\ d <= n => Total(n, d) + d = n
  BY DEF Total

-----------------------------------------------------------------------------
(* The menu: requests *)

\* A request is of one of its kinds, which its step tells.
LEMMA KindOfRequest ==
    ASSUME MenuTypeOK, NEW w \in Workers
    PROVE  /\ request[w].step = "quoted" => request[w] \in Quoted
           /\ request[w].step = "priced" => request[w] \in Priced
           /\ request[w].step = "commit" => request[w] \in Ordering
           /\ request[w].step = "deleteCategory" => request[w] \in Deleting
           /\ request[w].step = "toggle" => request[w] \in Toggling
  BY DEF MenuTypeOK, MenuRequest, IdleRequest, Quoted, Priced, Ordering, Deleting, Toggling

\* What a write must leave alone for a request to stay true: the recipes its cart names,
\* and, if it goes by the coupon, the coupon.
LEMMA RequestKept ==
    ASSUME NEW w \in Workers, RequestStands(request[w]), request'[w] = request[w],
           request[w].step \in {"quoted", "priced"} =>
               offer' \in {offer, Null} \/ ~request[w].coupon,
           request[w].step = "quoted" => \A i \in 1..Len(request[w].cart) :
               LET d == request[w].cart[i].dish IN
               /\ d \in DOMAIN dishes \cup retired => d \in DOMAIN dishes' \cup retired'
               /\ d \in DOMAIN dishes \cup retired /\ d \in DOMAIN dishes' =>
                    d \in DOMAIN dishes /\ dishes'[d].recipe = dishes[d].recipe
    PROVE  RequestStands(request[w])'
  <1>1. ASSUME NEW n, NEW m, request[w].step \in {"quoted", "priced"}, OfferStands(request[w].coupon, n, m)
        PROVE  OfferStands(request[w].coupon, n, m)'
    BY <1>1 DEF OfferStands, Applies, Discount
  <1>2. QuoteStands(request[w])'
    <2> SUFFICES ASSUME request[w].step = "quoted"
                 PROVE  QuoteStands(request[w])'
      BY DEF QuoteStands
    <2> DEFINE cart == request[w].cart
    <2>1. \A i \in 1..Len(cart) : cart[i].dish \in DOMAIN dishes \cup retired
      BY DEF RequestStands, QuoteStands
    <2>2. (\A i \in 1..Len(cart) : cart[i].dish \in DOMAIN dishes \cup retired)'
      BY <2>1
    <2>3. ASSUME (\A i \in 1..Len(cart) : cart[i].dish \in DOMAIN dishes)'
          PROVE  /\ \A i \in 1..Len(cart) : cart[i].dish \in DOMAIN dishes
                 /\ OrderLines(cart)' = OrderLines(cart)
      <3>1. \A i \in 1..Len(cart) : /\ cart[i].dish \in DOMAIN dishes
                                    /\ dishes'[cart[i].dish].recipe = dishes[cart[i].dish].recipe
        BY <2>1, <2>3
      <3>2. cart' = cart
        OBVIOUS
      <3> QED
        BY <3>1, <3>2 DEF OrderLines
    <2>4. ASSUME ~request[w].stirred
          PROVE  OfferStands(request[w].coupon, request[w].subtotal, request[w].discount)'
      BY <1>1, <2>4 DEF RequestStands, QuoteStands
    <2>5. ASSUME ~request[w].stirred, (\A i \in 1..Len(cart) : cart[i].dish \in DOMAIN dishes)'
          PROVE  request[w].subtotal = SumOf(OrderLines(cart))'
      BY <2>3, <2>5 DEF RequestStands, QuoteStands, SumOf
    <2> QED
      BY <2>2, <2>4, <2>5 DEF QuoteStands
  <1>3. PriceStands(request[w])' /\ OrderIsReady(request[w])'
    BY <1>1 DEF RequestStands, PriceStands, OrderIsReady, LinesAreOf, SumOf
  <1> QED
    BY <1>2, <1>3 DEF RequestStands

\* A request that was stirred promises only that its dishes were on the menu.
LEMMA RequestStirred ==
    ASSUME MenuTypeOK, NEW w \in Workers, RequestStands(request[w]),
           request[w].step \in {"quoted", "priced"},
           request'[w] = [request[w] EXCEPT !.stirred = TRUE],
           DOMAIN dishes \cup retired \subseteq DOMAIN dishes' \cup retired'
    PROVE  RequestStands(request[w])'
  <1>1. CASE request[w].step = "quoted"
    <2>1. /\ request'[w].step = "quoted" /\ request'[w].stirred
          /\ request'[w].cart = request[w].cart
      BY <1>1, KindOfRequest DEF Quoted
    <2> QED
      BY <1>1, <2>1 DEF RequestStands, QuoteStands, PriceStands, OrderIsReady
  <1>2. CASE request[w].step = "priced"
    <2>1. /\ request'[w].step = "priced" /\ request'[w].stirred
          /\ request'[w].cart = request[w].cart /\ request'[w].lines = request[w].lines
      BY <1>2, KindOfRequest DEF Priced
    <2> QED
      BY <1>2, <2>1 DEF RequestStands, QuoteStands, PriceStands, OrderIsReady, LinesAreOf
  <1> QED
    BY <1>1, <1>2

\* A request of staff, or none, promises nothing.
LEMMA NothingPromised ==
    ASSUME NEW w \in Workers, request'[w].step \in {"idle", "deleteCategory", "toggle"}
    PROVE  RequestStands(request[w])'
  BY DEF RequestStands, QuoteStands, PriceStands, OrderIsReady

-----------------------------------------------------------------------------
(* The menu: steps *)

\* What is true of a record is true of the request that remembers it.
LEMMA RequestTaken ==
    ASSUME NEW w \in Workers, NEW r, RequestStands(r), request'[w] = r, UNCHANGED tables
    PROVE  RequestStands(request[w])'
  <1>1. OrderLines(request[w].cart)' = OrderLines(r.cart)
    BY DEF OrderLines, tables, menu
  <1>2. \A n, m : OfferStands(r.coupon, n, m) => OfferStands(r.coupon, n, m)'
    BY DEF OfferStands, Applies, Discount, tables
  <1>3. QuoteStands(request[w])'
    BY <1>1, <1>2 DEF RequestStands, QuoteStands, SumOf, tables, menu
  <1>4. PriceStands(request[w])'
    BY <1>2 DEF RequestStands, PriceStands, LinesAreOf, SumOf
  <1>5. OrderIsReady(request[w])'
    BY DEF RequestStands, OrderIsReady, LinesAreOf, SumOf
  <1> QED
    BY <1>3, <1>4, <1>5 DEF RequestStands

\* A step that only lets one request go on.
LEMMA ServeInv ==
    ASSUME MenuInv, NEW w \in Workers, NEW r \in MenuRequest, Serve(w, r),
           UNCHANGED <<tables, edits>>, RequestStands(r)
    PROVE  MenuInv'
  <1> USE DEF tables, menu
  <1>1. MenuTypeOK'
    BY DEF MenuInv, MenuTypeOK, Serve, MenuRequest
  <1>2. ASSUME NEW v \in Workers PROVE RequestStands(request[v])'
    <2>1. CASE v = w
      <3>1. request'[w] = r
        BY DEF MenuInv, MenuTypeOK, Serve
      <3> QED
        BY <2>1, <3>1, RequestTaken
    <2>2. CASE v # w
      <3>1. request'[v] = request[v] /\ RequestStands(request[v])
        BY <2>2 DEF MenuInv, MenuTypeOK, Serve
      <3> QED
        BY <3>1, RequestKept
    <2> QED
      BY <2>1, <2>2
  <1>3. ReferencesHold' /\ TotalsAddUp' /\ PreviewIsCharged'
    BY DEF MenuInv, ReferencesHold, TotalsAddUp, PreviewIsCharged
  <1> QED
    BY <1>1, <1>2, <1>3 DEF MenuInv

\* A write to the menu that places no order and takes no dish away.
LEMMA WriteInv ==
    ASSUME MenuInv, MenuTypeOK', UNCHANGED orders, DOMAIN dishes \subseteq DOMAIN dishes',
           \A d \in DOMAIN dishes' : dishes'[d].category \in categories',
           \A w \in Workers : RequestStands(request[w])'
    PROVE  MenuInv'
  <1>1. ReferencesHold' /\ TotalsAddUp' /\ PreviewIsCharged'
    BY DEF MenuInv, ReferencesHold, TotalsAddUp, PreviewIsCharged
  <1> QED
    BY <1>1 DEF MenuInv

\* Staff write a bounded number of times.
LEMMA EditTyped ==
    ASSUME MenuTypeOK, Edit
    PROVE  edits' \in 0..MaxEdits
  BY BoundsAssumption DEF MenuTypeOK, Edit

\* Writing a category, or that it is gone, leaves dishes and quotes as they are.
LEMMA CategoryInv ==
    ASSUME MenuInv, (\E c \in Categories : CreateCategory(c)) \/ (\E w \in Workers : DeleteCategory(w))
    PROVE  MenuInv'
  <1>1. MenuTypeOK' /\ UNCHANGED <<dishes, offer, orders>> /\ retired \subseteq retired'
    <2>1. /\ UNCHANGED <<dishes, offer, orders>> /\ retired \subseteq retired'
          /\ edits' \in 0..MaxEdits
      BY EditTyped DEF MenuInv, CreateCategory, DeleteCategory
    <2>2. categories' \subseteq Categories /\ retired' \subseteq Dishes \cup Categories
      BY KindOfRequest DEF MenuInv, MenuTypeOK, CreateCategory, DeleteCategory, Deleting
    <2>3. request' \in [Workers -> MenuRequest]
      BY DEF MenuInv, MenuTypeOK, CreateCategory, DeleteCategory, Serve, Idle, IdleRequest, MenuRequest
    <2> QED
      BY <2>1, <2>2, <2>3 DEF MenuInv, MenuTypeOK
  <1>2. \A d \in DOMAIN dishes : dishes[d].category \in categories'
    BY DEF MenuInv, ReferencesHold, CreateCategory, DeleteCategory, Deletable, DishesIn
  <1>3. ASSUME NEW v \in Workers PROVE RequestStands(request[v])'
    <2>1. request'[v] = request[v] \/ request'[v] = Idle
      BY DEF MenuInv, MenuTypeOK, CreateCategory, DeleteCategory, Serve
    <2>2. CASE request'[v] = request[v]
      BY <2>2, <1>1, RequestKept DEF MenuInv
    <2>3. CASE request'[v] = Idle
      BY <2>3, NothingPromised DEF Idle
    <2> QED
      BY <2>1, <2>2, <2>3
  <1> QED
    BY <1>1, <1>2, <1>3, WriteInv

\* A new dish has an id that no cart and no line names.
LEMMA CreateProductInv ==
    ASSUME MenuInv, NEW d \in Dishes, CreateProduct(d)
    PROVE  MenuInv'
  <1>1. PICK p \in Recipes, c \in Categories :
            InCategory(c) /\ dishes' = With(d, [recipe |-> p, available |-> TRUE, category |-> c])
    BY DEF CreateProduct
  <1>2. /\ d \notin DOMAIN dishes \cup retired
        /\ UNCHANGED <<categories, retired, offer, orders, request>>
    BY DEF CreateProduct
  <1>3. /\ DOMAIN dishes' = DOMAIN dishes \cup {d}
        /\ \A e \in DOMAIN dishes : dishes'[e] = dishes[e]
        /\ dishes'[d].category \in categories
    BY <1>1, <1>2 DEF With, InCategory
  <1>4. dishes' \in [DOMAIN dishes' -> Dish]
    BY <1>1 DEF With, Dish, MenuInv, MenuTypeOK
  <1>5. MenuTypeOK'
    <2>1. edits' \in 0..MaxEdits
      BY EditTyped DEF MenuInv, CreateProduct
    <2> QED
      BY <1>2, <1>3, <1>4, <2>1 DEF MenuInv, MenuTypeOK
  <1>6. ASSUME NEW w \in Workers PROVE RequestStands(request[w])'
    BY <1>2, <1>3, RequestKept DEF MenuInv
  <1>7. \A e \in DOMAIN dishes' : dishes'[e].category \in categories'
    BY <1>2, <1>3 DEF MenuInv, ReferencesHold
  <1> QED
    BY <1>2, <1>3, <1>5, <1>6, <1>7, WriteInv

\* A dish that is edited stirs the quotes that name it.
LEMMA UpdateProductInv ==
    ASSUME MenuInv, NEW d \in Dishes, UpdateProduct(d)
    PROVE  MenuInv'
  <1>1. PICK row \in Dish : InCategory(row.category) /\ dishes' = With(d, row)
    BY DEF UpdateProduct
  <1>2. /\ d \in DOMAIN dishes /\ Stir(Quotes(d))
        /\ UNCHANGED <<categories, retired, offer, orders>>
    BY DEF UpdateProduct
  <1>3. /\ DOMAIN dishes' = DOMAIN dishes
        /\ \A e \in DOMAIN dishes \ {d} : dishes'[e] = dishes[e]
        /\ dishes'[d].category \in categories
    BY <1>1, <1>2 DEF With, InCategory
  <1>4. dishes' \in [DOMAIN dishes' -> Dish]
    BY <1>1 DEF With, MenuInv, MenuTypeOK
  <1>5. ASSUME NEW w \in Workers
        PROVE  RequestStands(request[w])' /\ request'[w] \in MenuRequest
    <2>1. CASE w \in Quotes(d)
      <3>1. request[w] \in Quoted
        BY <2>1, KindOfRequest DEF MenuInv, Quotes
      <3>2. request'[w] = [request[w] EXCEPT !.stirred = TRUE]
        BY <2>1, <1>2 DEF Stir
      <3>3. request'[w] \in Quoted
        BY <3>1, <3>2 DEF Quoted
      <3> QED
        BY <2>1, <1>2, <1>3, <3>2, <3>3, RequestStirred DEF MenuInv, Quotes, MenuRequest
    <2>2. CASE w \notin Quotes(d)
      <3>1. request'[w] = request[w]
        BY <2>2, <1>2 DEF Stir
      <3>2. request[w].step = "quoted" => \A i \in 1..Len(request[w].cart) : request[w].cart[i].dish # d
        BY <2>2 DEF Quotes
      <3>3. RequestStands(request[w])'
        BY <1>2, <1>3, <3>1, <3>2, RequestKept DEF MenuInv
      <3> QED
        BY <3>1, <3>3 DEF MenuInv, MenuTypeOK, MenuRequest
    <2> QED
      BY <2>1, <2>2
  <1>6. request' \in [Workers -> MenuRequest]
    BY <1>2, <1>5 DEF Stir
  <1>7. MenuTypeOK'
    BY <1>2, <1>3, <1>4, <1>6, BoundsAssumption DEF MenuInv, MenuTypeOK, UpdateProduct, Edit, MenuRequest
  <1>8. \A e \in DOMAIN dishes' : dishes'[e].category \in categories'
    BY <1>2, <1>3 DEF MenuInv, ReferencesHold
  <1> QED
    BY <1>2, <1>3, <1>5, <1>7, <1>8, WriteInv

\* A toggle writes whether a dish is on sale, and no price.
LEMMA ToggleInv ==
    ASSUME MenuInv, NEW w \in Workers, ToggleAvailability(w)
    PROVE  MenuInv'
  <1>1. PICK d \in Dishes, b \in BOOLEAN : request[w].dish = d /\ b = ~request[w].was
    BY KindOfRequest DEF ToggleAvailability, MenuInv, Toggling
  <1>2. /\ d \in DOMAIN dishes /\ dishes' = With(d, [dishes[d] EXCEPT !.available = b])
        /\ Serve(w, Idle) /\ UNCHANGED <<categories, retired, offer, orders>>
    BY <1>1 DEF ToggleAvailability
  <1>3. dishes[d] \in Dish
    BY <1>2 DEF MenuInv, MenuTypeOK
  <1>4. /\ DOMAIN dishes' = DOMAIN dishes
        /\ \A e \in DOMAIN dishes : /\ dishes'[e].recipe = dishes[e].recipe
                                    /\ dishes'[e].category = dishes[e].category
    BY <1>2, <1>3 DEF With, Dish
  <1>5. dishes' \in [DOMAIN dishes' -> Dish]
    BY <1>2, <1>3 DEF With, Dish, MenuInv, MenuTypeOK
  <1>6. MenuTypeOK'
    <2>1. edits' \in 0..MaxEdits
      BY EditTyped DEF MenuInv, ToggleAvailability
    <2>2. request' \in [Workers -> MenuRequest]
      BY <1>2 DEF MenuInv, MenuTypeOK, Serve, Idle, IdleRequest, MenuRequest
    <2> QED
      BY <1>2, <1>4, <1>5, <2>1, <2>2 DEF MenuInv, MenuTypeOK, MenuRequest
  <1>7. ASSUME NEW v \in Workers PROVE RequestStands(request[v])'
    <2>1. CASE v = w
      BY <2>1, <1>2, NothingPromised DEF Serve, Idle, MenuInv, MenuTypeOK
    <2>2. CASE v # w
      <3>1. request'[v] = request[v]
        BY <2>2, <1>2 DEF Serve, MenuInv, MenuTypeOK
      <3> QED
        BY <1>2, <1>4, <3>1, RequestKept DEF MenuInv
    <2> QED
      BY <2>1, <2>2
  <1>8. \A e \in DOMAIN dishes' : dishes'[e].category \in categories'
    BY <1>2, <1>4 DEF MenuInv, ReferencesHold
  <1> QED
    BY <1>2, <1>4, <1>6, <1>7, <1>8, WriteInv

\* A coupon that is edited stirs every quote that goes by it and is not priced; one that is
\* deleted stirs none, for their orders are refused.
LEMMA CouponInv ==
    ASSUME MenuInv, UpdateCoupon \/ RemoveCoupon
    PROVE  MenuInv'
  <1> USE DEF menu
  <1>1. /\ UNCHANGED <<categories, dishes, retired, orders>>
        /\ offer' \in Terms \cup {Null}
        /\ edits' \in 0..MaxEdits
    BY EditTyped DEF MenuInv, UpdateCoupon, RemoveCoupon
  <1>2. ASSUME NEW w \in Workers
        PROVE  RequestStands(request[w])' /\ request'[w] \in MenuRequest
    <2>1. request[w] \in MenuRequest /\ RequestStands(request[w])
      BY DEF MenuInv, MenuTypeOK, MenuRequest
    <2>2. CASE UpdateCoupon /\ request[w].step \in {"quoted", "priced"} /\ request[w].coupon
      <3>1. request'[w] = [request[w] EXCEPT !.stirred = TRUE]
        BY <2>2 DEF UpdateCoupon, Stir
      <3>2. request'[w] \in Quoted \cup Priced
        BY <2>2, <3>1, KindOfRequest DEF MenuInv, Quoted, Priced
      <3> QED
        BY <1>1, <2>1, <2>2, <3>1, <3>2, RequestStirred DEF MenuInv, MenuRequest
    <2>3. CASE UpdateCoupon /\ ~(request[w].step \in {"quoted", "priced"} /\ request[w].coupon)
      <3>1. request'[w] = request[w]
        BY <2>3 DEF UpdateCoupon, Stir
      <3> QED
        BY <1>1, <2>1, <2>3, <3>1, RequestKept
    <2>4. CASE RemoveCoupon
      <3>1. request'[w] = request[w] /\ offer' = Null
        BY <2>4 DEF RemoveCoupon
      <3> QED
        BY <1>1, <2>1, <3>1, RequestKept
    <2> QED
      BY <2>2, <2>3, <2>4
  <1>3. request' \in [Workers -> MenuRequest]
    <2>1. CASE UpdateCoupon
      BY <2>1, <1>2 DEF UpdateCoupon, Stir
    <2>2. CASE RemoveCoupon
      BY <2>2 DEF RemoveCoupon, MenuInv, MenuTypeOK, MenuRequest
    <2> QED
      BY <2>1, <2>2
  <1>4. MenuTypeOK'
    BY <1>1, <1>3 DEF MenuInv, MenuTypeOK, MenuRequest
  <1> QED
    BY <1>1, <1>2, <1>4, WriteInv DEF MenuInv, ReferencesHold

\* A quote is what menu and coupon say as it is made.
LEMMA QuoteInv ==
    ASSUME MenuInv, NEW w \in Workers, NEW cart \in Carts, Quote(w, cart)
    PROVE  MenuInv'
  <1> DEFINE subtotal == SumOf(OrderLines(cart))
  <1>1. PICK with \in BOOLEAN :
            /\ with => Preview(offer, subtotal) # Null
            /\ Serve(w, [step |-> "quoted", cart |-> cart, coupon |-> with, stirred |-> FALSE,
                         subtotal |-> subtotal,
                         discount |-> IF with THEN Preview(offer, subtotal) ELSE 0])
    BY DEF Quote, TakeUp
  <1>2. /\ \A i \in 1..Len(cart) : Orderable(cart[i])
        /\ UNCHANGED <<tables, edits>>
    BY DEF Quote
  <1>3. subtotal \in Nat
    BY <1>2, OrderLinesTyped DEF MenuInv
  <1> HIDE DEF subtotal
  <1>4. PICK d : d = IF with THEN Preview(offer, subtotal) ELSE 0
    OBVIOUS
  <1>5. with => Applies(offer, subtotal) /\ d = Discount(offer, subtotal) /\ offer \in Terms
    BY <1>1, <1>3, <1>4, PreviewIsDiscount DEF MenuInv, MenuTypeOK, Applies
  <1>6. d \in Nat
    BY <1>3, <1>4, <1>5, DiscountIsNatural
  <1>7. OfferStands(with, subtotal, d)
    BY <1>4, <1>5 DEF OfferStands
  <1>8. PICK r : r = [step |-> "quoted", cart |-> cart, coupon |-> with, stirred |-> FALSE,
                      subtotal |-> subtotal, discount |-> d]
    OBVIOUS
  <1>9. r \in MenuRequest /\ Serve(w, r)
    BY <1>1, <1>3, <1>4, <1>6, <1>8 DEF MenuRequest, Quoted
  <1>10. RequestStands(r)
    <2>1. \A i \in 1..Len(cart) : cart[i].dish \in DOMAIN dishes
      BY <1>2 DEF Orderable
    <2> QED
      BY <1>7, <1>8, <2>1 DEF RequestStands, QuoteStands, PriceStands, OrderIsReady, subtotal
  <1> QED
    BY <1>2, <1>9, <1>10, ServeInv

\* The prices are those of the dishes as they are read, and the quote's if it still stands.
LEMMA ReadMenuInv ==
    ASSUME MenuInv, NEW w \in Workers, ReadMenu(w)
    PROVE  MenuInv'
  <1>1. PICK q : q = request[w]
    OBVIOUS
  <1>2. q \in Quoted /\ q.step = "quoted" /\ QuoteStands(q)
    BY <1>1, KindOfRequest DEF MenuInv, ReadMenu, RequestStands
  <1>3. /\ \A i \in 1..Len(q.cart) : Orderable(q.cart[i])
        /\ UNCHANGED <<tables, edits>>
    BY <1>1 DEF ReadMenu
  <1>4. PICK lines : lines = OrderLines(q.cart)
    OBVIOUS
  <1>5. lines \in Seq(Line) /\ LinesAreOf(q.cart, lines)
    BY <1>2, <1>3, <1>4, OrderLinesTyped DEF MenuInv, Quoted
  <1>6. PICK r : r = [step |-> "priced", cart |-> q.cart, coupon |-> q.coupon,
                      stirred |-> q.stirred, quoted |-> <<q.subtotal, q.discount>>, lines |-> lines]
    OBVIOUS
  <1>7. r \in MenuRequest /\ Serve(w, r)
    BY <1>1, <1>2, <1>4, <1>5, <1>6 DEF ReadMenu, Quoted, Priced, MenuRequest
  <1>8. ~q.stirred => q.subtotal = SumOf(lines) /\ OfferStands(q.coupon, q.subtotal, q.discount)
    BY <1>2, <1>3, <1>4 DEF QuoteStands, Orderable
  <1>9. RequestStands(r)
    BY <1>5, <1>6, <1>8 DEF RequestStands, QuoteStands, PriceStands, OrderIsReady
  <1> QED
    BY <1>3, <1>7, <1>9, ServeInv

\* The discount is that of the coupon as it is read, and the quote's if it still stands.
LEMMA ReadCouponInv ==
    ASSUME MenuInv, NEW w \in Workers, ReadCoupon(w)
    PROVE  MenuInv'
  <1>1. PICK p : p = request[w]
    OBVIOUS
  <1>2. p \in Priced /\ p.step = "priced" /\ PriceStands(p)
    BY <1>1, KindOfRequest DEF MenuInv, ReadCoupon, RequestStands
  <1>3. PICK n : n = SumOf(p.lines)
    OBVIOUS
  <1>4. PICK d : d = IF p.coupon THEN Discount(offer, n) ELSE 0
    OBVIOUS
  <1>5. (p.coupon => Applies(offer, n)) /\ UNCHANGED <<tables, edits>>
    BY <1>1, <1>3 DEF ReadCoupon
  <1>6. n \in Nat
    BY <1>2, <1>3, SumOfIsNatural DEF Priced
  <1>7. d \in Nat
    BY <1>4, <1>5, <1>6, DiscountIsNatural DEF Applies, MenuInv, MenuTypeOK
  <1>8. PICK r : r = [step |-> "commit", cart |-> p.cart, coupon |-> p.coupon,
                      stirred |-> p.stirred, quoted |-> p.quoted, lines |-> p.lines,
                      subtotal |-> n, discount |-> d]
    OBVIOUS
  <1>9. r \in MenuRequest /\ Serve(w, r)
    BY <1>1, <1>2, <1>3, <1>4, <1>6, <1>7, <1>8 DEF ReadCoupon, Priced, Ordering, MenuRequest
  <1>10. ~p.stirred => p.quoted = <<n, d>>
    <2> SUFFICES ASSUME ~p.stirred PROVE p.quoted = <<n, d>>
      OBVIOUS
    <2>1. p.quoted \in Nat \X Nat /\ p.quoted[1] = n /\ OfferStands(p.coupon, p.quoted[1], p.quoted[2])
      BY <1>2, <1>3 DEF PriceStands, Priced
    <2>2. p.quoted[2] = d
      BY <1>4, <1>5, <2>1 DEF OfferStands, Applies
    <2> QED
      BY <2>1, <2>2
  <1>11. RequestStands(r)
    BY <1>2, <1>3, <1>8, <1>10 DEF RequestStands, QuoteStands, PriceStands, OrderIsReady
  <1> QED
    BY <1>5, <1>9, <1>11, ServeInv

\* MenuRequest that make sure of a row, and those that end.
LEMMA OtherRequestsInv ==
    ASSUME MenuInv, NEW w \in Workers,
           \/ \E c \in Categories : CountDishes(w, c)
           \/ \E d \in Dishes : ReadAvailability(w, d)
           \/ Abandon(w)
    PROVE  MenuInv'
  <1>1. PICK r \in IdleRequest \cup Deleting \cup Toggling : Serve(w, r)
    <2>1. ASSUME NEW c \in Categories, CountDishes(w, c)
          PROVE  [step |-> "deleteCategory", category |-> c] \in Deleting
                 /\ Serve(w, [step |-> "deleteCategory", category |-> c])
      BY <2>1 DEF CountDishes, TakeUp, Deleting
    <2>2. ASSUME NEW d \in Dishes, ReadAvailability(w, d)
          PROVE  [step |-> "toggle", dish |-> d, was |-> dishes[d].available] \in Toggling
                 /\ Serve(w, [step |-> "toggle", dish |-> d, was |-> dishes[d].available])
      BY <2>2 DEF ReadAvailability, TakeUp, Toggling, MenuInv, MenuTypeOK, Dish
    <2>3. ASSUME Abandon(w) PROVE Idle \in IdleRequest /\ Serve(w, Idle)
      BY <2>3 DEF Abandon, Idle, IdleRequest
    <2> QED
      BY <2>1, <2>2, <2>3
  <1>2. UNCHANGED <<tables, edits>>
    BY DEF CountDishes, ReadAvailability, Abandon
  <1>3. RequestStands(r)
    BY DEF RequestStands, QuoteStands, PriceStands, OrderIsReady, IdleRequest, Deleting, Toggling
  <1> QED
    BY <1>1, <1>2, <1>3, ServeInv DEF MenuRequest

-----------------------------------------------------------------------------
(* The menu: orders *)

\* What the properties say of one order.
OrderStands(o) ==
    /\ \A j \in 1..Len(o.lines) : o.lines[j].dish \in DOMAIN dishes \cup {Null}
    /\ o.subtotal = SumOf(o.lines)
    /\ o.total >= 0
    /\ o.discount <= o.subtotal => o.total + o.discount = o.subtotal
    /\ o.stirred \/ o.quoted = <<o.subtotal, o.discount>>

\* The properties, order by order.
LEMMA OrdersStand ==
    ASSUME MenuTypeOK
    PROVE  (ReferencesHold /\ TotalsAddUp /\ PreviewIsCharged)
             <=> /\ \A d \in DOMAIN dishes : dishes[d].category \in categories
                 /\ \A i \in 1..Len(orders) : OrderStands(orders[i])
  BY DEF ReferencesHold, TotalsAddUp, PreviewIsCharged, OrderStands

\* An order is written as it was made ready.
LEMMA PlaceOrderInv ==
    ASSUME MenuInv, NEW w \in Workers, PlaceOrder(w)
    PROVE  MenuInv'
  <1>1. PICK r : r = request[w]
    OBVIOUS
  <1>2. r \in Ordering /\ r.step = "commit" /\ OrderIsReady(r)
    BY <1>1, KindOfRequest DEF MenuInv, PlaceOrder, RequestStands
  <1>3. PICK o : o = [lines |-> r.lines, subtotal |-> r.subtotal, discount |-> r.discount,
                      total |-> Total(r.subtotal, r.discount), quoted |-> r.quoted,
                      stirred |-> r.stirred]
    OBVIOUS
  <1>4. /\ \A i \in 1..Len(r.cart) : r.cart[i].dish \in DOMAIN dishes
        /\ orders' = Append(orders, o)
        /\ Serve(w, Idle) /\ UNCHANGED <<categories, dishes, retired, offer, edits>>
    BY <1>1, <1>3 DEF PlaceOrder, Snapshot, menu
  <1>5. Total(r.subtotal, r.discount) \in Nat
        /\ (r.discount <= r.subtotal => Total(r.subtotal, r.discount) + r.discount = r.subtotal)
    BY <1>2, TotalAddsUp DEF Ordering
  <1>6. o \in Order
    BY <1>2, <1>3, <1>5 DEF Order, Ordering
  <1>7. OrderStands(o)
    <2>1. \A j \in 1..Len(o.lines) : o.lines[j].dish \in DOMAIN dishes
      BY <1>2, <1>3, <1>4 DEF OrderIsReady, LinesAreOf
    <2> QED
      BY <1>2, <1>3, <1>5, <2>1 DEF OrderStands, OrderIsReady
  <1>8. orders \in Seq(Order) /\ \A i \in 1..Len(orders) : OrderStands(orders[i])
    BY OrdersStand DEF MenuInv, MenuTypeOK
  <1>9. /\ orders' \in Seq(Order) /\ Len(orders') = Len(orders) + 1
        /\ \A i \in 1..Len(orders) : orders'[i] = orders[i]
        /\ orders'[Len(orders) + 1] = o
    BY <1>4, <1>6, <1>8, AppendProperties
  <1>10. MenuTypeOK'
    <2>1. request' \in [Workers -> MenuRequest]
      BY <1>4 DEF MenuInv, MenuTypeOK, Serve, Idle, IdleRequest, MenuRequest
    <2> QED
      BY <1>4, <1>9, <2>1 DEF MenuInv, MenuTypeOK, MenuRequest
  <1>11. ASSUME NEW v \in Workers PROVE RequestStands(request[v])'
    <2>1. CASE v = w
      BY <2>1, <1>4, NothingPromised DEF Serve, Idle, MenuInv, MenuTypeOK
    <2>2. CASE v # w
      <3>1. request'[v] = request[v]
        BY <2>2, <1>4 DEF Serve, MenuInv, MenuTypeOK
      <3> QED
        BY <1>4, <3>1, RequestKept DEF MenuInv
    <2> QED
      BY <2>1, <2>2
  <1>12. ReferencesHold' /\ TotalsAddUp' /\ PreviewIsCharged'
    <2>1. ASSUME NEW i \in 1..Len(orders') PROVE OrderStands(orders[i])'
      <3>1. CASE i = Len(orders) + 1
        BY <1>4, <1>7, <1>9, <3>1 DEF OrderStands
      <3>2. CASE i # Len(orders) + 1
        <4>1. i \in 1..Len(orders)
          BY <1>8, <1>9, <3>2
        <4> QED
          BY <1>4, <1>8, <1>9, <4>1 DEF OrderStands
      <3> QED
        BY <3>1, <3>2
    <2>2. \A d \in DOMAIN dishes' : dishes'[d].category \in categories'
      BY <1>4 DEF MenuInv, ReferencesHold
    <2> QED
      BY <1>10, <2>1, <2>2 DEF ReferencesHold, TotalsAddUp, PreviewIsCharged, OrderStands
  <1> QED
    BY <1>10, <1>11, <1>12 DEF MenuInv

\* A line that loses its dish loses nothing else.
LEMMA DetachedKeeps ==
    ASSUME NEW o \in Order, NEW d
    PROVE  /\ Detached(o, d) \in Order
           /\ Len(Detached(o, d).lines) = Len(o.lines)
           /\ \A j \in 1..Len(o.lines) :
                /\ Detached(o, d).lines[j] \in {o.lines[j], [o.lines[j] EXCEPT !.dish = Null]}
                /\ Detached(o, d).lines[j].subtotal = o.lines[j].subtotal
                /\ Detached(o, d).lines[j].dish \in {o.lines[j].dish, Null} \ ({d} \ {Null})
           /\ Detached(o, d).subtotal = o.subtotal /\ Detached(o, d).discount = o.discount
           /\ Detached(o, d).total = o.total /\ Detached(o, d).quoted = o.quoted
           /\ Detached(o, d).stirred = o.stirred
  <1> DEFINE kept == [j \in 1..Len(o.lines) |->
                        IF o.lines[j].dish = d THEN [o.lines[j] EXCEPT !.dish = Null] ELSE o.lines[j]]
  <1>1. o.lines \in Seq(Line) /\ Len(o.lines) \in Nat /\ \A j \in 1..Len(o.lines) : o.lines[j] \in Line
    BY ElementOfSeq DEF Order
  <1>2. \A j \in 1..Len(o.lines) :
            /\ kept[j] \in Line
            /\ kept[j] \in {o.lines[j], [o.lines[j] EXCEPT !.dish = Null]}
            /\ kept[j].subtotal = o.lines[j].subtotal
            /\ kept[j].dish \in {o.lines[j].dish, Null} \ ({d} \ {Null})
    BY <1>1 DEF Line
  <1>3. kept \in Seq(Line) /\ Len(kept) = Len(o.lines)
    <2>1. kept \in [1..Len(o.lines) -> Line]
      BY <1>2
    <2> HIDE DEF kept
    <2> QED
      BY <1>1, <2>1, SeqDef
  <1> HIDE DEF kept
  <1>4. Detached(o, d) = [o EXCEPT !.lines = kept]
    BY DEF Detached, kept
  <1> QED
    BY <1>2, <1>3, <1>4 DEF Order

\* A dish that is deleted leaves the orders all but its name, and the quotes to be refused.
LEMMA DeleteProductInv ==
    ASSUME MenuInv, NEW d \in Dishes, DeleteProduct(d)
    PROVE  MenuInv'
  <1>1. /\ dishes' = [e \in DOMAIN dishes \ {d} |-> dishes[e]] /\ retired' = retired \cup {d}
        /\ orders' = [i \in 1..Len(orders) |-> Detached(orders[i], d)]
        /\ UNCHANGED <<categories, offer, request>>
    BY DEF DeleteProduct
  <1>2. /\ DOMAIN dishes' = DOMAIN dishes \ {d}
        /\ \A e \in DOMAIN dishes' : dishes'[e] = dishes[e]
    BY <1>1
  <1>3. /\ Len(orders) \in Nat
        /\ \A i \in 1..Len(orders) : orders[i] \in Order /\ OrderStands(orders[i])
    BY OrdersStand, ElementOfSeq DEF MenuInv, MenuTypeOK
  <1>4. \A i \in 1..Len(orders) : Detached(orders[i], d) \in Order
    BY <1>3, DetachedKeeps
  <1>5. orders' \in Seq(Order) /\ Len(orders') = Len(orders)
    BY <1>1, <1>3, <1>4, SeqDef
  <1>6. MenuTypeOK'
    <2>1. edits' \in 0..MaxEdits
      BY EditTyped DEF MenuInv, DeleteProduct
    <2>2. dishes' \in [DOMAIN dishes' -> Dish]
      BY <1>1 DEF MenuInv, MenuTypeOK
    <2> QED
      BY <1>1, <1>2, <1>5, <2>1, <2>2 DEF MenuInv, MenuTypeOK
  <1>7. ASSUME NEW w \in Workers PROVE RequestStands(request[w])'
    BY <1>1, <1>2, RequestKept DEF MenuInv
  <1>8. ASSUME NEW i \in 1..Len(orders') PROVE OrderStands(orders[i])'
    <2>1. PICK o : o = orders[i]
      OBVIOUS
    <2>2. o \in Order /\ OrderStands(o) /\ orders'[i] = Detached(o, d)
      BY <1>1, <1>3, <1>5, <2>1
    <2>3. PICK n : n = Detached(o, d)
      OBVIOUS
    <2>4. SumOf(n.lines) = SumOf(o.lines)
      BY <2>2, <2>3, DetachedKeeps, SameSubtotals
    <2>5. \A j \in 1..Len(n.lines) : n.lines[j].dish \in DOMAIN dishes' \cup {Null}
      BY <1>2, <2>2, <2>3, DetachedKeeps DEF OrderStands
    <2>6. /\ n.subtotal = o.subtotal /\ n.discount = o.discount /\ n.total = o.total
          /\ n.quoted = o.quoted /\ n.stirred = o.stirred
      BY <2>2, <2>3, DetachedKeeps
    <2>7. orders'[i] = n
      BY <2>2, <2>3
    <2> QED
      BY <2>2, <2>4, <2>5, <2>6, <2>7 DEF OrderStands
  <1>9. \A e \in DOMAIN dishes' : dishes'[e].category \in categories'
    BY <1>1, <1>2 DEF MenuInv, ReferencesHold
  <1>10. ReferencesHold' /\ TotalsAddUp' /\ PreviewIsCharged'
    BY <1>8, <1>9 DEF ReferencesHold, TotalsAddUp, PreviewIsCharged, OrderStands
  <1> QED
    BY <1>6, <1>7, <1>10 DEF MenuInv

\* Every step keeps it.
LEMMA MenuStepInv == MenuInv /\ [MenuNext]_menuVars => MenuInv'
  <1> SUFFICES ASSUME MenuInv, [MenuNext]_menuVars PROVE MenuInv'
    OBVIOUS
  <1>1. ASSUME NEW c \in Categories, CreateCategory(c) PROVE MenuInv'
    BY <1>1, CategoryInv
  <1>2. ASSUME NEW d \in Dishes, CreateProduct(d) \/ UpdateProduct(d) \/ DeleteProduct(d)
        PROVE  MenuInv'
    BY <1>2, CreateProductInv, UpdateProductInv, DeleteProductInv
  <1>3. ASSUME UpdateCoupon \/ RemoveCoupon PROVE MenuInv'
    BY <1>3, CouponInv
  <1>4. ASSUME NEW w \in Workers, DeleteCategory(w) \/ ToggleAvailability(w) \/ PlaceOrder(w)
        PROVE  MenuInv'
    BY <1>4, CategoryInv, ToggleInv, PlaceOrderInv
  <1>5. ASSUME NEW w \in Workers, (\E cart \in Carts : Quote(w, cart)) \/ ReadMenu(w) \/ ReadCoupon(w)
        PROVE  MenuInv'
    BY <1>5, QuoteInv, ReadMenuInv, ReadCouponInv
  <1>6. ASSUME NEW w \in Workers, \/ \E c \in Categories : CountDishes(w, c)
                                  \/ \E d \in Dishes : ReadAvailability(w, d)
                                  \/ Abandon(w)
        PROVE  MenuInv'
    BY <1>6, OtherRequestsInv
  <1>7. CASE UNCHANGED menuVars
    <2> USE <1>7 DEF menuVars, tables, menu
    <2>1. MenuTypeOK'
      BY DEF MenuInv, MenuTypeOK
    <2>2. \A w \in Workers : RequestStands(request[w])'
      BY RequestKept DEF MenuInv
    <2> QED
      BY <2>1, <2>2, WriteInv DEF MenuInv, ReferencesHold
  <1> QED
    BY <1>1, <1>2, <1>3, <1>4, <1>5, <1>6, <1>7 DEF MenuNext

\* What MenuInv says is true of every behaviour, for all dishes, prices, carts and terms.
THEOREM MenuCorrect == MenuSpec => []MenuInv
  BY MenuInitInv, MenuStepInv, PTL DEF MenuSpec

\* No dish outside a category, no line with a dish that is gone (deleteCategory, deleteProduct).
THEOREM MenuReferences == MenuSpec => []ReferencesHold
  <1>1. MenuInv => ReferencesHold
    BY DEF MenuInv
  <1> QED
    BY <1>1, MenuCorrect, PTL

\* An order adds up (createOrder), whatever staff edit while it is computed.
THEOREM OrdersAddUp == MenuSpec => []TotalsAddUp
  <1>1. MenuInv => TotalsAddUp
    BY DEF MenuInv
  <1> QED
    BY <1>1, MenuCorrect, PTL

\* A quote that nobody stirred is what createOrder charges (validateCoupon, createOrder).
THEOREM PreviewsAreCharged == MenuSpec => []PreviewIsCharged
  <1>1. MenuInv => PreviewIsCharged
    BY DEF MenuInv
  <1> QED
    BY <1>1, MenuCorrect, PTL

\* Whatever staff do to the menu, and whenever: lines and amounts of an order are kept.
THEOREM LinesStayKept == MenuSpec => LinesAreKept
  <1> DEFINE Kept(was, is) ==
        /\ <<is.subtotal, is.discount, is.total>> = <<was.subtotal, was.discount, was.total>>
        /\ Len(is.lines) = Len(was.lines)
        /\ \A j \in 1..Len(was.lines) :
            is.lines[j] \in {was.lines[j], [was.lines[j] EXCEPT !.dish = Null]}
  <1>1. MenuInv /\ [MenuNext]_menuVars => [\A i \in 1..Len(orders) : Kept(orders[i], orders'[i])]_orders
    <2> SUFFICES ASSUME MenuInv, MenuNext, orders' # orders, NEW i \in 1..Len(orders)
                 PROVE  Kept(orders[i], orders'[i])
      BY DEF menuVars, tables
    <2>1. orders \in Seq(Order) /\ orders[i] \in Order
      BY ElementOfSeq DEF MenuInv, MenuTypeOK
    <2>2. CASE \E d \in Dishes : DeleteProduct(d)
      <3>1. PICK d \in Dishes : orders' = [k \in 1..Len(orders) |-> Detached(orders[k], d)]
        BY <2>2 DEF DeleteProduct
      <3>2. orders'[i] = Detached(orders[i], d)
        BY <3>1
      <3> QED
        BY <2>1, <3>2, DetachedKeeps
    <2>3. CASE \E w \in Workers : PlaceOrder(w)
      <3>1. orders'[i] = orders[i]
        BY <2>1, <2>3 DEF PlaceOrder
      <3> QED
        BY <3>1
    <2>4. (\E d \in Dishes : DeleteProduct(d)) \/ (\E w \in Workers : PlaceOrder(w))
      BY DEF MenuNext, CreateCategory, CreateProduct, UpdateProduct, UpdateCoupon, RemoveCoupon,
             CountDishes, DeleteCategory, ReadAvailability, ToggleAvailability, Quote, ReadMenu,
             ReadCoupon, Abandon, tables
    <2> QED
      BY <2>2, <2>3, <2>4
  <1> HIDE DEF Kept
  <1>2. MenuSpec => [][\A i \in 1..Len(orders) : Kept(orders[i], orders'[i])]_orders
    BY <1>1, MenuCorrect, PTL DEF MenuSpec
  <1> QED
    BY <1>2 DEF LinesAreKept, Kept
=============================================================================
