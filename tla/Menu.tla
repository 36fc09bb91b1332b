-------------------------------- MODULE Menu --------------------------------
(***************************************************************************)
(* The menu and what a cart costs: menu.service.ts, the price computation of *)
(* orders.createOrder and the preview of coupons.validateCoupon, over the    *)
(* rows of `categories', `products', `coupons' and `order_items'.            *)
(*                                                                           *)
(* Staff edit dishes, categories and one coupon while customers look at the  *)
(* menu, have a discount previewed and order.  Amounts are whole rupees.     *)
(* The coupon's usage count, keys, tokens and roll back are in Checkout: a   *)
(* refusal for one of them is an Abandon here.                               *)
(*                                                                           *)
(* A handler that only makes sure of a row and then writes that row, which   *)
(* must still be there, is one step.                                         *)
(***************************************************************************)
EXTENDS Integers, Sequences, Requests

CONSTANTS
    Dishes,         \* bound: products ever created
    Categories,     \* bound: categories ever created
    Recipes,        \* bound: what updateProduct may write, see Recipe
    Carts,          \* bound: what customers order, see Item
    Terms,          \* bound: what the coupon's row may say, see CouponTerms
    MaxOrders,      \* bound: orders placed
    MaxEdits,       \* bound: writes by staff
    Null

VARIABLES
    categories,     \* ids of the rows of `categories'
    dishes,         \* the rows of `products', by id
    retired,        \* ids that were deleted; cuids are not used again
    offer,          \* the row of `coupons' that staff edit, or Null
    orders,         \* the orders placed
    edits           \* bound: how often staff have written

menu == <<categories, dishes, retired>>
tables == <<menu, offer, orders>>
menuVars == <<tables, edits, request>>

-----------------------------------------------------------------------------
\* price and halfPrice, the choice of customizationOptions a cart may ask for, isActive.
Recipe == [price : Nat, half : Nat \cup {Null}, extra : Nat \cup {Null}, active : BOOLEAN]
Dish == [recipe : Recipes, available : BOOLEAN, category : Categories]

\* One item of CreateOrderDto.
Item == [dish : Dishes, portion : {"FULL", "HALF"}, extra : BOOLEAN, quantity : Nat]

\* usable: isActive and validUntil not over.
CouponTerms == [type : {"FLAT", "PERCENT"}, value : Nat, min : Nat,
                cap : Nat \cup {Null}, usable : BOOLEAN]

ASSUME BoundsAssumption ==
    /\ Recipes \subseteq Recipe
    /\ Carts \subseteq Seq(Item)
    /\ Terms \subseteq CouponTerms
    /\ MaxOrders \in Nat /\ MaxEdits \in Nat

Line == [dish : Dishes \cup {Null}, unit : Nat, quantity : Nat, subtotal : Nat]

\* What a customer's request remembers: the quote it goes by, then its prices.
Quoted == [step : {"quoted"}, cart : Carts, coupon : BOOLEAN, stirred : BOOLEAN,
           subtotal : Nat, discount : Nat]
Priced == [step : {"priced"}, cart : Carts, coupon : BOOLEAN, stirred : BOOLEAN,
           quoted : Nat \X Nat, lines : Seq(Line)]
Ordering == [step : {"commit"}, cart : Carts, coupon : BOOLEAN, stirred : BOOLEAN,
           quoted : Nat \X Nat, lines : Seq(Line), subtotal : Nat, discount : Nat]

\* And what a request of staff remembers.
Deleting == [step : {"deleteCategory"}, category : Categories]
Toggling == [step : {"toggle"}, dish : Dishes, was : BOOLEAN]

MenuRequest == IdleRequest \cup Quoted \cup Priced \cup Ordering \cup Deleting \cup Toggling

\* quoted and stirred: history, what the customer was shown and whether it may differ.
Order == [lines : Seq(Line), subtotal : Nat, discount : Nat, total : Nat,
          quoted : Nat \X Nat, stirred : BOOLEAN]

\* Shape of the state.
MenuTypeOK ==
    /\ categories \subseteq Categories
    /\ edits \in 0..MaxEdits
    /\ DOMAIN dishes \subseteq Dishes /\ dishes \in [DOMAIN dishes -> Dish]
    /\ retired \subseteq Dishes \cup Categories
    /\ offer \in Terms \cup {Null}
    /\ orders \in Seq(Order)
    /\ request \in [Workers -> MenuRequest]

\* What the seed leaves, or a menu that is still empty: dishes on sale in a category, and
\* a coupon that can be used.
MenuInit ==
    /\ \E c \in Categories, D \in {{}, Dishes} :
        /\ categories = {c}
        /\ dishes \in [D -> [recipe : Recipes, available : {TRUE}, category : {c}]]
    /\ retired = {}
    /\ offer \in {t \in Terms : t.usable}
    /\ orders = <<>>
    /\ edits = 0
    /\ request = [w \in Workers |-> Idle]

Edit == edits < MaxEdits /\ edits' = edits + 1

TakeUp(w, r) == request[w] = Idle /\ Serve(w, r)

-----------------------------------------------------------------------------
(* Staff: categories *)

CreateCategory(c) ==
    /\ Edit
    /\ c \notin categories \cup retired
    /\ categories' = categories \cup {c}
    /\ UNCHANGED <<dishes, retired, offer, orders, request>>

DishesIn(c) == {d \in DOMAIN dishes : dishes[d].category = c}

\* The count of the category's products ...
CountDishes(w, c) ==
    /\ c \in categories
    /\ DishesIn(c) = {}
    /\ TakeUp(w, [step |-> "deleteCategory", category |-> c])
    /\ UNCHANGED <<tables, edits>>

\* MUTANT of Deletable: the count is trusted.
DeletableAsCounted(c) == c \in categories

\* ... and onDelete: Restrict of the key that products hold.
Deletable(c) == c \in categories /\ DishesIn(c) = {}

DeleteCategory(w) ==
    LET c == request[w].category IN
    /\ request[w].step = "deleteCategory" /\ Edit
    /\ Deletable(c)
    /\ categories' = categories \ {c}
    /\ retired' = retired \cup {c}
    /\ Serve(w, Idle)
    /\ UNCHANGED <<dishes, offer, orders>>

-----------------------------------------------------------------------------
(* Staff: dishes *)

With(d, row) == [e \in DOMAIN dishes \cup {d} |-> IF e = d THEN row ELSE dishes[e]]

\* history: the quotes that a write no longer lets bind.
Stir(stirred) ==
    request' = [w \in Workers |-> IF w \in stirred THEN [request[w] EXCEPT !.stirred = TRUE]
                                                   ELSE request[w]]

\* Customers whose quote is still to be priced and names the dish.
Quotes(d) ==
    {w \in Workers : /\ request[w].step = "quoted"
                     /\ \E i \in 1..Len(request[w].cart) : request[w].cart[i].dish = d}

\* MUTANT of InCategory: the category is not looked up and no key is checked.
InAnyCategory(c) == c \in Categories

\* The lookup of createProduct, and the key of updateProduct's connect.
InCategory(c) == c \in categories

CreateProduct(d) ==
    /\ Edit
    /\ d \notin DOMAIN dishes \cup retired
    /\ \E p \in Recipes, c \in Categories :
        /\ InCategory(c)
        /\ dishes' = With(d, [recipe |-> p, available |-> TRUE, category |-> c])
    /\ UNCHANGED <<categories, retired, offer, orders, request>>

UpdateProduct(d) ==
    /\ Edit
    /\ d \in DOMAIN dishes
    /\ \E row \in Dish :
        /\ InCategory(row.category)
        /\ row # dishes[d]
        /\ dishes' = With(d, row)
    /\ Stir(Quotes(d))
    /\ UNCHANGED <<categories, retired, offer, orders>>

ReadAvailability(w, d) ==
    /\ d \in DOMAIN dishes
    /\ TakeUp(w, [step |-> "toggle", dish |-> d, was |-> dishes[d].available])
    /\ UNCHANGED <<tables, edits>>

\* The opposite of what was read, over whatever is there.
ToggleAvailability(w) ==
    LET r == request[w] IN
    /\ r.step = "toggle" /\ Edit
    /\ r.dish \in DOMAIN dishes
    /\ dishes' = With(r.dish, [dishes[r.dish] EXCEPT !.available = ~r.was])
    /\ Serve(w, Idle)
    /\ UNCHANGED <<categories, retired, offer, orders>>

\* MUTANT of Detached: the lines of a deleted dish are deleted with it.
Cascaded(o, d) == [o EXCEPT !.lines = SelectSeq(@, LAMBDA l : l.dish # d)]

\* onDelete: SetNull of the key that order lines hold.
Detached(o, d) ==
    [o EXCEPT !.lines = [i \in 1..Len(@) |->
                            IF @[i].dish = d THEN [@[i] EXCEPT !.dish = Null] ELSE @[i]]]

DeleteProduct(d) ==
    /\ Edit
    /\ d \in DOMAIN dishes
    /\ dishes' = [e \in DOMAIN dishes \ {d} |-> dishes[e]]
    /\ retired' = retired \cup {d}
    /\ orders' = [i \in 1..Len(orders) |-> Detached(orders[i], d)]
    /\ UNCHANGED <<categories, offer, request>>

-----------------------------------------------------------------------------
(* Staff: the coupon *)

\* updateCoupon, toggleCoupon, and time that passes validUntil.
UpdateCoupon ==
    /\ Edit
    /\ offer # Null
    /\ offer' \in Terms \ {offer}
    /\ Stir({w \in Workers : request[w].step \in {"quoted", "priced"} /\ request[w].coupon})
    /\ UNCHANGED <<menu, orders>>

RemoveCoupon ==
    /\ Edit
    /\ offer # Null
    /\ offer' = Null
    /\ UNCHANGED <<menu, orders, request>>

-----------------------------------------------------------------------------
(* What a cart costs *)

\* The checks of createOrder: the dish is there and on sale, the quantity in range, the
\* portion and the customization on offer.
Orderable(item) ==
    /\ item.dish \in DOMAIN dishes
    /\ item.quantity \in 1..20
    /\ LET row == dishes[item.dish] IN
        /\ row.recipe.active /\ row.available
        /\ item.portion = "HALF" => row.recipe.half # Null
        /\ item.extra => row.recipe.extra # Null

OrderLine(item, recipe) ==
    LET base == IF item.portion = "HALF" THEN recipe.half ELSE recipe.price
        unit == base + (IF item.extra THEN recipe.extra ELSE 0) IN
    [dish |-> item.dish, unit |-> unit, quantity |-> item.quantity,
     subtotal |-> unit * item.quantity]

OrderLines(cart) == [i \in 1..Len(cart) |-> OrderLine(cart[i], dishes[cart[i].dish].recipe)]

\* subtotal += itemSubtotal, item after item.
Sum(amounts) ==
    LET sum[n \in 0..Len(amounts)] == IF n = 0 THEN 0 ELSE sum[n - 1] + amounts[n]
    IN  sum[Len(amounts)]

SumOf(lines) == Sum([i \in 1..Len(lines) |-> lines[i].subtotal])

Least(a, b) == IF a < b THEN a ELSE b

\* Math.round(n / 100)
RoundPercent(n) == (n + 50) \div 100

\* validateCoupon's part of the price: Null when it is refused.
Preview(t, subtotal) ==
    IF t = Null \/ ~t.usable \/ subtotal < t.min THEN Null
    ELSE IF t.type = "FLAT" THEN Least(t.value, subtotal)
    ELSE LET part == RoundPercent(subtotal * t.value) IN
         IF t.cap = Null THEN part ELSE Least(part, t.cap)

\* MUTANT of Discount: the cap is not applied.
DiscountUncapped(t, subtotal) ==
    IF t.type = "FLAT" THEN Least(t.value, subtotal) ELSE RoundPercent(subtotal * t.value)

\* createOrder's part of the price.
Discount(t, subtotal) ==
    IF t.type = "FLAT" THEN Least(t.value, subtotal)
    ELSE LET part == RoundPercent(subtotal * t.value) IN
         IF t.cap = Null THEN part ELSE Least(part, t.cap)

Applies(t, subtotal) == t # Null /\ t.usable /\ subtotal >= t.min

\* No delivery fee and no tax; a percentage above 100 may exceed the subtotal.
Total(subtotal, discount) ==
    IF discount > subtotal THEN 0 ELSE subtotal - discount

-----------------------------------------------------------------------------
(* Customers *)

\* The customer sees the menu and, for a coupon, its preview.
Quote(w, cart) ==
    LET subtotal == SumOf(OrderLines(cart)) IN
    /\ \A i \in 1..Len(cart) : Orderable(cart[i])
    /\ \E with \in BOOLEAN :
        /\ with => Preview(offer, subtotal) # Null
        /\ TakeUp(w, [step |-> "quoted", cart |-> cart, coupon |-> with, stirred |-> FALSE,
                      subtotal |-> subtotal,
                      discount |-> IF with THEN Preview(offer, subtotal) ELSE 0])
    /\ UNCHANGED <<tables, edits>>

\* findMany reads the dishes of the cart once; checks and prices are of what it read.
ReadMenu(w) ==
    LET r == request[w] IN
    /\ r.step = "quoted"
    /\ \A i \in 1..Len(r.cart) : Orderable(r.cart[i])
    /\ Serve(w, [step |-> "priced", cart |-> r.cart, coupon |-> r.coupon, stirred |-> r.stirred,
                 quoted |-> <<r.subtotal, r.discount>>, lines |-> OrderLines(r.cart)])
    /\ UNCHANGED <<tables, edits>>

ReadCoupon(w) ==
    LET r == request[w]
        subtotal == SumOf(r.lines) IN
    /\ r.step = "priced"
    /\ r.coupon => Applies(offer, subtotal)
    /\ Serve(w, [step |-> "commit", cart |-> r.cart, coupon |-> r.coupon, stirred |-> r.stirred,
                 quoted |-> r.quoted, lines |-> r.lines, subtotal |-> subtotal,
                 discount |-> IF r.coupon THEN Discount(offer, subtotal) ELSE 0])
    /\ UNCHANGED <<tables, edits>>

\* MUTANT of Snapshot: the lines are looked up again as they are written.
Reread(r) == OrderLines(r.cart)

\* The lines written are those the prices were computed from.
Snapshot(r) == r.lines

\* The rows that the order points at must still be there.
PlaceOrder(w) ==
    LET r == request[w] IN
    /\ r.step = "commit"
    /\ Len(orders) < MaxOrders
    /\ \A i \in 1..Len(r.cart) : r.cart[i].dish \in DOMAIN dishes
    /\ r.coupon => offer # Null
    /\ orders' = Append(orders, [lines |-> Snapshot(r), subtotal |-> r.subtotal,
                                 discount |-> r.discount,
                                 total |-> Total(r.subtotal, r.discount),
                                 quoted |-> r.quoted, stirred |-> r.stirred])
    /\ Serve(w, Idle)
    /\ UNCHANGED <<menu, offer, edits>>

\* A check fails, a row is gone, a call throws or the customer leaves.
Abandon(w) ==
    /\ request[w] # Idle
    /\ Serve(w, Idle)
    /\ UNCHANGED <<tables, edits>>

MenuNext ==
    \/ \E c \in Categories : CreateCategory(c)
    \/ \E d \in Dishes : CreateProduct(d) \/ UpdateProduct(d) \/ DeleteProduct(d)
    \/ UpdateCoupon \/ RemoveCoupon
    \/ \E w \in Workers :
        \/ \E c \in Categories : CountDishes(w, c)
        \/ DeleteCategory(w)
        \/ \E d \in Dishes : ReadAvailability(w, d)
        \/ ToggleAvailability(w)
        \/ \E cart \in Carts : Quote(w, cart)
        \/ ReadMenu(w) \/ ReadCoupon(w) \/ PlaceOrder(w)
        \/ Abandon(w)

MenuSpec == MenuInit /\ [][MenuNext]_menuVars

-----------------------------------------------------------------------------
(* Properties *)

\* Every dish is in a category that exists, though deleteCategory counts before it
\* deletes, and a line names a dish that exists or none.
ReferencesHold ==
    /\ \A d \in DOMAIN dishes : dishes[d].category \in categories
    /\ \A i \in 1..Len(orders) : \A j \in 1..Len(orders[i].lines) :
            orders[i].lines[j].dish \in DOMAIN dishes \cup {Null}

\* The lines of an order are a snapshot (prisma/schema.prisma:341): no edit of the menu
\* and no deletion changes more of a line than that it loses its dish.
LinesAreKept ==
    [][\A i \in 1..Len(orders) :
        LET was == orders[i]
            is == orders'[i] IN
        /\ <<is.subtotal, is.discount, is.total>> = <<was.subtotal, was.discount, was.total>>
        /\ Len(is.lines) = Len(was.lines)
        /\ \A j \in 1..Len(was.lines) :
            is.lines[j] \in {was.lines[j], [was.lines[j] EXCEPT !.dish = Null]}]_orders

\* An order is what its lines say, less the discount, and never negative, though menu and
\* coupon change while it is computed.
TotalsAddUp ==
    \A i \in 1..Len(orders) :
        LET o == orders[i] IN
        /\ o.subtotal = SumOf(o.lines)
        /\ o.total >= 0
        /\ o.discount <= o.subtotal => o.total + o.discount = o.subtotal

\* A customer pays what the menu and validateCoupon showed, unless a dish of the cart was
\* edited before createOrder read it or the coupon before createOrder read that.
PreviewIsCharged ==
    \A i \in 1..Len(orders) :
        LET o == orders[i] IN
        o.stirred \/ o.quoted = <<o.subtotal, o.discount>>

(* What the proofs need besides. *)

\* The coupon, while it is there, takes off what was shown.
OfferStands(with, subtotal, discount) ==
    /\ ~with => discount = 0
    /\ with /\ offer # Null => Applies(offer, subtotal) /\ discount = Discount(offer, subtotal)

\* An unstirred quote is what createOrder will compute, unless a dish of the cart is gone,
\* and then it is gone for good.
QuoteStands(r) ==
    r.step = "quoted" =>
        /\ \A i \in 1..Len(r.cart) : r.cart[i].dish \in DOMAIN dishes \cup retired
        /\ ~r.stirred =>
            /\ OfferStands(r.coupon, r.subtotal, r.discount)
            /\ (\A i \in 1..Len(r.cart) : r.cart[i].dish \in DOMAIN dishes)
                 => r.subtotal = SumOf(OrderLines(r.cart))

\* The lines computed are the cart's.
LinesAreOf(cart, lines) ==
    Len(lines) = Len(cart) /\ \A i \in 1..Len(cart) : lines[i].dish = cart[i].dish

\* Once the dishes are read their edits matter no more; those of the coupon still do.
PriceStands(r) ==
    r.step = "priced" =>
        /\ LinesAreOf(r.cart, r.lines)
        /\ ~r.stirred => r.quoted[1] = SumOf(r.lines) /\ OfferStands(r.coupon, r.quoted[1], r.quoted[2])

\* What is about to be written agrees with itself and with what was shown.
OrderIsReady(r) ==
    r.step = "commit" =>
        /\ LinesAreOf(r.cart, r.lines)
        /\ r.subtotal = SumOf(r.lines)
        /\ ~r.stirred => r.quoted = <<r.subtotal, r.discount>>

RequestStands(r) == QuoteStands(r) /\ PriceStands(r) /\ OrderIsReady(r)

\* The inductive invariant behind ReferencesHold, TotalsAddUp and PreviewIsCharged: what a
\* request of createOrder remembers between its awaits stays true of the menu, or is stirred.
MenuInv ==
    /\ MenuTypeOK
    /\ \A w \in Workers : RequestStands(request[w])
    /\ ReferencesHold
    /\ TotalsAddUp
    /\ PreviewIsCharged
=============================================================================
