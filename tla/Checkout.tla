------------------------------ MODULE Checkout ------------------------------
(***************************************************************************)
(* Carts, coupons and the placing of orders.  A request loads the session  *)
(* when it begins, works on its own copy, and when it ends stores the      *)
(* whole copy, if it differs from what was loaded, before its answer       *)
(* leaves: of two requests of a session that overlap, the one that stores  *)
(* last wins, and a process that dies in between has stored what nobody is *)
(* told.  The coupon is read when the totals are computed and counted only *)
(* after the order exists.                                                 *)
(*                                                                         *)
(* What happens to an order after it is placed is module Orders.  Products *)
(* here are pairs of product and variant, and there is one coupon code.    *)
(***************************************************************************)
EXTENDS Integers, FiniteSets, FiniteSetsExt, Sequences

CONSTANTS
  Sessions,     \* browsers
  Requests,     \* requests being served at once
  Products,
  Quantities,   \* quantities the cart form may ask for
  Listings,     \* what an administrator may make of a product
  Fees,         \* shipping fees: getShippingFee over the states
  Coupons,      \* what the coupon of the shop may be; maxUses 0 stands for null
  MaxBegun,     \* bound: requests
  MaxEdits,     \* bound: changes of a product or of the coupon
  MaxFailures   \* bound: requests or calls that fail

ASSUME CheckoutAssumption ==
  /\ IsFiniteSet(Requests) /\ IsFiniteSet(Products)
  /\ Quantities \subseteq Nat \ {0}
  /\ Listings \subseteq [price : Nat, stock : Nat, active : BOOLEAN]
  /\ Fees \subseteq Nat
  /\ Coupons \subseteq [discountType : {"percentage", "fixed"}, discountValue : Nat,
                        minOrderValue : Nat, maxUses : Nat]
  /\ MaxBegun \in Nat /\ MaxEdits \in Nat /\ MaxFailures \in Nat

VARIABLES
  product,  \* product[p]: its listing
  coupon,   \* what the coupon is; it never changes
  valid,    \* the coupon is active and has not expired
  used,     \* its usedCount
  session,  \* session[s]: what the store holds; bare while no cart was ever set
  request,  \* request[r]: a request being served
  orders,   \* the orders created, in order of creation
  wanted,   \* wanted[s][p]: units of p put into the stored cart of s, less those taken out
  torn,     \* torn[s]: requests of s have overlapped, or one could not store its session
  begun,    \* requests so far
  edits,    \* changes so far
  failures  \* failures so far

vars == <<product, coupon, valid, used, session, request, orders, wanted, torn,
          begun, edits, failures>>

Empty == [p \in Products |-> 0]
NewSession == [cart |-> Empty, bare |-> TRUE, couponCode |-> "none"]
Cleared == [cart |-> Empty, bare |-> FALSE, couponCode |-> "none"]
Idle == [pc |-> "idle"]

Init ==
  /\ product \in [Products -> Listings]
  /\ coupon \in Coupons
  /\ valid = TRUE /\ used = 0
  /\ session = [s \in Sessions |-> NewSession]
  /\ request = [r \in Requests |-> Idle]
  /\ orders = <<>>
  /\ wanted = [s \in Sessions |-> Empty]
  /\ torn = [s \in Sessions |-> FALSE]
  /\ begun = 0 /\ edits = 0 /\ failures = 0

catalogue == <<product, coupon, valid, used, edits>>

----------------------------------------------------------------------------
(* Money: whole naira, halves rounded up.                                  *)

Round(num, den) == (2 * num + den) \div (2 * den)
Least(a, b) == IF a <= b THEN a ELSE b

\* What the cart amounts to: quantities are cut down to the stock, and what is not
\* on sale any more is dropped.
Hydrated(cart) == [p \in Products |->
                     IF product[p].active THEN Least(cart[p], product[p].stock) ELSE 0]
Subtotal(items) == MapThenSumSet(LAMBDA p : items[p] * product[p].price, Products)

\* Slip: the limit counts as reached only when it has been passed.
CouponValidOffByOne(subtotal) ==
  valid /\ (coupon.maxUses = 0 \/ used <= coupon.maxUses) /\ subtotal >= coupon.minOrderValue

CouponValid(subtotal) ==
  valid /\ (coupon.maxUses = 0 \/ used < coupon.maxUses) /\ subtotal >= coupon.minOrderValue

\* Slip: the discount is not cut down to the subtotal.
DiscountUncut(subtotal) ==
  IF coupon.discountType = "percentage" THEN Round(subtotal * coupon.discountValue, 100)
                                        ELSE coupon.discountValue

Discount(subtotal) ==
  Least(IF coupon.discountType = "percentage" THEN Round(subtotal * coupon.discountValue, 100)
                                              ELSE coupon.discountValue, subtotal)

Tax(amount) == Round(amount * 75, 1000)

\* computeTotals
Totals(subtotal, discount, fee) ==
  LET taxable == IF subtotal > discount THEN subtotal - discount ELSE 0 IN
  [subtotal |-> subtotal, discount |-> discount, tax |-> Tax(taxable), shippingFee |-> fee,
   total |-> taxable + Tax(taxable) + fee]

----------------------------------------------------------------------------
(* The session of a request.                                               *)

Fails == failures < MaxFailures /\ failures' = failures + 1
Goes(r, pc) == request' = [request EXCEPT ![r].pc = pc]
Handles(r) == UNCHANGED <<catalogue, session, orders, wanted, torn, begun, failures>>

Active(s) == {r \in Requests : request[r] # Idle /\ request[r].session = s}

Begin(r, s) ==
  /\ request[r] = Idle /\ begun < MaxBegun
  /\ request' = [request EXCEPT ![r] =
       [pc |-> "loaded", session |-> s, read |-> session[s], own |-> session[s], op |-> "none",
        items |-> Empty, totals |-> Totals(0, 0, 0), coded |-> FALSE, order |-> 0]]
  /\ torn' = [torn EXCEPT ![s] = @ \/ Active(s) # {}]
  /\ begun' = begun + 1
  /\ UNCHANGED <<catalogue, session, orders, wanted, failures>>

Changed(r) == request[r].own # request[r].read

\* The copy is stored, if the request has changed it, while the answer is held back.
Store(r) ==
  LET j == request[r] IN
  /\ j.pc = "ending" /\ Changed(r)
  /\ session' = [session EXCEPT ![j.session] = j.own]
  /\ wanted' = IF j.op = "edit"
               THEN [wanted EXCEPT ![j.session] =
                       [p \in Products |-> @[p] + j.own.cart[p] - j.read.cart[p]]]
               ELSE wanted
  /\ Goes(r, "stored")
  /\ UNCHANGED <<catalogue, orders, torn, begun, failures>>

\* The store is down: the answer leaves all the same.
StoreFails(r) ==
  /\ request[r].pc = "ending" /\ Changed(r)
  /\ torn' = [torn EXCEPT ![request[r].session] = TRUE]
  /\ Goes(r, "stored")
  /\ Fails
  /\ UNCHANGED <<catalogue, session, orders, wanted, begun>>

\* The answer leaves, and the customer knows of the order it confirms.
Answer(r) ==
  LET j == request[r] IN
  /\ j.pc = "stored" \/ (j.pc = "ending" /\ ~Changed(r))
  /\ orders' = IF j.op = "placed" THEN [orders EXCEPT ![j.order].acked = TRUE] ELSE orders
  /\ request' = [request EXCEPT ![r] = Idle]
  /\ UNCHANGED <<catalogue, session, wanted, torn, begun, failures>>

\* A call throws where only next(err) catches it: the 500 stores the copy as it stands.
\* An edit changes its copy before it awaits anything, so that whether it then throws or
\* renders its page it is "ending" with the same copy.
Throws(r) ==
  /\ request[r].pc \in {"loaded", "hydrated", "priced", "created", "counted"}
  /\ Goes(r, "ending")
  /\ Fails
  /\ UNCHANGED <<catalogue, session, orders, wanted, torn, begun>>

\* The process dies, at any point of the request: what it has stored stays stored.
Dies(r) ==
  /\ request[r] # Idle
  /\ request' = [request EXCEPT ![r] = Idle]
  /\ Fails
  /\ UNCHANGED <<catalogue, session, orders, wanted, torn, begun>>

----------------------------------------------------------------------------
(* Pages that only show the cart, and those that edit it.                  *)

Show(r) == request[r].pc = "loaded" /\ Goes(r, "ending") /\ Handles(r)

Puts(r, p, q) ==
  /\ request[r].pc = "loaded"
  /\ request' = [request EXCEPT ![r].own.cart[p] = q, ![r].own.bare = FALSE,
                                ![r].op = "edit", ![r].pc = "ending"]
  /\ Handles(r)

AddItem(r, p, q) == Puts(r, p, request[r].own.cart[p] + q)
UpdateItem(r, p, q) == Puts(r, p, IF request[r].own.cart[p] > 0 THEN q ELSE 0)

\* Slip: one unit is taken out, whether or not there is one.
RemoveUnit(r, p) == Puts(r, p, request[r].own.cart[p] - 1)

RemoveItem(r, p) == Puts(r, p, 0)

----------------------------------------------------------------------------
(* applyCoupon and the two ways of placing an order.                       *)

\* hydrateCart: the products of the cart, at the prices of now.
Hydrate(r, op, fee) ==
  LET items == Hydrated(request[r].own.cart) IN
  /\ request[r].pc = "loaded" /\ items # Empty
  /\ request' = [request EXCEPT ![r].pc = "hydrated", ![r].op = op, ![r].items = items,
                                ![r].totals = Totals(Subtotal(items), 0, fee)]
  /\ Handles(r)

\* Nothing to order: 400.
RefuseEmpty(r) ==
  /\ request[r].pc = "loaded" /\ Hydrated(request[r].own.cart) = Empty
  /\ Goes(r, "ending")
  /\ Handles(r)

\* The subtotal a code is tried on may be that of an empty cart.
TryCoupon(r) ==
  LET items == Hydrated(request[r].own.cart) IN
  /\ request[r].pc = "loaded"
  /\ request' = [request EXCEPT ![r].pc = "hydrated", ![r].op = "coupon",
                                ![r].totals = Totals(Subtotal(items), 0, 0)]
  /\ Handles(r)

\* applyCoupon: a code that is valid now goes into the session, and so does the blank,
\* which is valid always; any other is a 400.
ApplyCoupon(r, code) ==
  LET j == request[r] IN
  /\ j.pc = "hydrated" /\ j.op = "coupon"
  /\ request' = [request EXCEPT ![r].pc = "ending",
       ![r].own.couponCode = IF code = "" \/ CouponValid(j.totals.subtotal) THEN code ELSE @]
  /\ Handles(r)

\* computeTotals: the code of the session is validated again, and one that does not
\* pass any more is left out of the order.
ComputeTotals(r) ==
  LET j == request[r]
      applies == j.own.couponCode = "code" /\ CouponValid(j.totals.subtotal)
      discount == IF applies THEN Discount(j.totals.subtotal) ELSE 0
  IN
  /\ j.pc = "hydrated" /\ j.op \in {"order", "whatsapp"}
  /\ request' = [request EXCEPT ![r].pc = "priced", ![r].coded = applies,
       ![r].totals = Totals(j.totals.subtotal, discount, j.totals.shippingFee)]
  /\ Handles(r)

\* The provider asked for is not switched on: 400.
RefuseProvider(r) ==
  /\ request[r].pc = "priced" /\ request[r].op = "order"
  /\ Goes(r, "ending")
  /\ Handles(r)

CreateOrder(r) ==
  LET j == request[r] IN
  /\ j.pc = "priced"
  /\ orders' = Append(orders, [session |-> j.session, items |-> j.items, totals |-> j.totals,
                               coded |-> j.coded, acked |-> FALSE])
  /\ request' = [request EXCEPT ![r].pc = "created", ![r].order = Len(orders) + 1]
  /\ UNCHANGED <<catalogue, session, wanted, torn, begun, failures>>

Counts(r, by) ==
  /\ request[r].pc = "created"
  /\ used' = used + by
  /\ Goes(r, "counted")
  /\ UNCHANGED <<product, coupon, valid, edits, session, orders, wanted, torn, begun, failures>>

\* Slip: a use beyond the limit is not counted.
RecordUseUpToLimit(r) ==
  Counts(r, IF request[r].coded /\ (coupon.maxUses = 0 \/ used < coupon.maxUses) THEN 1 ELSE 0)

\* recordCouponUse: $inc, when a coupon was applied.
RecordUse(r) == Counts(r, IF request[r].coded THEN 1 ELSE 0)

\* Slip: the cart is cleared before the payment is opened.
InitiateFailsCleared(r) ==
  /\ request[r].pc = "counted" /\ request[r].op = "order"
  /\ request' = [request EXCEPT ![r].pc = "ending", ![r].own = Cleared]
  /\ Handles(r)

\* The provider does not open a payment page: 502, the order stays and so does the cart.
InitiateFails(r) ==
  /\ request[r].pc = "counted" /\ request[r].op = "order"
  /\ Goes(r, "ending")
  /\ Handles(r)

\* Slip: only the coupon is taken out of the session.
PlacedCartKept(r) ==
  /\ request[r].pc = "counted"
  /\ request' = [request EXCEPT ![r].pc = "ending", ![r].op = "placed",
                                ![r].own.couponCode = "none"]
  /\ Handles(r)

\* The payment page is open and its reference saved, or the WhatsApp message is
\* ready: the cart is cleared and the answer will be 201.
Placed(r) ==
  /\ request[r].pc = "counted"
  /\ request' = [request EXCEPT ![r].pc = "ending", ![r].op = "placed", ![r].own = Cleared]
  /\ Handles(r)

----------------------------------------------------------------------------
(* Administrators.                                                         *)

EditProduct(p, l) ==
  /\ edits < MaxEdits /\ product[p] # l
  /\ product' = [product EXCEPT ![p] = l]
  /\ edits' = edits + 1
  /\ UNCHANGED <<coupon, valid, used, session, request, orders, wanted, torn, begun, failures>>

\* toggleActive; an expiry date that passes does the same.
ToggleCoupon ==
  /\ edits < MaxEdits
  /\ valid' = ~valid
  /\ edits' = edits + 1
  /\ UNCHANGED <<product, coupon, used, session, request, orders, wanted, torn, begun, failures>>

----------------------------------------------------------------------------
EditCart(r) == \/ Show(r)
               \/ \E p \in Products, q \in Quantities : AddItem(r, p, q) \/ UpdateItem(r, p, q)
               \/ \E p \in Products : RemoveItem(r, p)
Place(r) == \/ \E op \in {"order", "whatsapp"}, fee \in Fees : Hydrate(r, op, fee)
            \/ RefuseEmpty(r) \/ ComputeTotals(r) \/ RefuseProvider(r) \/ CreateOrder(r)
            \/ RecordUse(r) \/ InitiateFails(r) \/ Placed(r)
Try(r) == TryCoupon(r) \/ \E code \in {"", "code"} : ApplyCoupon(r, code)

Next == \/ \E r \in Requests : \/ \E s \in Sessions : Begin(r, s)
                              \/ EditCart(r) \/ Try(r) \/ Place(r)
                              \/ Store(r) \/ StoreFails(r) \/ Answer(r)
                              \/ Throws(r) \/ Dies(r)
        \/ \E p \in Products, l \in Listings : EditProduct(p, l)
        \/ ToggleCoupon

Spec == Init /\ [][Next]_vars

----------------------------------------------------------------------------
(* Properties.                                                             *)

Session == [cart : [Products -> Nat], bare : BOOLEAN, couponCode : {"none", "", "code"}]
Amounts == [subtotal : Nat, discount : Nat, tax : Nat, shippingFee : Nat, total : Nat]
Job == [pc : {"loaded", "hydrated", "priced", "created", "counted", "ending", "stored"},
        session : Sessions, read : Session, own : Session,
        op : {"none", "edit", "coupon", "order", "whatsapp", "placed"},
        items : [Products -> Nat], totals : Amounts, coded : BOOLEAN, order : Nat]
Order == [session : Sessions, items : [Products -> Nat], totals : Amounts, coded : BOOLEAN,
          acked : BOOLEAN]

\* Every variable keeps its type; no cart holds a negative quantity.
TypeOK ==
  /\ product \in [Products -> Listings] /\ coupon \in Coupons
  /\ valid \in BOOLEAN /\ used \in Nat
  /\ session \in [Sessions -> Session]
  /\ request \in [Requests -> Job \cup {Idle}]
  /\ orders \in Seq(Order)
  /\ wanted \in [Sessions -> [Products -> Int]]
  /\ torn \in [Sessions -> BOOLEAN]
  /\ begun \in Nat /\ edits \in Nat /\ failures \in Nat

Coded == {i \in DOMAIN orders : orders[i].coded}
Counting == {r \in Requests : request[r].pc = "created" /\ request[r].coded}

\* The limit of a coupon is read long before the use is counted, so it can be passed, but
\* by no more orders than there were other requests at once and requests that failed.
CouponOverrun ==
  coupon.maxUses > 0 =>
    Cardinality(Coded) < coupon.maxUses + Cardinality(Requests) + failures

\* Each order with the coupon is counted once: now, by the request that has just created
\* it, or never if that request failed; and nothing else is counted.
CouponCounted ==
  /\ used <= Cardinality(Coded)
  /\ Cardinality(Coded) <= used + Cardinality(Counting) + failures

\* The amounts of an order add up to what is charged, with the discount within the
\* subtotal, the tax the nearest naira to 7.5%, and the coupon's minimum met.
TotalsAddUp ==
  \A i \in DOMAIN orders :
    LET t == orders[i].totals
        taxable == t.subtotal - t.discount
    IN /\ t.discount <= t.subtotal
       /\ t.total = taxable + t.tax + t.shippingFee
       /\ 1000 * t.tax - 75 * taxable \in -499..500
       /\ IF orders[i].coded THEN t.subtotal >= coupon.minOrderValue ELSE t.discount = 0

\* Unless requests of a session overlap or its store fails, what a customer was told is
\* ordered and what is still in the cart is together no more than was put there,
\* through any number of refused, failed and repeated checkouts.
Ordered(s, p) ==
  MapThenSumSet(LAMBDA i : orders[i].items[p],
                {i \in DOMAIN orders : orders[i].session = s /\ orders[i].acked})
OrderedOnce ==
  \A s \in Sessions, p \in Products :
    torn[s] \/ Ordered(s, p) + session[s].cart[p] <= wanted[s][p]

\* A cart does not vanish from the store: the customer has emptied it, or a request whose
\* payment could be opened clears it, with an order on record that is made of that very
\* cart.  A refused or failed checkout leaves it alone.  The answer leaves later: if the
\* process dies before, the cart is gone and the order is one the customer never hears of.
OfCart(items, cart) == items # Empty /\ \A p \in Products : items[p] <= cart[p]
CartKeptUntilOrdered ==
  [][\A s \in Sessions :
       ~torn[s] /\ session[s].cart # Empty /\ session'[s].cart = Empty =>
         \E r \in Active(s) :
           \/ request[r].op = "edit"
           \/ /\ request[r].op = "placed"
              /\ OfCart(orders[request[r].order].items, session[s].cart)]_vars
=============================================================================
