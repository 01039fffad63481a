----------------------- MODULE CheckoutTotalsProofs ------------------------
(***************************************************************************)
(* Proofs about the amounts and the quantities of Checkout: sums over the  *)
(* products of a cart and over the orders of a session.                    *)
(*                                                                         *)
(* Amounts: a request that is priced carries totals that add up, and the   *)
(* order it creates takes them over unchanged.                             *)
(*                                                                         *)
(* Quantities: a request never takes more of a product to its order than   *)
(* was in the cart it read, and it has cleared that cart, in its copy and  *)
(* then in the store, by the time the customer is told.                    *)
(***************************************************************************)
EXTENDS CheckoutProofs, SumProofs

----------------------------------------------------------------------------
(* Money.                                                                  *)

\* What is rounded is a natural number again.
LEMMA RoundHundred ==
  ASSUME NEW n \in Nat
  PROVE  Round(n, 100) \in Nat
BY DEF Round

\* The tax is 7.5 per cent, to the nearest naira.
TaxNear(n) == Tax(n) \in Nat /\ 1000 * Tax(n) - 75 * n \in -499..500

LEMMA TaxRounds ==
  ASSUME NEW n \in Nat
  PROVE  TaxNear(n)
<1> DEFINE m == 2 * (n * 75) + 1000
           q == m \div 2000
<1>1. m \in Nat /\ m = 150 * n + 1000 /\ Tax(n) = q
  BY DEF Tax, Round
<1> HIDE DEF m
<1>2. q \in Nat /\ 2000 * q <= m /\ m < 2000 * q + 2000
  BY <1>1
<1> HIDE DEF q
<1>3. QED
  BY <1>1, <1>2 DEF TaxNear

\* No discount is larger than what it is taken off.
LEMMA DiscountCut ==
  ASSUME coupon \in Coupons, NEW n \in Nat
  PROVE  Discount(n) \in Nat /\ Discount(n) <= n
<1> DEFINE d == IF coupon.discountType = "percentage"
                THEN Round(n * coupon.discountValue, 100) ELSE coupon.discountValue
           k == n * coupon.discountValue
<1>1. coupon.discountValue \in Nat
  BY CheckoutAssumption
<1>2. k \in Nat
  BY <1>1
<1>3. d \in Nat
  <2> HIDE DEF k
  <2>1. Round(k, 100) \in Nat
    BY <1>2, RoundHundred
  <2>2. QED
    BY <1>1, <2>1 DEF k
<1>4. Discount(n) = Least(d, n)
  BY DEF Discount
<1> HIDE DEF d
<1>5. QED
  BY <1>3, <1>4 DEF Least

\* What the amounts of an order must satisfy, when the coupon asks for `least`.
Right(t, coded, least) ==
  LET taxable == t.subtotal - t.discount IN
  /\ t.discount <= t.subtotal
  /\ t.total = taxable + t.tax + t.shippingFee
  /\ 1000 * t.tax - 75 * taxable \in -499..500
  /\ IF coded THEN t.subtotal >= least ELSE t.discount = 0

LEMMA TotalsRight ==
  ASSUME NEW s \in Nat, NEW d \in Nat, NEW fee \in Nat, d <= s, NEW least \in Nat
  PROVE  /\ Totals(s, d, fee) \in Amounts
         /\ Totals(s, d, fee).subtotal = s /\ Totals(s, d, fee).shippingFee = fee
         /\ \A coded \in BOOLEAN :
              (IF coded THEN s >= least ELSE d = 0)
                => Right(Totals(s, d, fee), coded, least)
<1> DEFINE taxable == IF s > d THEN s - d ELSE 0
           t == Totals(s, d, fee)
<1>1. taxable \in Nat /\ taxable = s - d
  OBVIOUS
<1>2. /\ t.subtotal = s /\ t.discount = d /\ t.tax = Tax(taxable) /\ t.shippingFee = fee
      /\ t.total = taxable + Tax(taxable) + fee
      /\ t = [subtotal |-> s, discount |-> d, tax |-> Tax(taxable), shippingFee |-> fee,
              total |-> taxable + Tax(taxable) + fee]
  BY DEF Totals
<1> HIDE DEF taxable, t
<1>3. TaxNear(taxable)
  BY <1>1, TaxRounds
<1>4. t \in Amounts
  BY <1>1, <1>2, <1>3 DEF Amounts, TaxNear
<1>5. ASSUME NEW coded \in BOOLEAN, IF coded THEN s >= least ELSE d = 0
      PROVE  Right(t, coded, least)
  BY <1>1, <1>2, <1>3, <1>5 DEF Right, TaxNear
<1>6. QED
  BY <1>2, <1>4, <1>5 DEF t

----------------------------------------------------------------------------
(* What the cart amounts to.                                               *)

\* Of no product is more ordered than the cart holds.
LEMMA HydratedCut ==
  ASSUME product \in [Products -> Listings], NEW cart \in [Products -> Nat]
  PROVE  /\ Hydrated(cart) \in [Products -> Nat]
         /\ \A p \in Products : Hydrated(cart)[p] <= cart[p]
BY CheckoutAssumption DEF Hydrated, Least

LEMMA SubtotalType ==
  ASSUME product \in [Products -> Listings], NEW items \in [Products -> Nat]
  PROVE  Subtotal(items) \in Nat
<1> DEFINE cost == [p \in Products |-> items[p] * product[p].price]
<1>1. Subtotal(items) = Sum(cost, Products)
  BY DEF Subtotal, Sum, MapThenSumSet, MapThenFoldSet
<1>2. \A p \in Products : cost[p] \in Nat
  BY CheckoutAssumption
<1> HIDE DEF cost
<1>3. QED
  BY <1>1, <1>2, SumType, CheckoutAssumption

----------------------------------------------------------------------------
(* The inductive invariant.                                                *)

\* A request orders no more than was in the cart it read, prices it rightly, and has
\* cleared its copy of the cart when it is about to confirm the order.
JobInv(j) ==
  j # Idle =>
    /\ j.items \in [Products -> Nat] /\ j.totals \in Amounts
    /\ \A p \in Products : j.items[p] <= j.read.cart[p]
    /\ j.pc = "priced" => Right(j.totals, j.coded, coupon.minOrderValue)
    /\ j.op \in {"order", "whatsapp", "placed"} => j.items # Empty
    /\ j.op = "placed" => j.own.cart = Empty

OrderInv(o) ==
  /\ o.items \in [Products -> Nat] /\ o.totals \in Amounts
  /\ Right(o.totals, o.coded, coupon.minOrderValue)

\* The order a request has made is of the cart it read.
MadeInv(r) ==
  request[r] # Idle /\ HasOrder(r) =>
    OfCart(orders[request[r].order].items, request[r].read.cart)

\* Once the cleared cart is stored there is room for what the customer will be told.
StoredInv(r) ==
  LET j == request[r] IN
  j # Idle /\ j.pc = "stored" /\ j.op = "placed" /\ ~torn[j.session] =>
    \A p \in Products :
      Ordered(j.session, p) + orders[j.order].items[p] <= wanted[j.session][p]

AmountsInv ==
  /\ wanted \in [Sessions -> [Products -> Int]]
  /\ valid \in BOOLEAN /\ begun \in Nat /\ edits \in Nat
  /\ \A r \in Requests : JobInv(request[r]) /\ MadeInv(r) /\ StoredInv(r)
  /\ \A i \in DOMAIN orders : OrderInv(orders[i])
  /\ OrderedOnce

----------------------------------------------------------------------------
(* The orders of a session that its customer knows of.                     *)

Known(s) == {i \in DOMAIN orders : orders[i].session = s /\ orders[i].acked}
Units(p) == [i \in DOMAIN orders |-> orders[i].items[p]]

LEMMA OrderedIsSum ==
  ASSUME NEW s, NEW p
  PROVE  /\ Ordered(s, p) = Sum(Units(p), Known(s))
         /\ Ordered(s, p)' = Sum(Units(p)', Known(s)')
<1>1. Ordered(s, p) = Sum(Units(p), Known(s))
  BY DEF Ordered, Units, Known, Sum, MapThenSumSet, MapThenFoldSet
<1>2. (Ordered(s, p) = Sum(Units(p), Known(s)))'
  BY <1>1, PTL
<1>3. QED
  BY <1>1, <1>2

LEMMA KnownFinite ==
  ASSUME NEW T, TypeOver(T), NEW s
  PROVE  IsFiniteSet(Known(s))
<1>1. Len(orders) \in Nat /\ Known(s) \subseteq 1..Len(orders)
  BY DEF TypeOver, Known
<1>2. IsFiniteSet(1..Len(orders))
  BY <1>1, FS_Interval
<1>3. QED
  BY <1>1, <1>2, FS_Subset

\* The units ordered stay the same when the customer comes to know of no order, ...
LEMMA OrderedKept ==
  ASSUME NEW T, TypeOver(T), NEW s, NEW p, Known(s)' = Known(s),
         \A i \in Known(s) : orders'[i].items = orders[i].items,
         DOMAIN orders \subseteq DOMAIN orders'
  PROVE  Ordered(s, p)' = Ordered(s, p)
<1>1. IsFiniteSet(Known(s))
  BY KnownFinite
<1>2. \A i \in Known(s) : Units(p)[i] = Units(p)'[i]
  BY DEF Units, Known
<1>3. Sum(Units(p), Known(s)) = Sum(Units(p)', Known(s))
  BY <1>1, <1>2, SumSame
<1>4. QED
  BY <1>3, OrderedIsSum

\* ... and grow by those of the order that is confirmed.
LEMMA OrderedGrows ==
  ASSUME NEW T, TypeOver(T), NEW s, NEW p, NEW k \in DOMAIN orders, k \notin Known(s),
         Known(s)' = Known(s) \cup {k}, DOMAIN orders' = DOMAIN orders,
         \A i \in DOMAIN orders : /\ orders'[i].items = orders[i].items
                                  /\ orders[i].items[p] \in Int
  PROVE  Ordered(s, p)' = orders[k].items[p] + Ordered(s, p) /\ Ordered(s, p) \in Int
<1>1. IsFiniteSet(Known(s)) /\ IsFiniteSet(Known(s) \cup {k})
  BY KnownFinite, FS_AddElement
<1>2. \A i \in Known(s) \cup {k} : Units(p)[i] = Units(p)'[i] /\ Units(p)[i] \in Int
  BY DEF Units, Known
<1>3. Sum(Units(p), Known(s) \cup {k}) = Sum(Units(p)', Known(s) \cup {k})
  BY <1>1, <1>2, SumSame
<1>4. Sum(Units(p), Known(s) \cup {k}) = Units(p)[k] + Sum(Units(p), Known(s))
  BY <1>1, <1>2, SumAdd
<1>5. Sum(Units(p), Known(s)) \in Int
  BY <1>1, <1>2, SumType
<1>6. QED
  BY <1>3, <1>4, <1>5, OrderedIsSum DEF Units

LEMMA OrderedType ==
  ASSUME NEW T, TypeOver(T), NEW s, NEW p,
         \A i \in DOMAIN orders : orders[i].items[p] \in Int
  PROVE  Ordered(s, p) \in Int
<1>1. \A i \in Known(s) : Units(p)[i] \in Int
  BY DEF Units, Known
<1>2. Sum(Units(p), Known(s)) \in Int
  BY <1>1, KnownFinite, SumType
<1>3. QED
  BY <1>2, OrderedIsSum

----------------------------------------------------------------------------
(* Steps that leave the orders and the sessions alone.                     *)

ShortTypes == valid' \in BOOLEAN /\ begun' \in Nat /\ edits' \in Nat

LEMMA OrderedSame ==
  ASSUME NEW T, TypeOver(T), UNCHANGED orders, NEW s, NEW p
  PROVE  Ordered(s, p)' = Ordered(s, p)
<1>1. Known(s)' = Known(s)
  BY DEF Known
<1>2. QED
  BY <1>1, OrderedKept

\* A request that is not the one at work keeps its room, if what the customer of its
\* session knows stays the same.
LEMMA StoredKept ==
  ASSUME NEW T, TypeOver(T), NEW q \in Requests, StoredInv(q), RequestInv(q),
         request'[q] = request[q],
         \A s \in Sessions : torn[s] => torn'[s],
         \A i \in DOMAIN orders : orders'[i].items = orders[i].items,
         \A s \in Sessions, p \in Products :
           s = request[q].session /\ ~torn'[s] => /\ Ordered(s, p)' = Ordered(s, p)
                                                 /\ wanted'[s][p] = wanted[s][p]
  PROVE  StoredInv(q)'
<1> SUFFICES ASSUME request[q] # Idle, request[q].pc = "stored", request[q].op = "placed",
                    NEW s, s = request[q].session, ~torn'[s], NEW p \in Products
             PROVE  Ordered(s, p)' + orders'[request[q].order].items[p] <= wanted'[s][p]
  BY DEF StoredInv
<1>1. s \in Sessions
  BY DEF TypeOver, JobOver
<1>2. ~torn[s] /\ Ordered(s, p) + orders[request[q].order].items[p] <= wanted[s][p]
  BY <1>1 DEF StoredInv
<1>3. orders'[request[q].order].items = orders[request[q].order].items
  BY DEF RequestInv, HasOrder
<1>4. QED
  BY <1>1, <1>2, <1>3

LEMMA OnceKept ==
  ASSUME NEW T, TypeOver(T), OrderedOnce, UNCHANGED <<orders, session, wanted>>,
         \A s \in Sessions : torn[s] => torn'[s]
  PROVE  OrderedOnce'
<1>1. \A s \in Sessions, p \in Products : Ordered(s, p)' = Ordered(s, p)
  BY OrderedSame
<1>2. ASSUME NEW s \in Sessions, NEW p \in Products, ~torn'[s]
      PROVE  (Ordered(s, p) + session[s].cart[p] <= wanted[s][p])'
  <2>1. Ordered(s, p) + session[s].cart[p] <= wanted[s][p]
    BY <1>2 DEF OrderedOnce
  <2>2. QED
    BY <1>1, <2>1
<1>3. QED
  BY <1>2 DEF OrderedOnce

\* A handler goes on: one request has another job.
LEMMA JobAmounts ==
  ASSUME NEW T, TypeOver(T), AmountsInv, ShortTypes, NEW r \in Requests, NEW job,
         request' = [request EXCEPT ![r] = job], UNCHANGED <<coupon, orders, session, wanted>>,
         \A s \in Sessions : torn[s] => torn'[s],
         JobInv(job), IInv, job # Idle => job.pc # "stored",
         job # Idle /\ (job.pc \in {"created", "counted"} \/ job.op = "placed") =>
           /\ request[r] # Idle /\ HasOrder(r)
           /\ job.order = request[r].order /\ job.read = request[r].read
  PROVE  AmountsInv'
<1>1. request'[r] = job /\ \A q \in Requests : q # r => request'[q] = request[q]
  BY DEF TypeOver
<1>2. \A j : JobInv(j)' <=> JobInv(j)
  BY DEF JobInv
<1>3. ASSUME NEW q \in Requests PROVE JobInv(request[q])'
  <2>1. JobInv(request'[q])
    BY <1>1 DEF AmountsInv
  <2>2. QED
    BY <2>1 DEF JobInv
<1>4. ASSUME NEW q \in Requests PROVE MadeInv(q)'
  <2>1. MadeInv(q)
    BY DEF AmountsInv
  <2>2. CASE q = r
    BY <1>1, <2>1, <2>2 DEF MadeInv, HasOrder
  <2>3. CASE q # r
    BY <1>1, <2>1, <2>3 DEF MadeInv, HasOrder
  <2>4. QED
    BY <2>2, <2>3
<1>5. ASSUME NEW i \in DOMAIN orders' PROVE OrderInv(orders[i])'
  BY DEF AmountsInv, OrderInv
<1>6. OrderedOnce'
  BY OnceKept DEF AmountsInv
<1>7. ASSUME NEW q \in Requests PROVE StoredInv(q)'
  <2>1. CASE q = r
    BY <1>1, <2>1 DEF StoredInv
  <2>2. CASE q # r
    <3>1. \A s \in Sessions, p \in Products : Ordered(s, p)' = Ordered(s, p)
      BY OrderedSame
    <3>2. StoredInv(q) /\ RequestInv(q) /\ request'[q] = request[q]
      BY <1>1, <2>2 DEF AmountsInv, IInv, CartInv
    <3>3. QED
      BY <3>1, <3>2, StoredKept
  <2>3. QED
    BY <2>1, <2>2
<1>8. QED
  BY <1>3, <1>4, <1>5, <1>6, <1>7 DEF AmountsInv, ShortTypes

\* What a handler leaves alone.
LEMMA HandlesKeeps ==
  ASSUME AmountsInv, NEW r, Handles(r)
  PROVE  /\ UNCHANGED <<coupon, orders, session, wanted, torn>>
         /\ ShortTypes
BY DEF Handles, catalogue, AmountsInv, ShortTypes

LEMMA ShowAmounts ==
  ASSUME IInv, AmountsInv, NEW r \in Requests,
         Show(r) \/ RefuseEmpty(r) \/ RefuseProvider(r) \/ InitiateFails(r)
  PROVE  AmountsInv'
<1>1. PICK T : TypeOver(T)
  BY DEF IInv, TypeInv
<1> DEFINE job == [request[r] EXCEPT !.pc = "ending"]
<1>2. /\ request[r].pc \in {"loaded", "priced", "counted"}
      /\ Goes(r, "ending") /\ Handles(r)
  BY DEF Show, RefuseEmpty, RefuseProvider, InitiateFails
<1>3. request[r] \in JobOver(T) /\ request[r] # Idle
  BY <1>1, <1>2, RequestIsJob
<1>4. request' = [request EXCEPT ![r] = job]
  BY <1>2 DEF Goes
<1>5. /\ job.read = request[r].read /\ job.items = request[r].items
      /\ job.totals = request[r].totals /\ job.op = request[r].op
      /\ job.order = request[r].order /\ job.pc = "ending" /\ job.own = request[r].own
  BY <1>3 DEF JobOver
<1> HIDE DEF job
<1>6. JobInv(job) /\ (job.op = "placed" => HasOrder(r))
  BY <1>3, <1>5 DEF AmountsInv, JobInv, HasOrder
<1>7. QED
  BY <1>1, <1>2, <1>3, <1>4, <1>5, <1>6, HandlesKeeps, JobAmounts

LEMMA PutsAmounts ==
  ASSUME IInv, AmountsInv, NEW r \in Requests, NEW p \in Products, NEW q, Puts(r, p, q)
  PROVE  AmountsInv'
<1>1. PICK T : TypeOver(T)
  BY DEF IInv, TypeInv
<1> DEFINE own == [request[r].own EXCEPT !.cart[p] = q, !.bare = FALSE]
           job == [request[r] EXCEPT !.own = own, !.op = "edit", !.pc = "ending"]
<1>2. request[r].pc = "loaded" /\ Handles(r)
  BY DEF Puts
<1>3. request[r] \in JobOver(T) /\ request[r] # Idle
  BY <1>1, <1>2, RequestIsJob
<1>4. request' = [request EXCEPT ![r] = job]
  BY <1>3 DEF Puts
<1>5. /\ job.read = request[r].read /\ job.items = request[r].items
      /\ job.totals = request[r].totals /\ job.op = "edit" /\ job.pc = "ending"
  BY <1>3 DEF JobOver
<1> HIDE DEF job
<1>6. JobInv(job)
  BY <1>3, <1>5 DEF AmountsInv, JobInv
<1>7. QED
  BY <1>1, <1>2, <1>3, <1>4, <1>5, <1>6, HandlesKeeps, JobAmounts

\* The cart is priced at the prices of now, and nothing is taken off yet.
LEMMA HydrateAmounts ==
  ASSUME IInv, AmountsInv, NEW r \in Requests, request[r].pc = "loaded", Handles(r),
         NEW op \in {"coupon", "order", "whatsapp"}, NEW fee \in Nat,
         NEW items \in [Products -> Nat],
         \A p \in Products : items[p] <= request[r].read.cart[p],
         op # "coupon" => items # Empty,
         request' = [request EXCEPT ![r] =
                       [request[r] EXCEPT !.pc = "hydrated", !.op = op, !.items = items,
                          !.totals = Totals(Subtotal(Hydrated(request[r].own.cart)), 0, fee)]]
  PROVE  AmountsInv'
<1>1. PICK T : TypeOver(T)
  BY DEF IInv, TypeInv
<1>2. request[r] \in JobOver(T) /\ request[r] # Idle
  BY <1>1, RequestIsJob
<1> DEFINE s == Subtotal(Hydrated(request[r].own.cart))
           totals == Totals(s, 0, fee)
           job == [request[r] EXCEPT !.pc = "hydrated", !.op = op, !.items = items,
                                     !.totals = totals]
<1>3. s \in Nat
  <2>1. product \in [Products -> Listings] /\ request[r].own.cart \in [Products -> Nat]
    BY <1>1, <1>2 DEF TypeOver, JobOver, Session
  <2>2. Hydrated(request[r].own.cart) \in [Products -> Nat]
    BY <2>1, HydratedCut
  <2>3. QED
    BY <2>1, <2>2, SubtotalType
<1> HIDE DEF s
<1>4. totals \in Amounts
  BY <1>3, TotalsRight
<1>5. request' = [request EXCEPT ![r] = job]
  BY DEF s
<1> HIDE DEF totals
<1>6. /\ job.read = request[r].read /\ job.items = items /\ job.totals = totals
      /\ job.op = op /\ job.pc = "hydrated"
  BY <1>2 DEF JobOver
<1> HIDE DEF job
<1>7. JobInv(job)
  BY <1>4, <1>6 DEF JobInv
<1>8. job.pc \notin {"created", "counted", "stored"} /\ job.op # "placed"
  BY <1>6
<1>9. UNCHANGED <<coupon, orders, session, wanted, torn>> /\ ShortTypes
  BY HandlesKeeps
<1>10. QED
  BY <1>1, <1>5, <1>7, <1>8, <1>9, JobAmounts

LEMMA HydratesAmounts ==
  ASSUME IInv, AmountsInv, NEW r \in Requests, NEW op \in {"order", "whatsapp"},
         NEW fee \in Fees, Hydrate(r, op, fee)
  PROVE  AmountsInv'
<1>1. PICK T : TypeOver(T)
  BY DEF IInv, TypeInv
<1>2. request[r].pc = "loaded" /\ Handles(r)
  BY DEF Hydrate
<1>3. request[r] \in JobOver(T) /\ request[r] # Idle
  BY <1>1, <1>2, RequestIsJob
<1> DEFINE items == Hydrated(request[r].own.cart)
<1>4. /\ items \in [Products -> Nat] /\ items # Empty
      /\ \A p \in Products : items[p] <= request[r].read.cart[p]
  <2>1. product \in [Products -> Listings] /\ request[r].own.cart \in [Products -> Nat]
    BY <1>1, <1>3 DEF TypeOver, JobOver, Session
  <2>2. request[r].own.cart = request[r].read.cart
    BY <1>2, <1>3 DEF IInv, CartInv, RequestInv
  <2>3. QED
    BY <2>1, <2>2, HydratedCut DEF Hydrate
<1>5. request' = [request EXCEPT ![r] =
                    [request[r] EXCEPT !.pc = "hydrated", !.op = op, !.items = items,
                       !.totals = Totals(Subtotal(Hydrated(request[r].own.cart)), 0, fee)]]
  BY DEF Hydrate
<1>6. fee \in Nat
  BY CheckoutAssumption
<1> HIDE DEF items
<1>7. QED
  BY <1>2, <1>4, <1>5, <1>6, HydrateAmounts

LEMMA TryCouponAmounts ==
  ASSUME IInv, AmountsInv, NEW r \in Requests, TryCoupon(r)
  PROVE  AmountsInv'
<1>1. PICK T : TypeOver(T)
  BY DEF IInv, TypeInv
<1>2. request[r].pc = "loaded" /\ Handles(r)
  BY DEF TryCoupon
<1>3. request[r] \in JobOver(T) /\ request[r] # Idle
  BY <1>1, <1>2, RequestIsJob
<1> DEFINE items == request[r].items
           totals == Totals(Subtotal(Hydrated(request[r].own.cart)), 0, 0)
<1>4. /\ items \in [Products -> Nat]
      /\ \A p \in Products : items[p] <= request[r].read.cart[p]
  BY <1>3 DEF AmountsInv, JobInv
<1>5. request' = [request EXCEPT ![r] = [request[r] EXCEPT !.pc = "hydrated", !.op = "coupon",
                                           !.totals = totals]]
  BY DEF TryCoupon
<1> HIDE DEF totals
<1>6. [request[r] EXCEPT !.pc = "hydrated", !.op = "coupon", !.totals = totals]
      = [request[r] EXCEPT !.pc = "hydrated", !.op = "coupon", !.items = items,
                           !.totals = totals]
  BY <1>3 DEF JobOver
<1> HIDE DEF items
<1>7. request' = [request EXCEPT ![r] =
                    [request[r] EXCEPT !.pc = "hydrated", !.op = "coupon", !.items = items,
                       !.totals = Totals(Subtotal(Hydrated(request[r].own.cart)), 0, 0)]]
  BY <1>5, <1>6 DEF totals
<1>8. QED
  BY <1>2, <1>4, <1>7, HydrateAmounts

LEMMA ApplyCouponAmounts ==
  ASSUME IInv, AmountsInv, NEW r \in Requests, NEW code \in {"", "code"}, ApplyCoupon(r, code)
  PROVE  AmountsInv'
<1>1. PICK T : TypeOver(T)
  BY DEF IInv, TypeInv
<1>2. request[r].pc = "hydrated" /\ request[r].op = "coupon" /\ Handles(r)
  BY DEF ApplyCoupon
<1>3. request[r] \in JobOver(T) /\ request[r] # Idle
  BY <1>1, <1>2, RequestIsJob
<1>4. PICK c : request' = [request EXCEPT ![r].pc = "ending", ![r].own.couponCode = c]
  BY DEF ApplyCoupon
<1> DEFINE own == [request[r].own EXCEPT !.couponCode = c]
           job == [request[r] EXCEPT !.pc = "ending", !.own = own]
<1>5. request' = [request EXCEPT ![r] = job]
  BY <1>4
<1>6. /\ job.read = request[r].read /\ job.items = request[r].items
      /\ job.totals = request[r].totals /\ job.op = "coupon" /\ job.pc = "ending"
  BY <1>2, <1>3 DEF JobOver
<1> HIDE DEF job
<1>7. JobInv(job)
  BY <1>3, <1>6 DEF AmountsInv, JobInv
<1>8. QED
  BY <1>1, <1>2, <1>5, <1>6, <1>7, HandlesKeeps, JobAmounts

\* The totals are computed again, with the discount of a coupon that still applies.
LEMMA ComputeTotalsAmounts ==
  ASSUME IInv, AmountsInv, NEW r \in Requests, ComputeTotals(r)
  PROVE  AmountsInv'
<1>1. PICK T : TypeOver(T)
  BY DEF IInv, TypeInv
<1>2. request[r].pc = "hydrated" /\ request[r].op \in {"order", "whatsapp"} /\ Handles(r)
  BY DEF ComputeTotals
<1>3. request[r] \in JobOver(T) /\ request[r] # Idle
  BY <1>1, <1>2, RequestIsJob
<1> DEFINE s == request[r].totals.subtotal
           fee == request[r].totals.shippingFee
           least == coupon.minOrderValue
           applies == request[r].own.couponCode = "code" /\ CouponValid(s)
           discount == IF applies THEN Discount(s) ELSE 0
           totals == Totals(s, discount, fee)
           job == [request[r] EXCEPT !.pc = "priced", !.coded = applies, !.totals = totals]
<1>4. s \in Nat /\ fee \in Nat
  BY <1>3 DEF AmountsInv, JobInv, Amounts
<1>5. coupon \in Coupons /\ least \in Nat
  BY <1>1, CheckoutAssumption DEF TypeOver
<1>6. applies \in BOOLEAN /\ (applies => s >= least)
  BY DEF CouponValid
<1>7. request' = [request EXCEPT ![r] = job]
  BY DEF ComputeTotals
<1> HIDE DEF s, fee, least, applies
<1>8. discount \in Nat /\ discount <= s /\ (~applies => discount = 0)
  BY <1>4, <1>5, DiscountCut
<1> HIDE DEF discount
<1>9. totals \in Amounts /\ Right(totals, applies, least)
  BY <1>4, <1>5, <1>6, <1>8, TotalsRight
<1> HIDE DEF totals
<1>10. /\ job.read = request[r].read /\ job.items = request[r].items /\ job.totals = totals
       /\ job.coded = applies /\ job.op = request[r].op /\ job.pc = "priced"
  BY <1>3 DEF JobOver
<1> HIDE DEF job
<1>11. JobInv(job)
  BY <1>2, <1>3, <1>9, <1>10 DEF AmountsInv, JobInv, least
<1>12. UNCHANGED <<coupon, orders, session, wanted, torn>> /\ ShortTypes
  BY <1>2, HandlesKeeps
<1>13. job.pc \notin {"created", "counted", "stored"} /\ job.op # "placed"
  BY <1>2, <1>10
<1>14. QED
  BY <1>1, <1>7, <1>11, <1>12, <1>13, JobAmounts

LEMMA RecordUseAmounts ==
  ASSUME IInv, AmountsInv, NEW r \in Requests, RecordUse(r)
  PROVE  AmountsInv'
<1>1. PICK T : TypeOver(T)
  BY DEF IInv, TypeInv
<1> DEFINE job == [request[r] EXCEPT !.pc = "counted"]
<1>2. request[r].pc = "created" /\ Goes(r, "counted") /\ HasOrder(r)
  BY DEF RecordUse, Counts, HasOrder
<1>3. request[r] \in JobOver(T) /\ request[r] # Idle
  BY <1>1, <1>2, RequestIsJob
<1>4. request' = [request EXCEPT ![r] = job]
  BY <1>2 DEF Goes
<1>5. /\ job.read = request[r].read /\ job.items = request[r].items
      /\ job.totals = request[r].totals /\ job.op = request[r].op /\ job.own = request[r].own
      /\ job.order = request[r].order /\ job.pc = "counted"
  BY <1>3 DEF JobOver
<1> HIDE DEF job
<1>6. JobInv(job)
  BY <1>3, <1>5 DEF AmountsInv, JobInv
<1>7. UNCHANGED <<coupon, orders, session, wanted, torn>> /\ ShortTypes
  BY DEF RecordUse, Counts, AmountsInv, ShortTypes
<1>8. QED
  BY <1>1, <1>2, <1>3, <1>4, <1>5, <1>6, <1>7, JobAmounts

LEMMA PlacedAmounts ==
  ASSUME IInv, AmountsInv, NEW r \in Requests, Placed(r)
  PROVE  AmountsInv'
<1>1. PICK T : TypeOver(T)
  BY DEF IInv, TypeInv
<1> DEFINE job == [request[r] EXCEPT !.pc = "ending", !.op = "placed", !.own = Cleared]
<1>2. request[r].pc = "counted" /\ Handles(r) /\ HasOrder(r)
  BY DEF Placed, HasOrder
<1>3. request[r] \in JobOver(T) /\ request[r] # Idle
  BY <1>1, <1>2, RequestIsJob
<1>3a. request[r].items # Empty
  BY <1>2, <1>3 DEF IInv, CartInv, RequestInv, AmountsInv, JobInv
<1>4. request' = [request EXCEPT ![r] = job]
  BY <1>3 DEF Placed
<1>5. /\ job.read = request[r].read /\ job.items = request[r].items
      /\ job.totals = request[r].totals /\ job.own = Cleared
      /\ job.order = request[r].order /\ job.pc = "ending"
  BY <1>3 DEF JobOver
<1> HIDE DEF job
<1>6. JobInv(job)
  BY <1>3, <1>3a, <1>5 DEF AmountsInv, JobInv, Cleared
<1>7. QED
  BY <1>1, <1>2, <1>3, <1>4, <1>5, <1>6, HandlesKeeps, JobAmounts

LEMMA ThrowsAmounts ==
  ASSUME IInv, AmountsInv, NEW r \in Requests, Throws(r)
  PROVE  AmountsInv'
<1>1. PICK T : TypeOver(T)
  BY DEF IInv, TypeInv
<1> DEFINE job == [request[r] EXCEPT !.pc = "ending"]
<1>2. /\ request[r].pc \in {"loaded", "hydrated", "priced", "created", "counted"}
      /\ Goes(r, "ending")
  BY DEF Throws
<1>3. request[r] \in JobOver(T) /\ request[r] # Idle
  BY <1>1, <1>2, RequestIsJob
<1>4. request' = [request EXCEPT ![r] = job]
  BY <1>2 DEF Goes
<1>5. /\ job.read = request[r].read /\ job.items = request[r].items
      /\ job.totals = request[r].totals /\ job.op = request[r].op
      /\ job.order = request[r].order /\ job.pc = "ending" /\ job.own = request[r].own
  BY <1>3 DEF JobOver
<1> HIDE DEF job
<1>6. JobInv(job) /\ (job.op = "placed" => HasOrder(r))
  BY <1>3, <1>5 DEF AmountsInv, JobInv, HasOrder
<1>7. UNCHANGED <<coupon, orders, session, wanted, torn>> /\ ShortTypes
  BY DEF Throws, Fails, catalogue, AmountsInv, ShortTypes
<1>8. QED
  BY <1>1, <1>3, <1>4, <1>5, <1>6, <1>7, JobAmounts

----------------------------------------------------------------------------
(* Steps that begin or end a request, or create its order.                 *)

LEMMA BeginAmounts ==
  ASSUME IInv, AmountsInv, NEW r \in Requests, NEW s \in Sessions, Begin(r, s)
  PROVE  AmountsInv'
<1>1. PICK T : TypeOver(T)
  BY DEF IInv, TypeInv
<1> DEFINE zero == Totals(0, 0, 0)
           job == [pc |-> "loaded", session |-> s, read |-> session[s], own |-> session[s],
                   op |-> "none", items |-> Empty, totals |-> zero, coded |-> FALSE, order |-> 0]
<1>2. request' = [request EXCEPT ![r] = job]
  BY DEF Begin
<1>3. zero \in Amounts
  BY TotalsRight
<1> HIDE DEF zero
<1>4. Empty \in [Products -> Nat] /\ \A p \in Products : Empty[p] = 0
  BY DEF Empty
<1>5. \A p \in Products : session[s].cart[p] \in Nat
  BY <1>1 DEF TypeOver, Session
<1>6. /\ job.read = session[s] /\ job.items = Empty /\ job.totals = zero
      /\ job.op = "none" /\ job.pc = "loaded"
  OBVIOUS
<1> HIDE DEF job
<1>7. JobInv(job)
  BY <1>3, <1>4, <1>5, <1>6 DEF JobInv
<1>8. /\ UNCHANGED <<coupon, orders, session, wanted>> /\ ShortTypes
      /\ torn' = [torn EXCEPT ![s] = @ \/ Active(s) # {}]
  BY DEF Begin, catalogue, AmountsInv, ShortTypes
<1>9. \A t \in Sessions : torn[t] => torn'[t]
  BY <1>1, <1>8 DEF TypeOver
<1>10. QED
  BY <1>1, <1>2, <1>6, <1>7, <1>8, <1>9, JobAmounts

LEMMA DiesAmounts ==
  ASSUME IInv, AmountsInv, NEW r \in Requests, Dies(r)
  PROVE  AmountsInv'
<1>1. PICK T : TypeOver(T)
  BY DEF IInv, TypeInv
<1>2. /\ request' = [request EXCEPT ![r] = Idle]
      /\ UNCHANGED <<coupon, orders, session, wanted, torn>> /\ ShortTypes
  BY DEF Dies, Fails, catalogue, AmountsInv, ShortTypes
<1>3. JobInv(Idle)
  BY DEF JobInv
<1>4. QED
  BY <1>1, <1>2, <1>3, JobAmounts

\* The order takes over the quantities and the amounts of the request, and nobody
\* has been told of it yet.
LEMMA CreateOrderAmounts ==
  ASSUME IInv, AmountsInv, NEW r \in Requests, CreateOrder(r)
  PROVE  AmountsInv'
<1>1. PICK T : TypeOver(T)
  BY DEF IInv, TypeInv
<1> DEFINE n == Len(orders) + 1
           job == [request[r] EXCEPT !.pc = "created", !.order = n]
           order == [session |-> request[r].session, items |-> request[r].items,
                     totals |-> request[r].totals, coded |-> request[r].coded, acked |-> FALSE]
<1>2. request[r].pc = "priced"
  BY DEF CreateOrder
<1>3. request[r] \in JobOver(T) /\ request[r] # Idle
  BY <1>1, <1>2, RequestIsJob
<1>4. orders \in Seq(OrderOver(T)) /\ Len(orders) \in Nat /\ n \in Nat
  BY <1>1 DEF TypeOver
<1>5. order \in OrderOver(T) /\ orders' = Append(orders, order)
  BY <1>3 DEF CreateOrder, JobOver, OrderOver
<1>6. /\ DOMAIN orders' = DOMAIN orders \cup {n}
      /\ n \notin DOMAIN orders /\ orders'[n] = order
      /\ \A i \in DOMAIN orders : orders'[i] = orders[i]
  <2> HIDE DEF order
  <2>1. QED
    BY <1>4, <1>5
<1>7. request' = [request EXCEPT ![r] = job]
  <2> HIDE DEF n
  <2>1. request' = [request EXCEPT ![r].pc = "created", ![r].order = n]
    BY DEF CreateOrder, n
  <2>2. QED
    BY <2>1
<1>8. /\ job.read = request[r].read /\ job.items = request[r].items
      /\ job.totals = request[r].totals /\ job.order = n /\ job.own = request[r].own
      /\ job.pc = "created" /\ job.op = request[r].op
  BY <1>3 DEF JobOver
<1>9. UNCHANGED <<coupon, session, wanted, torn>> /\ ShortTypes
  BY DEF CreateOrder, catalogue, AmountsInv, ShortTypes
<1>10. /\ order.items = request[r].items /\ order.totals = request[r].totals
       /\ order.coded = request[r].coded /\ ~order.acked
  OBVIOUS
<1> HIDE DEF job, n, order
<1>11. request'[r] = job /\ \A q \in Requests : q # r => request'[q] = request[q]
  BY <1>1, <1>7 DEF TypeOver
<1>12. JobInv(request[r])
  BY DEF AmountsInv
<1>13. ASSUME NEW q \in Requests PROVE JobInv(request[q])'
  <2>1. JobInv(request'[q])
    <3>1. CASE q = r
      BY <1>3, <1>8, <1>11, <1>12, <3>1 DEF JobInv
    <3>2. CASE q # r
      BY <1>11, <3>2 DEF AmountsInv
    <3>3. QED
      BY <3>1, <3>2
  <2>2. QED
    BY <1>9, <2>1 DEF JobInv
<1>14. ASSUME NEW q \in Requests PROVE MadeInv(q)'
  <2>1. CASE q = r
    <3>1. request[r].items # Empty
      BY <1>2, <1>3, <1>12 DEF JobInv, IInv, CartInv, RequestInv
    <3>2. OfCart(orders'[n].items, request'[r].read.cart)
      BY <1>3, <1>6, <1>8, <1>10, <1>11, <1>12, <3>1 DEF JobInv, OfCart
    <3>3. QED
      BY <1>8, <1>11, <2>1, <3>2 DEF MadeInv
  <2>2. CASE q # r
    <3>1. MadeInv(q) /\ RequestInv(q) /\ request'[q] = request[q]
      BY <1>11, <2>2 DEF AmountsInv, IInv, CartInv
    <3>2. request[q] # Idle /\ HasOrder(q) => request[q].order \in DOMAIN orders
      BY <3>1 DEF RequestInv
    <3>3. QED
      BY <1>6, <3>1, <3>2 DEF MadeInv, HasOrder
  <2>3. QED
    BY <2>1, <2>2
<1>15. ASSUME NEW i \in DOMAIN orders' PROVE OrderInv(orders[i])'
  <2>1. CASE i = n
    BY <1>2, <1>3, <1>6, <1>9, <1>10, <1>12, <2>1 DEF JobInv, OrderInv
  <2>2. CASE i # n
    BY <1>6, <1>9, <2>2 DEF AmountsInv, OrderInv
  <2>3. QED
    BY <2>1, <2>2
<1>16. ASSUME NEW s, NEW p PROVE Ordered(s, p)' = Ordered(s, p)
  <2>1. Known(s)' = Known(s)
    BY <1>6, <1>10 DEF Known
  <2>2. \A i \in Known(s) : orders'[i].items = orders[i].items
    BY <1>6 DEF Known
  <2>3. QED
    BY <1>1, <1>6, <2>1, <2>2, OrderedKept
<1>17. OrderedOnce'
  <2>1. ASSUME NEW s \in Sessions, NEW p \in Products, ~torn'[s]
        PROVE (Ordered(s, p) + session[s].cart[p] <= wanted[s][p])'
    <3>1. Ordered(s, p) + session[s].cart[p] <= wanted[s][p]
      BY <1>9, <2>1 DEF AmountsInv, OrderedOnce
    <3>2. QED
      BY <1>9, <1>16, <3>1
  <2>2. QED
    BY <2>1 DEF OrderedOnce
<1>18. ASSUME NEW q \in Requests PROVE StoredInv(q)'
  <2>1. CASE q = r
    BY <1>8, <1>11, <2>1 DEF StoredInv
  <2>2. CASE q # r
    <3>1. StoredInv(q) /\ RequestInv(q) /\ request'[q] = request[q]
      BY <1>11, <2>2 DEF AmountsInv, IInv, CartInv
    <3>2. QED
      BY <1>1, <1>6, <1>9, <1>16, <3>1, StoredKept
  <2>3. QED
    BY <2>1, <2>2
<1>19. QED
  BY <1>9, <1>13, <1>14, <1>15, <1>17, <1>18 DEF AmountsInv, ShortTypes

\* The cleared cart leaves room for the order that was made of it; an edit makes as much
\* room as it takes up.
LEMMA StoreAmounts ==
  ASSUME IInv, AmountsInv, NEW r \in Requests, Store(r) \/ StoreFails(r)
  PROVE  AmountsInv'
<1>1. PICK T : TypeOver(T)
  BY DEF IInv, TypeInv
<1> DEFINE j == request[r]
           job == [request[r] EXCEPT !.pc = "stored"]
<1>2. /\ j.pc = "ending" /\ Goes(r, "stored") /\ UNCHANGED <<coupon, orders>> /\ ShortTypes
  BY DEF Store, StoreFails, Fails, catalogue, AmountsInv, ShortTypes
<1>3. j \in JobOver(T) /\ j # Idle
  BY <1>1, <1>2, RequestIsJob
<1>4. /\ j.session \in Sessions /\ j.own.cart \in [Products -> Nat]
      /\ j.read.cart \in [Products -> Nat]
  BY <1>3 DEF JobOver, Session
<1>5. /\ job.session = j.session /\ job.read = j.read /\ job.own = j.own /\ job.op = j.op
      /\ job.items = j.items /\ job.totals = j.totals /\ job.order = j.order
      /\ job.pc = "stored" /\ request' = [request EXCEPT ![r] = job]
  BY <1>2, <1>3 DEF JobOver, Goes
<1>6. wanted \in [Sessions -> [Products -> Int]]
  BY DEF AmountsInv
<1>7. /\ wanted' \in [Sessions -> [Products -> Int]]
      /\ \A t \in Sessions : t # j.session => /\ wanted'[t] = wanted[t]
                                             /\ session'[t] = session[t]
                                             /\ torn'[t] = torn[t]
      /\ ~torn'[j.session] =>
           /\ ~torn[j.session] /\ session'[j.session] = j.own
           /\ \A p \in Products : wanted'[j.session][p] =
                IF j.op = "edit" THEN wanted[j.session][p] + j.own.cart[p] - j.read.cart[p]
                                 ELSE wanted[j.session][p]
  <2>1. CASE Store(r)
    <3>1. /\ torn' = torn /\ session' = [session EXCEPT ![j.session] = j.own]
          /\ wanted' = IF j.op = "edit"
                       THEN [wanted EXCEPT ![j.session] =
                         [p \in Products |-> wanted[j.session][p] + j.own.cart[p] - j.read.cart[p]]]
                       ELSE wanted
      BY <1>4, <1>6, <2>1 DEF Store
    <3> HIDE DEF j
    <3>2. QED
      BY <1>1, <1>4, <1>6, <3>1 DEF TypeOver
  <2>2. CASE StoreFails(r)
    <3>1. UNCHANGED <<session, wanted>> /\ torn' = [torn EXCEPT ![j.session] = TRUE]
      BY <2>2 DEF StoreFails
    <3> HIDE DEF j
    <3>2. QED
      BY <1>1, <1>4, <1>6, <3>1 DEF TypeOver
  <2>3. QED
    BY <2>1, <2>2
<1>8. RequestInv(r) /\ JobInv(j) /\ MadeInv(r)
  BY DEF IInv, CartInv, AmountsInv
<1> HIDE DEF job
<1>9. request'[r] = job /\ \A q \in Requests : q # r => request'[q] = request[q]
  BY <1>1, <1>5 DEF TypeOver
<1>10. \A s, p : Ordered(s, p)' = Ordered(s, p)
  BY <1>1, <1>2, OrderedSame
<1>11. ASSUME NEW p \in Products, ~torn'[j.session]
       PROVE /\ Ordered(j.session, p) \in Int /\ wanted[j.session][p] \in Int
             /\ Ordered(j.session, p) + j.read.cart[p] <= wanted[j.session][p]
             /\ j.own.cart[p] \in Nat /\ j.read.cart[p] \in Nat
  <2>1. \A i \in DOMAIN orders : orders[i].items[p] \in Int
    BY DEF AmountsInv, OrderInv
  <2>2. Ordered(j.session, p) \in Int
    BY <1>1, <2>1, OrderedType
  <2>3. session[j.session] = j.read
    BY <1>2, <1>3, <1>7, <1>8, <1>11 DEF RequestInv
  <2>4. Ordered(j.session, p) + session[j.session].cart[p] <= wanted[j.session][p]
    BY <1>4, <1>7, <1>11 DEF AmountsInv, OrderedOnce
  <2>5. QED
    BY <1>4, <1>6, <2>2, <2>3, <2>4
<1>12. ASSUME NEW q \in Requests PROVE JobInv(request[q])' /\ MadeInv(q)'
  <2>1. JobInv(request[q]) /\ MadeInv(q)
    BY DEF AmountsInv
  <2>2. CASE q = r
    BY <1>2, <1>3, <1>5, <1>9, <2>1, <2>2 DEF JobInv, MadeInv, HasOrder
  <2>3. CASE q # r
    BY <1>2, <1>9, <2>1, <2>3 DEF JobInv, MadeInv, HasOrder
  <2>4. QED
    BY <2>2, <2>3
<1>13. ASSUME NEW q \in Requests PROVE StoredInv(q)'
  <2>1. CASE q = r
    <3>1. SUFFICES ASSUME j.op = "placed", NEW s, s = j.session, ~torn'[s],
                          NEW p \in Products
                   PROVE  Ordered(s, p)' + orders'[j.order].items[p] <= wanted'[s][p]
      BY <1>5, <1>9, <2>1 DEF StoredInv
    <3>2. j.order \in DOMAIN orders /\ orders[j.order].items[p] <= j.read.cart[p]
      BY <1>3, <1>8, <3>1 DEF RequestInv, MadeInv, HasOrder, OfCart
    <3>3. orders[j.order].items[p] \in Int
      BY <3>2 DEF AmountsInv, OrderInv
    <3>4. wanted'[s][p] = wanted[s][p] /\ Ordered(s, p)' = Ordered(s, p)
      BY <1>7, <1>10, <3>1
    <3>5. /\ Ordered(s, p) \in Int /\ wanted[s][p] \in Int
          /\ Ordered(s, p) + j.read.cart[p] <= wanted[s][p] /\ j.read.cart[p] \in Nat
      BY <1>11, <3>1
    <3>6. QED
      BY <1>2, <3>2, <3>3, <3>4, <3>5
  <2>2. CASE q # r /\ request[q] # Idle
    <3>1. StoredInv(q) /\ RequestInv(q) /\ PairInv(q, r) /\ request'[q] = request[q]
      BY <1>9, <2>2 DEF AmountsInv, IInv, CartInv
    <3>2. request[q].session = j.session => torn[j.session]
      BY <1>3, <2>2, <3>1 DEF PairInv
    <3>3. \A s \in Sessions : torn[s] => torn'[s]
      BY <1>7
    <3>4. ASSUME NEW s \in Sessions, NEW p \in Products, s = request[q].session, ~torn'[s]
          PROVE  Ordered(s, p)' = Ordered(s, p) /\ wanted'[s][p] = wanted[s][p]
      BY <1>7, <1>10, <3>2, <3>3, <3>4
    <3>5. QED
      BY <1>1, <1>2, <3>1, <3>3, <3>4, StoredKept
  <2>3. CASE q # r /\ request[q] = Idle
    BY <1>9, <2>3 DEF StoredInv
  <2>4. QED
    BY <2>1, <2>2, <2>3
<1>14. ASSUME NEW i \in DOMAIN orders' PROVE OrderInv(orders[i])'
  BY <1>2 DEF AmountsInv, OrderInv
<1>15. ASSUME NEW s \in Sessions, NEW p \in Products, ~torn'[s]
       PROVE (Ordered(s, p) + session[s].cart[p] <= wanted[s][p])'
  <2>1. CASE s # j.session
    <3>1. Ordered(s, p) + session[s].cart[p] <= wanted[s][p]
      BY <1>7, <1>15, <2>1 DEF AmountsInv, OrderedOnce
    <3>2. QED
      BY <1>7, <1>10, <2>1, <3>1
  <2>2. CASE s = j.session
    <3>1. session'[s].cart[p] = j.own.cart[p]
      BY <1>7, <1>15, <2>2
    <3>2. CASE j.op = "edit"
      <4>1. wanted'[s][p] = wanted[s][p] + j.own.cart[p] - j.read.cart[p]
        BY <1>7, <1>15, <2>2, <3>2
      <4>2. QED
        BY <1>10, <1>11, <1>15, <2>2, <3>1, <4>1
    <3>3. CASE j.op # "edit"
      <4>1. wanted'[s][p] = wanted[s][p]
        BY <1>7, <1>15, <2>2, <3>3
      <4>2. j.own.cart[p] <= j.read.cart[p]
        BY <1>3, <1>4, <1>8, <3>3 DEF RequestInv, JobInv, Empty
      <4>3. QED
        BY <1>10, <1>11, <1>15, <2>2, <3>1, <4>1, <4>2
    <3>4. QED
      BY <3>2, <3>3
  <2>3. QED
    BY <2>1, <2>2
<1>16. OrderedOnce'
  BY <1>15 DEF OrderedOnce
<1>17. QED
  BY <1>2, <1>7, <1>12, <1>13, <1>14, <1>16 DEF AmountsInv, ShortTypes

\* An answer confirms the order of its request, if it has placed one, and changes
\* nothing else of any order.
LEMMA AnswerItems ==
  ASSUME NEW T, TypeOver(T), CartInv, NEW r \in Requests, Answer(r)
  PROVE  /\ DOMAIN orders' = DOMAIN orders
         /\ \A i \in DOMAIN orders : /\ orders'[i].session = orders[i].session
                                     /\ orders'[i].items = orders[i].items
                                     /\ orders'[i].totals = orders[i].totals
                                     /\ orders'[i].coded = orders[i].coded
                                     /\ ~(request[r].op = "placed" /\ i = request[r].order)
                                          => orders'[i].acked = orders[i].acked
         /\ request[r].op = "placed" =>
              /\ request[r].order \in DOMAIN orders /\ orders'[request[r].order].acked
              /\ ~orders[request[r].order].acked
              /\ orders[request[r].order].session = request[r].session
<1>1. request[r] \in JobOver(T) /\ request[r] # Idle /\ RequestInv(r)
  BY RequestIsJob DEF CartInv, Answer
<1>2. orders \in Seq(OrderOver(T)) /\ \A i \in DOMAIN orders : orders[i] \in OrderOver(T)
  BY DEF TypeOver
<1>3. CASE request[r].op # "placed"
  BY <1>2, <1>3 DEF Answer
<1>4. CASE request[r].op = "placed"
  <2> DEFINE k == request[r].order
             o == [orders[k] EXCEPT !.acked = TRUE]
  <2>1. /\ k \in DOMAIN orders /\ ~orders[k].acked /\ orders[k].session = request[r].session
    BY <1>1, <1>4 DEF HasOrder, RequestInv
  <2>2. /\ o.acked /\ o.session = orders[k].session /\ o.coded = orders[k].coded
        /\ o.items = orders[k].items /\ o.totals = orders[k].totals
    BY <1>2, <2>1 DEF OrderOver
  <2>3. orders' = [orders EXCEPT ![k] = o]
    BY <1>4 DEF Answer
  <2> HIDE DEF o, k
  <2>4. /\ DOMAIN orders' = DOMAIN orders /\ orders'[k] = o
        /\ \A i \in DOMAIN orders : i # k => orders'[i] = orders[i]
    BY <1>2, <2>1, <2>3
  <2>5. QED
    BY <1>4, <2>1, <2>2, <2>4 DEF k
<1>5. QED
  BY <1>3, <1>4

LEMMA AnswerAmounts ==
  ASSUME IInv, AmountsInv, NEW r \in Requests, Answer(r)
  PROVE  AmountsInv'
<1>1. PICK T : TypeOver(T)
  BY DEF IInv, TypeInv
<1> DEFINE j == request[r]
           k == request[r].order
<1>2. /\ j.pc \in {"stored", "ending"} /\ (j.pc = "ending" => j.own = j.read)
      /\ request' = [request EXCEPT ![r] = Idle]
      /\ UNCHANGED <<coupon, session, wanted, torn>> /\ ShortTypes
  BY DEF Answer, Changed, catalogue, AmountsInv, ShortTypes
<1>3. j \in JobOver(T) /\ j # Idle
  BY <1>1, <1>2, RequestIsJob
<1>4. j.session \in Sessions /\ j.own.cart \in [Products -> Nat]
  BY <1>3 DEF JobOver, Session
<1>5. /\ DOMAIN orders' = DOMAIN orders
      /\ \A i \in DOMAIN orders : /\ orders'[i].session = orders[i].session
                                  /\ orders'[i].items = orders[i].items
                                  /\ orders'[i].totals = orders[i].totals
                                  /\ orders'[i].coded = orders[i].coded
                                  /\ ~(j.op = "placed" /\ i = k)
                                       => orders'[i].acked = orders[i].acked
      /\ j.op = "placed" => /\ k \in DOMAIN orders /\ orders'[k].acked
                            /\ ~orders[k].acked /\ orders[k].session = j.session
  BY <1>1, AnswerItems DEF IInv
<1>6. RequestInv(r) /\ JobInv(j) /\ MadeInv(r) /\ StoredInv(r)
  BY DEF IInv, CartInv, AmountsInv
<1>7. request'[r] = Idle /\ \A q \in Requests : q # r => request'[q] = request[q]
  BY <1>1, <1>2 DEF TypeOver
\* An order is made of something, so the cleared copy differs from what was read.
<1>8. ASSUME j.op = "placed" PROVE j.pc = "stored"
  <2>1. PICK p \in Products : j.items[p] # 0
    BY <1>3, <1>6, <1>8 DEF JobInv, Empty
  <2>2. j.items[p] \in Nat /\ j.items[p] <= j.read.cart[p] /\ j.own.cart[p] = 0
    BY <1>3, <1>6, <1>8 DEF JobInv, Empty
  <2>3. QED
    BY <1>2, <2>1, <2>2
<1> HIDE DEF j, k
<1>9. ASSUME NEW s \in Sessions, NEW p, ~(j.op = "placed" /\ s = j.session)
      PROVE  Ordered(s, p)' = Ordered(s, p)
  <2>1. Known(s)' = Known(s)
    BY <1>5, <1>9 DEF Known
  <2>2. \A i \in Known(s) : orders'[i].items = orders[i].items
    BY <1>5 DEF Known
  <2>3. QED
    BY <1>1, <1>5, <2>1, <2>2, OrderedKept
<1>10. ASSUME NEW q \in Requests PROVE JobInv(request[q])' /\ MadeInv(q)' /\ StoredInv(q)'
  <2>1. CASE q = r
    BY <1>7, <2>1 DEF JobInv, MadeInv, StoredInv
  <2>2. CASE q # r
    <3>1. /\ JobInv(request[q]) /\ MadeInv(q) /\ StoredInv(q) /\ RequestInv(q)
          /\ PairInv(q, r) /\ request'[q] = request[q]
      BY <1>7, <2>2 DEF AmountsInv, IInv, CartInv
    <3>2. JobInv(request[q])'
      BY <1>2, <3>1 DEF JobInv
    <3>3. MadeInv(q)'
      BY <1>5, <3>1 DEF MadeInv, RequestInv, HasOrder
    <3>4. ASSUME request[q] # Idle, ~torn[request[q].session] PROVE request[q].session # j.session
      BY <1>3, <2>2, <3>1, <3>4 DEF PairInv, j
    <3>5. StoredInv(q)'
      <4>1. CASE request[q] = Idle
        BY <3>1, <4>1 DEF StoredInv
      <4>2. CASE request[q] # Idle
        <5>1. ASSUME NEW s \in Sessions, NEW p \in Products, s = request[q].session, ~torn'[s]
              PROVE  Ordered(s, p)' = Ordered(s, p) /\ wanted'[s][p] = wanted[s][p]
          BY <1>2, <1>9, <3>4, <4>2, <5>1
        <5>2. QED
          BY <1>1, <1>2, <1>5, <3>1, <5>1, StoredKept
      <4>3. QED
        BY <4>1, <4>2
    <3>6. QED
      BY <3>2, <3>3, <3>5
  <2>3. QED
    BY <2>1, <2>2
<1>11. ASSUME NEW i \in DOMAIN orders' PROVE OrderInv(orders[i])'
  BY <1>2, <1>5 DEF AmountsInv, OrderInv
<1>12. ASSUME NEW s \in Sessions, NEW p \in Products, ~torn'[s]
       PROVE (Ordered(s, p) + session[s].cart[p] <= wanted[s][p])'
  <2>1. CASE ~(j.op = "placed" /\ s = j.session)
    <3>1. Ordered(s, p) + session[s].cart[p] <= wanted[s][p]
      BY <1>2, <1>12 DEF AmountsInv, OrderedOnce
    <3>2. QED
      BY <1>2, <1>9, <2>1, <3>1
  <2>2. CASE j.op = "placed" /\ s = j.session
    <3>1. Ordered(s, p) + orders[k].items[p] <= wanted[s][p]
      BY <1>2, <1>3, <1>6, <1>8, <1>12, <2>2 DEF StoredInv, j, k
    <3>2. session'[s].cart[p] = 0
      BY <1>2, <1>3, <1>6, <1>8, <1>12, <2>2 DEF RequestInv, JobInv, Empty, j
    <3>3. \A i \in DOMAIN orders : orders[i].items[p] \in Int
      BY DEF AmountsInv, OrderInv
    <3>4. Known(s)' = Known(s) \cup {k} /\ k \in DOMAIN orders /\ k \notin Known(s)
      BY <1>5, <2>2 DEF Known
    <3>5. Ordered(s, p)' = orders[k].items[p] + Ordered(s, p) /\ Ordered(s, p) \in Int
      BY <1>1, <1>5, <3>3, <3>4, OrderedGrows
    <3>6. orders[k].items[p] \in Int
      BY <3>3, <3>4
    <3>7. QED
      BY <1>2, <3>1, <3>2, <3>5, <3>6 DEF AmountsInv
  <2>3. QED
    BY <2>1, <2>2
<1>13. OrderedOnce'
  BY <1>12 DEF OrderedOnce
<1>14. QED
  BY <1>2, <1>10, <1>11, <1>13 DEF AmountsInv, ShortTypes

----------------------------------------------------------------------------
(* The invariant.                                                          *)

LEMMA InitAmounts == Init => AmountsInv
<1> SUFFICES ASSUME Init PROVE AmountsInv
  OBVIOUS
<1>1. /\ \A r \in Requests : request[r] = Idle
      /\ orders = <<>> /\ wanted = [s \in Sessions |-> Empty]
      /\ session = [s \in Sessions |-> NewSession]
      /\ valid = TRUE /\ begun = 0 /\ edits = 0
  BY DEF Init
<1>2. \A r \in Requests : JobInv(request[r]) /\ MadeInv(r) /\ StoredInv(r)
  BY <1>1 DEF JobInv, MadeInv, StoredInv
<1>3. DOMAIN orders = {}
  BY <1>1
<1>4. wanted \in [Sessions -> [Products -> Int]]
  BY <1>1 DEF Empty
<1>5. ASSUME NEW s \in Sessions, NEW p \in Products
      PROVE  Ordered(s, p) + session[s].cart[p] <= wanted[s][p]
  <2>1. Known(s) = {}
    BY <1>3 DEF Known
  <2>2. Ordered(s, p) = 0
    BY <2>1, OrderedIsSum, SumEmpty
  <2>3. session[s].cart[p] = 0 /\ wanted[s][p] = 0
    BY <1>1 DEF NewSession, Empty
  <2>4. QED
    BY <2>2, <2>3
<1>6. OrderedOnce
  BY <1>5 DEF OrderedOnce
<1>7. QED
  BY <1>1, <1>2, <1>3, <1>4, <1>6 DEF AmountsInv

LEMMA AsideAmounts ==
  ASSUME IInv, AmountsInv, ShortTypes,
         UNCHANGED <<coupon, session, request, orders, wanted, torn>>
  PROVE  AmountsInv'
<1>1. PICK T : TypeOver(T)
  BY DEF IInv, TypeInv
<1>2. ASSUME NEW r \in Requests PROVE JobInv(request[r])' /\ MadeInv(r)' /\ StoredInv(r)'
  <2>1. JobInv(request[r])' /\ MadeInv(r)'
    BY DEF AmountsInv, JobInv, MadeInv, HasOrder
  <2>2. \A s \in Sessions, p \in Products : Ordered(s, p)' = Ordered(s, p)
    BY <1>1, OrderedSame
  <2>3. StoredInv(r) /\ RequestInv(r)
    BY DEF AmountsInv, IInv, CartInv
  <2>4. StoredInv(r)'
    BY <1>1, <2>2, <2>3, StoredKept
  <2>5. QED
    BY <2>1, <2>4
<1>3. ASSUME NEW i \in DOMAIN orders' PROVE OrderInv(orders[i])'
  BY DEF AmountsInv, OrderInv
<1>4. OrderedOnce'
  BY <1>1, OnceKept DEF AmountsInv
<1>5. QED
  BY <1>2, <1>3, <1>4 DEF AmountsInv, ShortTypes

LEMMA NextAmounts == IInv /\ AmountsInv /\ [Next]_vars => AmountsInv'
<1> SUFFICES ASSUME IInv, AmountsInv, [Next]_vars PROVE AmountsInv'
  OBVIOUS
<1>1. ASSUME NEW r \in Requests, NEW s \in Sessions, Begin(r, s) PROVE AmountsInv'
  BY <1>1, BeginAmounts
<1>2. ASSUME NEW r \in Requests, EditCart(r) PROVE AmountsInv'
  BY <1>2, ShowAmounts, PutsAmounts DEF EditCart, AddItem, UpdateItem, RemoveItem
<1>3. ASSUME NEW r \in Requests, Try(r) PROVE AmountsInv'
  BY <1>3, TryCouponAmounts, ApplyCouponAmounts DEF Try
<1>4. ASSUME NEW r \in Requests, Place(r) PROVE AmountsInv'
  BY <1>4, HydratesAmounts, ShowAmounts, ComputeTotalsAmounts, CreateOrderAmounts,
     RecordUseAmounts, PlacedAmounts DEF Place
<1>5. ASSUME NEW r \in Requests,
             Store(r) \/ StoreFails(r) \/ Answer(r) \/ Throws(r) \/ Dies(r)
      PROVE  AmountsInv'
  BY <1>5, StoreAmounts, AnswerAmounts, ThrowsAmounts, DiesAmounts
<1>6. ASSUME NEW p \in Products, NEW l \in Listings, EditProduct(p, l) PROVE AmountsInv'
  BY <1>6, AsideAmounts DEF EditProduct, AmountsInv, ShortTypes
<1>7. CASE ToggleCoupon
  BY <1>7, AsideAmounts DEF ToggleCoupon, AmountsInv, ShortTypes
<1>8. CASE UNCHANGED vars
  BY <1>8, AsideAmounts DEF vars, AmountsInv, ShortTypes
<1>9. QED
  BY <1>1, <1>2, <1>3, <1>4, <1>5, <1>6, <1>7, <1>8 DEF Next

LEMMA SpecAmounts == Spec => []AmountsInv
<1>1. QED
  BY InitAmounts, NextAmounts, SpecIInv, PTL DEF Spec

----------------------------------------------------------------------------
(* What it says.                                                           *)

\* Every variable keeps its type: no cart and no order holds a negative quantity, and
\* every amount of an order is a natural number.
THEOREM TypesKept == Spec => []TypeOK
<1>1. ASSUME IInv, AmountsInv PROVE TypeOK
  <2>1. PICK T : TypeOver(T)
    BY <1>1 DEF IInv, TypeInv
  <2>2. ASSUME NEW r \in Requests, request[r] # Idle PROVE request[r] \in Job
    <3>1. request[r] \in JobOver(T)
      BY <2>1, <2>2 DEF TypeOver
    <3>2. request[r].items \in [Products -> Nat] /\ request[r].totals \in Amounts
      BY <1>1, <2>2 DEF AmountsInv, JobInv
    <3>3. QED
      BY <3>1, <3>2 DEF JobOver, Job
  <2>3. request \in [Requests -> Job \cup {Idle}]
    BY <2>1, <2>2 DEF TypeOver
  <2>4. orders \in Seq(OrderOver(T))
    BY <2>1 DEF TypeOver
  <2>5. ASSUME NEW i \in DOMAIN orders PROVE orders[i] \in Order
    <3>1. orders[i] \in OrderOver(T) /\ OrderInv(orders[i])
      BY <1>1, <2>4 DEF AmountsInv
    <3>2. QED
      BY <3>1 DEF OrderInv, OrderOver, Order
  <2>6. orders \in Seq(Order)
    <3>1. Len(orders) \in Nat /\ DOMAIN orders = 1..Len(orders)
      BY <2>4
    <3>2. orders = [i \in 1..Len(orders) |-> orders[i]]
      BY <2>4
    <3>3. QED
      BY <2>5, <3>1, <3>2
  <2>7. QED
    BY <1>1, <2>1, <2>3, <2>6 DEF TypeOK, AmountsInv, TypeOver
<1>2. QED
  BY <1>1, SpecIInv, SpecAmounts, PTL

\* Whatever the prices, the coupon, the fee and the edits made meanwhile, the amounts of
\* every order add up to what the customer is charged.
THEOREM AmountsAddUp == Spec => []TotalsAddUp
<1>1. ASSUME AmountsInv PROVE TotalsAddUp
  <2>1. ASSUME NEW i \in DOMAIN orders
        PROVE  Right(orders[i].totals, orders[i].coded, coupon.minOrderValue)
    BY <1>1 DEF AmountsInv, OrderInv
  <2>2. QED
    BY <2>1 DEF Right, TotalsAddUp
<1>2. QED
  BY <1>1, SpecAmounts, PTL

\* In a session that is not torn the customer never gets more than was put into the cart,
\* through any number of refused, failed and repeated checkouts.
THEOREM CartsOrderedOnce == Spec => []OrderedOnce
<1>1. AmountsInv => OrderedOnce
  BY DEF AmountsInv
<1>2. QED
  BY <1>1, SpecAmounts, PTL

\* In a session that is not torn a cart is emptied in the store by its customer, or by a
\* request that has placed an order made of that very cart.
THEOREM CartsKept == Spec => CartKeptUntilOrdered
<1> DEFINE Kept(s) == ~torn[s] /\ session[s].cart # Empty /\ session'[s].cart = Empty =>
                        \E r \in Active(s) :
                          \/ request[r].op = "edit"
                          \/ /\ request[r].op = "placed"
                             /\ OfCart(orders[request[r].order].items, session[s].cart)
<1>1. ASSUME IInv, AmountsInv, [Next]_vars, NEW s \in Sessions PROVE Kept(s)
  <2> SUFFICES ASSUME ~torn[s], session[s].cart # Empty, session'[s].cart = Empty
               PROVE  \E r \in Active(s) :
                        \/ request[r].op = "edit"
                        \/ /\ request[r].op = "placed"
                           /\ OfCart(orders[request[r].order].items, session[s].cart)
    OBVIOUS
  <2>1. PICK T : TypeOver(T)
    BY <1>1 DEF IInv, TypeInv
  <2>2. PICK r \in Requests : Store(r)
    <3>1. session' # session
      OBVIOUS
    <3>2. \A r \in Requests, t \in Sessions : ~Begin(r, t)
      BY <3>1 DEF Begin
    <3>3. \A r \in Requests : ~StoreFails(r) /\ ~Answer(r) /\ ~Throws(r) /\ ~Dies(r)
      BY <3>1 DEF StoreFails, Answer, Throws, Dies
    <3>4. \A r \in Requests : ~Handles(r)
      BY <3>1 DEF Handles
    <3>5. \A r \in Requests : ~EditCart(r) /\ ~Try(r)
      <4>1. ASSUME NEW r \in Requests, NEW p, NEW q, Puts(r, p, q) PROVE FALSE
        BY <3>4, <4>1 DEF Puts
      <4>2. ASSUME NEW r \in Requests, EditCart(r) PROVE FALSE
        BY <3>4, <4>1, <4>2 DEF EditCart, Show, AddItem, UpdateItem, RemoveItem
      <4>3. ASSUME NEW r \in Requests, Try(r) PROVE FALSE
        BY <3>4, <4>3 DEF Try, TryCoupon, ApplyCoupon
      <4>4. QED
        BY <4>2, <4>3
    <3>6. \A r \in Requests : ~Place(r)
      BY <3>1, <3>4 DEF Place, Hydrate, RefuseEmpty, ComputeTotals, RefuseProvider,
         CreateOrder, RecordUse, Counts, InitiateFails, Placed
    <3>7. /\ \A p \in Products, l \in Listings : ~EditProduct(p, l)
          /\ ~ToggleCoupon /\ ~UNCHANGED vars
      BY <3>1 DEF EditProduct, ToggleCoupon, vars
    <3>8. QED
      BY <1>1, <3>2, <3>3, <3>5, <3>6, <3>7 DEF Next
  <2>3. /\ request[r].pc = "ending"
        /\ session' = [session EXCEPT ![request[r].session] = request[r].own]
    BY <2>2 DEF Store
  <2>4. request[r] \in JobOver(T) /\ request[r] # Idle /\ RequestInv(r) /\ MadeInv(r)
    BY <1>1, <2>1, <2>3, RequestIsJob DEF IInv, CartInv, AmountsInv
  <2>5. s = request[r].session /\ request[r].own.cart = Empty
    BY <2>1, <2>3 DEF TypeOver
  <2>6. r \in Active(s) /\ request[r].read = session[s]
    BY <2>3, <2>4, <2>5 DEF Active, RequestInv
  <2>7. request[r].op \in {"edit", "placed"}
    BY <2>4, <2>5, <2>6 DEF RequestInv
  <2>8. request[r].op = "placed" => OfCart(orders[request[r].order].items, session[s].cart)
    BY <2>4, <2>6 DEF MadeInv, HasOrder
  <2>9. QED
    BY <2>6, <2>7, <2>8
<1>2. ASSUME IInv, AmountsInv, [Next]_vars PROVE [\A s \in Sessions : Kept(s)]_vars
  BY <1>1, <1>2
<1>3. QED
  BY <1>2, SpecIInv, SpecAmounts, PTL DEF Spec, CartKeptUntilOrdered
=============================================================================
