--------------------------- MODULE CheckoutProofs ---------------------------
(***************************************************************************)
(* Proofs about Checkout, for any number of browsers, requests, products   *)
(* and coupons, and any bounds.                                            *)
(*                                                                         *)
(* The coupon: every order made with it is counted, being counted, or its  *)
(* request has failed; and every request that has passed the check of the  *)
(* limit but is not counted yet is one of the requests there are.          *)
(*                                                                         *)
(* The cart: in a session that is not torn there is one request at a time, *)
(* what it has read is stored until it stores its copy, and only an edit   *)
(* or an order that is about to be confirmed has changed that copy.        *)
(***************************************************************************)
EXTENDS Checkout, FiniteSetTheorems, SequenceTheorems, TLAPS

----------------------------------------------------------------------------
(* The inductive invariant.                                                *)

\* The types that matter here: of the amounts of an order only that they are there.
JobOver(T) ==
  [pc : {"loaded", "hydrated", "priced", "created", "counted", "ending", "stored"},
   session : Sessions, read : Session, own : Session,
   op : {"none", "edit", "coupon", "order", "whatsapp", "placed"},
   items : [Products -> Int], totals : T, coded : BOOLEAN, order : Nat]
OrderOver(T) == [session : Sessions, items : [Products -> Int], totals : T, coded : BOOLEAN,
                 acked : BOOLEAN]

TypeOver(T) ==
  /\ product \in [Products -> Listings] /\ coupon \in Coupons
  /\ used \in Nat /\ failures \in Nat
  /\ session \in [Sessions -> Session]
  /\ request \in [Requests -> JobOver(T) \cup {Idle}]
  /\ orders \in Seq(OrderOver(T))
  /\ torn \in [Sessions -> BOOLEAN]

TypeInv == \E T : TypeOver(T)

\* Requests that have the coupon and are not counted yet.
Pending == {r \in Requests : request[r].pc \in {"priced", "created"} /\ request[r].coded}

CouponInv ==
  /\ used + Cardinality(Counting) <= Cardinality(Coded)
  /\ Cardinality(Coded) <= used + Cardinality(Counting) + failures
  /\ coupon.maxUses > 0 => used + Cardinality(Pending) < coupon.maxUses + Cardinality(Requests)

HasOrder(r) == request[r].pc \in {"created", "counted"} \/ request[r].op = "placed"

\* What a request has done to its copy of the session, and the order it has made.
RequestInv(r) ==
  LET j == request[r] IN
  j # Idle =>
    /\ j.pc = "loaded" => j.op = "none"
    /\ j.pc = "hydrated" => j.op \in {"coupon", "order", "whatsapp"}
    /\ j.pc \in {"priced", "created", "counted"} => j.op \in {"order", "whatsapp"}
    /\ j.op \notin {"edit", "placed"} => j.own.cart = j.read.cart
    /\ ~torn[j.session] => session[j.session] = IF j.pc = "stored" THEN j.own ELSE j.read
    /\ HasOrder(r) => /\ j.order \in DOMAIN orders
                      /\ orders[j.order].session = j.session
                      /\ ~orders[j.order].acked

\* Two requests of one session tear it, and no two have made the same order.
PairInv(q, r) ==
  request[q] # Idle /\ request[r] # Idle /\ q # r =>
    /\ request[q].session = request[r].session => torn[request[r].session]
    /\ HasOrder(q) /\ HasOrder(r) => request[q].order # request[r].order

CartInv == /\ \A r \in Requests : RequestInv(r)
           /\ \A q, r \in Requests : PairInv(q, r)

IInv == TypeInv /\ CouponInv /\ CartInv

----------------------------------------------------------------------------
(* Types.                                                                  *)

LEMMA Widen ==
  ASSUME NEW T, NEW U, T \subseteq U, TypeOver(T)
  PROVE  TypeOver(U)
<1>1. JobOver(T) \subseteq JobOver(U) /\ OrderOver(T) \subseteq OrderOver(U)
  BY DEF JobOver, OrderOver
<1>2. orders \in Seq(OrderOver(U))
  BY <1>1 DEF TypeOver
<1>3. request \in [Requests -> JobOver(U) \cup {Idle}]
  BY <1>1 DEF TypeOver
<1>4. QED
  BY <1>2, <1>3 DEF TypeOver

LEMMA RequestIsJob ==
  ASSUME NEW T, TypeOver(T), NEW r \in Requests, request[r].pc # "idle"
  PROVE  request[r] \in JobOver(T) /\ request[r] # Idle
BY DEF TypeOver, Idle

LEMMA JobIsNotIdle ==
  ASSUME NEW T, NEW job \in JobOver(T)
  PROVE  job # Idle /\ job.pc # "idle"
BY DEF JobOver, Idle

\* A step that changes one request and neither the store nor the orders.
LEMMA OneJob ==
  ASSUME NEW T, TypeOver(T), NEW r \in Requests, NEW job \in JobOver(T) \cup {Idle},
         request' = [request EXCEPT ![r] = job],
         UNCHANGED <<product, coupon, session, orders, torn>>,
         used' \in Nat, failures' \in Nat
  PROVE  TypeOver(T)'
BY DEF TypeOver

----------------------------------------------------------------------------
(* The cart.                                                               *)

\* A step of one handler: its job goes on, as the invariant allows.
LEMMA HandlerCart ==
  ASSUME NEW T, TypeOver(T), CartInv, NEW r \in Requests, NEW job \in JobOver(T),
         request[r] # Idle,
         request' = [request EXCEPT ![r] = job], UNCHANGED <<session, orders, torn>>,
         job.session = request[r].session, job.read = request[r].read,
         job.order = request[r].order,
         job.pc \notin {"loaded", "stored"}, request[r].pc # "stored",
         job.pc = "hydrated" => job.op \in {"coupon", "order", "whatsapp"},
         job.pc \in {"priced", "created", "counted"} => job.op \in {"order", "whatsapp"},
         job.op \notin {"edit", "placed"} => job.own.cart = job.read.cart,
         job.pc \in {"created", "counted"} \/ job.op = "placed" => HasOrder(r)
  PROVE  CartInv'
<1>1. request'[r] = job /\ \A q \in Requests : q # r => request'[q] = request[q]
  BY DEF TypeOver
<1>2. HasOrder(r)' => HasOrder(r)
  BY <1>1 DEF HasOrder
<1>3. \A q \in Requests : q # r => (HasOrder(q)' <=> HasOrder(q))
  BY <1>1 DEF HasOrder
<1>4. RequestInv(r) /\ job # Idle
  BY JobIsNotIdle DEF CartInv
<1>5. ASSUME NEW q \in Requests PROVE RequestInv(q)'
  <2>1. CASE q = r
    BY <2>1, <1>1, <1>2, <1>4 DEF RequestInv
  <2>2. CASE q # r
    BY <2>2, <1>1, <1>3 DEF CartInv, RequestInv
  <2>3. QED
    BY <2>1, <2>2
<1>6. ASSUME NEW p \in Requests, NEW q \in Requests PROVE PairInv(p, q)'
  <2>1. PairInv(p, q)
    BY DEF CartInv
  <2>2. request'[p].session = request[p].session \/ request[p] = Idle
    BY <1>1
  <2>3. QED
    BY <1>1, <1>2, <1>3, <1>4, <2>1 DEF PairInv
<1>7. QED
  BY <1>5, <1>6 DEF CartInv

----------------------------------------------------------------------------
(* The coupon.                                                             *)

LEMMA FiniteParts ==
  ASSUME NEW T, TypeOver(T)
  PROVE  /\ IsFiniteSet(Counting) /\ Cardinality(Counting) \in Nat
         /\ IsFiniteSet(Pending) /\ Cardinality(Pending) \in Nat
         /\ Cardinality(Pending) <= Cardinality(Requests)
         /\ IsFiniteSet(Coded) /\ Cardinality(Coded) \in Nat
         /\ Cardinality(Requests) \in Nat
<1>1. IsFiniteSet(Requests)
  BY CheckoutAssumption
<1>2. Counting \subseteq Requests /\ Pending \subseteq Requests
  BY DEF Counting, Pending
<1>3. Len(orders) \in Nat /\ Coded \subseteq 1..Len(orders)
  BY DEF TypeOver, Coded
<1>4. IsFiniteSet(1..Len(orders))
  BY <1>3, FS_Interval
<1>5. QED
  BY <1>1, <1>2, <1>3, <1>4, FS_Subset, FS_CardinalityType

\* Steps that count nothing and let nobody past the check.
LEMMA CouponKept ==
  ASSUME NEW T, TypeOver(T), CouponInv, UNCHANGED <<coupon, used, Coded, Counting>>,
         Pending' \subseteq Pending, failures' \in {failures, failures + 1}
  PROVE  CouponInv'
<1>1. Cardinality(Pending') <= Cardinality(Pending) /\ Cardinality(Pending') \in Nat
  BY FiniteParts, FS_Subset, FS_CardinalityType
<1>2. coupon.maxUses \in Nat /\ used \in Nat /\ failures \in Nat
  BY CheckoutAssumption DEF TypeOver
<1>3. QED
  BY <1>1, <1>2, FiniteParts DEF CouponInv

\* A handler whose job keeps clear of the two places where the coupon counts.
LEMMA HandlerCoupon ==
  ASSUME NEW T, TypeOver(T), CouponInv, NEW r \in Requests, NEW job \in JobOver(T) \cup {Idle},
         request' = [request EXCEPT ![r] = job],
         request[r].pc = "created" => ~request[r].coded,
         job.pc \notin {"priced", "created"},
         UNCHANGED <<coupon, used, Coded>>, failures' \in {failures, failures + 1}
  PROVE  CouponInv'
<1>1. request'[r] = job /\ \A q \in Requests : q # r => request'[q] = request[q]
  BY DEF TypeOver
<1>2. Counting' = Counting /\ Pending' \subseteq Pending
  BY <1>1 DEF Counting, Pending
<1>3. QED
  BY <1>2, CouponKept

----------------------------------------------------------------------------
(* The handlers.                                                           *)

\* Both together, for a handler that neither validates nor counts the coupon.
LEMMA HandlerStep ==
  ASSUME IInv, NEW T, TypeOver(T), NEW r \in Requests, NEW job \in JobOver(T),
         request[r] # Idle, request[r].pc # "stored",
         request' = [request EXCEPT ![r] = job],
         UNCHANGED <<product, coupon, used, session, orders, torn>>,
         failures' \in {failures, failures + 1},
         job.session = request[r].session, job.read = request[r].read,
         job.order = request[r].order,
         request[r].pc = "created" => ~request[r].coded,
         job.pc \in {"hydrated", "counted", "ending"},
         job.pc = "hydrated" => job.op \in {"coupon", "order", "whatsapp"},
         job.pc = "counted" => job.op \in {"order", "whatsapp"},
         job.op \notin {"edit", "placed"} => job.own.cart = job.read.cart,
         job.pc = "counted" \/ job.op = "placed" => HasOrder(r)
  PROVE  IInv'
<1>1. used' \in Nat /\ failures' \in Nat
  BY DEF TypeOver
<1>2. TypeOver(T)'
  BY <1>1, OneJob
<1>3. CartInv'
  BY HandlerCart DEF IInv
<1>4. Coded' = Coded
  BY DEF Coded
<1>5. CouponInv'
  BY <1>4, HandlerCoupon DEF IInv
<1>6. QED
  BY <1>2, <1>3, <1>5 DEF IInv, TypeInv

LEMMA ShowStep ==
  ASSUME IInv, NEW r \in Requests, Show(r) \/ RefuseEmpty(r)
  PROVE  IInv'
<1>1. PICK T : TypeOver(T)
  BY DEF IInv, TypeInv
<1> DEFINE job == [request[r] EXCEPT !.pc = "ending"]
<1>2. request[r].pc = "loaded" /\ Goes(r, "ending") /\ Handles(r)
  BY DEF Show, RefuseEmpty
<1>3. request[r] \in JobOver(T) /\ request[r] # Idle
  BY <1>1, <1>2, RequestIsJob
<1>4. request' = [request EXCEPT ![r] = job] /\ job \in JobOver(T)
  BY <1>1, <1>2, <1>3 DEF Goes, TypeOver, JobOver
<1>5. /\ job.session = request[r].session /\ job.read = request[r].read
      /\ job.order = request[r].order /\ job.own = request[r].own
      /\ job.pc = "ending" /\ job.op = request[r].op
  BY <1>3 DEF JobOver
<1>6. request[r].op = "none" /\ request[r].own.cart = request[r].read.cart
  BY <1>2, <1>3 DEF IInv, CartInv, RequestInv
<1>7. UNCHANGED <<product, coupon, used, session, orders, torn, failures>>
  BY <1>2 DEF Handles, catalogue
<1> HIDE DEF job
<1>8. QED
  BY <1>1, <1>2, <1>3, <1>4, <1>5, <1>6, <1>7, HandlerStep

LEMMA PutsStep ==
  ASSUME IInv, NEW r \in Requests, NEW p \in Products, NEW q \in Nat, Puts(r, p, q)
  PROVE  IInv'
<1>1. PICK T : TypeOver(T)
  BY DEF IInv, TypeInv
<1> DEFINE own == [request[r].own EXCEPT !.cart[p] = q, !.bare = FALSE]
           job == [request[r] EXCEPT !.own = own, !.op = "edit", !.pc = "ending"]
<1>2. request[r].pc = "loaded" /\ Handles(r)
  BY DEF Puts
<1>3. request[r] \in JobOver(T) /\ request[r] # Idle /\ request[r].own \in Session
  BY <1>1, <1>2, RequestIsJob DEF JobOver
<1>4. own \in Session
  BY <1>3 DEF Session
<1>5. request' = [request EXCEPT ![r] = job]
  BY <1>3 DEF Puts
<1>6. job \in JobOver(T)
  BY <1>3, <1>4 DEF JobOver
<1>7. /\ job.session = request[r].session /\ job.read = request[r].read
      /\ job.order = request[r].order /\ job.pc = "ending" /\ job.op = "edit"
  BY <1>3 DEF JobOver
<1>8. UNCHANGED <<product, coupon, used, session, orders, torn, failures>>
  BY <1>2 DEF Handles, catalogue
<1> HIDE DEF job
<1>9. QED
  BY <1>1, <1>2, <1>3, <1>5, <1>6, <1>7, <1>8, HandlerStep

LEMMA EditCartStep ==
  ASSUME IInv, NEW r \in Requests, EditCart(r)
  PROVE  IInv'
<1>1. CASE Show(r)
  BY <1>1, ShowStep
<1>2. ASSUME NEW p \in Products, NEW q, Puts(r, p, q) PROVE request[r].own.cart[p] \in Nat
  <2>1. PICK T : TypeOver(T)
    BY DEF IInv, TypeInv
  <2>2. request[r] \in JobOver(T)
    BY <1>2, <2>1, RequestIsJob DEF Puts
  <2>3. QED
    BY <2>2 DEF JobOver, Session
<1>3. ASSUME NEW p \in Products, NEW q \in Quantities, AddItem(r, p, q) \/ UpdateItem(r, p, q)
      PROVE  IInv'
  <2>1. q \in Nat
    BY CheckoutAssumption
  <2>2. QED
    BY <1>2, <1>3, <2>1, PutsStep DEF AddItem, UpdateItem
<1>4. ASSUME NEW p \in Products, RemoveItem(r, p) PROVE IInv'
  BY <1>4, PutsStep DEF RemoveItem
<1>5. QED
  BY <1>1, <1>3, <1>4 DEF EditCart

\* Quantities stay quantities when they are cut down to the stock.
LEMMA HydratedType ==
  ASSUME NEW T, TypeOver(T), NEW cart \in [Products -> Nat]
  PROVE  Hydrated(cart) \in [Products -> Int]
BY CheckoutAssumption DEF TypeOver, Hydrated, Least

\* A request that begins to place an order or to try a coupon.
LEMMA HydrateStep ==
  ASSUME IInv, NEW r \in Requests, request[r].pc = "loaded", Handles(r),
         NEW op \in {"coupon", "order", "whatsapp"}, NEW items, NEW totals,
         items \in [Products -> Int],
         request' = [request EXCEPT ![r] = [request[r] EXCEPT !.pc = "hydrated", !.op = op,
                                              !.items = items, !.totals = totals]]
  PROVE  IInv'
<1>1. PICK U : TypeOver(U)
  BY DEF IInv, TypeInv
<1> DEFINE T == U \cup {totals}
           job == [request[r] EXCEPT !.pc = "hydrated", !.op = op, !.items = items,
                                     !.totals = totals]
<1>2. TypeOver(T) /\ totals \in T
  BY <1>1, Widen
<1> HIDE DEF T
<1>3. request[r] \in JobOver(T) /\ request[r] # Idle
  BY <1>2, RequestIsJob
<1>4. job \in JobOver(T)
  BY <1>2, <1>3 DEF JobOver
<1>5. /\ job.session = request[r].session /\ job.read = request[r].read
      /\ job.order = request[r].order /\ job.own = request[r].own
      /\ job.pc = "hydrated" /\ job.op = op
  BY <1>3 DEF JobOver
<1>6. request[r].own.cart = request[r].read.cart
  BY <1>3 DEF IInv, CartInv, RequestInv
<1>7. UNCHANGED <<product, coupon, used, session, orders, torn, failures>>
  BY DEF Handles, catalogue
<1>8. request' = [request EXCEPT ![r] = job]
  OBVIOUS
<1> HIDE DEF job
<1>9. QED
  BY <1>2, <1>3, <1>4, <1>5, <1>6, <1>7, <1>8, HandlerStep

LEMMA HydratesStep ==
  ASSUME IInv, NEW r \in Requests, NEW op \in {"order", "whatsapp"}, NEW fee \in Fees,
         Hydrate(r, op, fee)
  PROVE  IInv'
<1>1. PICK T : TypeOver(T)
  BY DEF IInv, TypeInv
<1>2. request[r].pc = "loaded" /\ Handles(r)
  BY DEF Hydrate
<1>3. request[r] \in JobOver(T)
  BY <1>1, <1>2, RequestIsJob
<1> DEFINE items == Hydrated(request[r].own.cart)
           totals == Totals(Subtotal(items), 0, fee)
<1>4. items \in [Products -> Int]
  BY <1>1, <1>3, HydratedType DEF JobOver, Session
<1>5. request' = [request EXCEPT ![r] = [request[r] EXCEPT !.pc = "hydrated", !.op = op,
                                           !.items = items, !.totals = totals]]
  BY DEF Hydrate
<1> HIDE DEF items, totals
<1>6. QED
  BY <1>2, <1>4, <1>5, HydrateStep

LEMMA TryCouponStep ==
  ASSUME IInv, NEW r \in Requests, TryCoupon(r)
  PROVE  IInv'
<1>1. PICK T : TypeOver(T)
  BY DEF IInv, TypeInv
<1>2. request[r].pc = "loaded" /\ Handles(r)
  BY DEF TryCoupon
<1>3. request[r] \in JobOver(T)
  BY <1>1, <1>2, RequestIsJob
<1> DEFINE items == request[r].items
           totals == Totals(Subtotal(Hydrated(request[r].own.cart)), 0, 0)
<1>4. items \in [Products -> Int]
  BY <1>3 DEF JobOver
<1>5. request' = [request EXCEPT ![r] = [request[r] EXCEPT !.pc = "hydrated", !.op = "coupon",
                                           !.totals = totals]]
  BY DEF TryCoupon
<1> HIDE DEF totals
<1>6. [request[r] EXCEPT !.pc = "hydrated", !.op = "coupon", !.totals = totals]
      = [request[r] EXCEPT !.pc = "hydrated", !.op = "coupon", !.items = items,
                           !.totals = totals]
  BY <1>3 DEF JobOver
<1> HIDE DEF items
<1>7. QED
  BY <1>2, <1>4, <1>5, <1>6, HydrateStep

LEMMA ApplyCouponStep ==
  ASSUME IInv, NEW r \in Requests, NEW code \in {"", "code"}, ApplyCoupon(r, code)
  PROVE  IInv'
<1>1. PICK T : TypeOver(T)
  BY DEF IInv, TypeInv
<1>2. request[r].pc = "hydrated" /\ request[r].op = "coupon" /\ Handles(r)
  BY DEF ApplyCoupon
<1>3. request[r] \in JobOver(T) /\ request[r] # Idle /\ request[r].own \in Session
  BY <1>1, <1>2, RequestIsJob DEF JobOver
<1>4. PICK c \in {"none", "", "code"} :
        request' = [request EXCEPT ![r].pc = "ending", ![r].own.couponCode = c]
  BY <1>3 DEF ApplyCoupon, Session
<1> DEFINE own == [request[r].own EXCEPT !.couponCode = c]
           job == [request[r] EXCEPT !.pc = "ending", !.own = own]
<1>5. own \in Session /\ own.cart = request[r].own.cart
  BY <1>3 DEF Session
<1>6. request' = [request EXCEPT ![r] = job]
  BY <1>4
<1>7. job \in JobOver(T)
  BY <1>3, <1>5 DEF JobOver
<1>8. /\ job.session = request[r].session /\ job.read = request[r].read
      /\ job.order = request[r].order /\ job.own = own
      /\ job.pc = "ending" /\ job.op = "coupon"
  BY <1>2, <1>3 DEF JobOver
<1>9. request[r].own.cart = request[r].read.cart
  BY <1>2, <1>3 DEF IInv, CartInv, RequestInv
<1>10. UNCHANGED <<product, coupon, used, session, orders, torn, failures>>
  BY <1>2 DEF Handles, catalogue
<1> HIDE DEF job, own
<1>11. QED
  BY <1>1, <1>2, <1>3, <1>5, <1>6, <1>7, <1>8, <1>9, <1>10, HandlerStep

\* The code is checked: below the limit, so at most every request is let past it at once.
LEMMA ComputeTotalsStep ==
  ASSUME IInv, NEW r \in Requests, ComputeTotals(r)
  PROVE  IInv'
<1>1. PICK U : TypeOver(U)
  BY DEF IInv, TypeInv
<1>2. request[r].pc = "hydrated" /\ request[r].op \in {"order", "whatsapp"} /\ Handles(r)
  BY DEF ComputeTotals
<1>3. PICK applies \in BOOLEAN :
        /\ applies => CouponValid(request[r].totals.subtotal)
        /\ \E totals : request' = [request EXCEPT ![r].pc = "priced", ![r].coded = applies,
                                                 ![r].totals = totals]
  BY DEF ComputeTotals
<1>3a. PICK totals : request' = [request EXCEPT ![r].pc = "priced", ![r].coded = applies,
                                                ![r].totals = totals]
  BY <1>3
<1> DEFINE T == U \cup {totals}
           job == [request[r] EXCEPT !.pc = "priced", !.coded = applies, !.totals = totals]
<1>4. TypeOver(T) /\ totals \in T
  BY <1>1, Widen
<1> HIDE DEF T
<1>5. request[r] \in JobOver(T) /\ request[r] # Idle
  BY <1>2, <1>4, RequestIsJob
<1>6. job \in JobOver(T) /\ request' = [request EXCEPT ![r] = job]
  BY <1>3, <1>3a, <1>4, <1>5 DEF JobOver
<1>7. /\ job.session = request[r].session /\ job.read = request[r].read
      /\ job.order = request[r].order /\ job.own = request[r].own
      /\ job.pc = "priced" /\ job.op = request[r].op /\ job.coded = applies
  BY <1>5 DEF JobOver
<1>8. request[r].own.cart = request[r].read.cart
  BY <1>2, <1>5 DEF IInv, CartInv, RequestInv
<1>9. UNCHANGED <<product, coupon, used, session, orders, torn, failures>>
  BY <1>2 DEF Handles, catalogue
<1>10. used \in Nat /\ failures \in Nat /\ coupon.maxUses \in Nat
  BY <1>4, CheckoutAssumption DEF TypeOver
<1> HIDE DEF job
<1>11. TypeOver(T)'
  BY <1>4, <1>6, <1>9, <1>10, OneJob
<1>12. CartInv'
  BY <1>2, <1>4, <1>5, <1>6, <1>7, <1>8, <1>9, HandlerCart DEF IInv
<1>13. request'[r] = job /\ \A q \in Requests : q # r => request'[q] = request[q]
  BY <1>4, <1>6 DEF TypeOver
<1>14. Coded' = Coded /\ Counting' = Counting
  BY <1>2, <1>7, <1>9, <1>13 DEF Coded, Counting
<1>15. CouponInv'
  <2>1. CASE applies
    <3>1. coupon.maxUses > 0 => used < coupon.maxUses
      BY <1>3, <1>10, <2>1 DEF CouponValid
    <3>2. Cardinality(Pending') <= Cardinality(Requests) /\ Cardinality(Pending') \in Nat
      BY <1>11, CheckoutAssumption, FS_Subset, FS_CardinalityType DEF Pending
    <3>3. QED
      BY <1>4, <1>9, <1>10, <1>14, <3>1, <3>2, FiniteParts DEF IInv, CouponInv
  <2>2. CASE ~applies
    <3>1. Pending' \subseteq Pending
      BY <1>7, <1>13, <2>2 DEF Pending
    <3>2. QED
      BY <1>4, <1>9, <1>14, <3>1, CouponKept DEF IInv
  <2>3. QED
    BY <2>1, <2>2
<1>16. QED
  BY <1>11, <1>12, <1>15 DEF IInv, TypeInv

\* An order refused by the provider, before or after it has been created.
LEMMA RefuseStep ==
  ASSUME IInv, NEW r \in Requests, RefuseProvider(r) \/ InitiateFails(r)
  PROVE  IInv'
<1>1. PICK T : TypeOver(T)
  BY DEF IInv, TypeInv
<1> DEFINE job == [request[r] EXCEPT !.pc = "ending"]
<1>2. /\ request[r].pc \in {"priced", "counted"} /\ request[r].op = "order"
      /\ Goes(r, "ending") /\ Handles(r)
  BY DEF RefuseProvider, InitiateFails
<1>3. request[r] \in JobOver(T) /\ request[r] # Idle
  BY <1>1, <1>2, RequestIsJob
<1>4. request' = [request EXCEPT ![r] = job] /\ job \in JobOver(T)
  BY <1>1, <1>2, <1>3 DEF Goes, TypeOver, JobOver
<1>5. /\ job.session = request[r].session /\ job.read = request[r].read
      /\ job.order = request[r].order /\ job.own = request[r].own
      /\ job.pc = "ending" /\ job.op = "order"
  BY <1>2, <1>3 DEF JobOver
<1>6. request[r].own.cart = request[r].read.cart
  BY <1>2, <1>3 DEF IInv, CartInv, RequestInv
<1>7. UNCHANGED <<product, coupon, used, session, orders, torn, failures>>
  BY <1>2 DEF Handles, catalogue
<1> HIDE DEF job
<1>8. QED
  BY <1>1, <1>2, <1>3, <1>4, <1>5, <1>6, <1>7, HandlerStep

LEMMA PlacedStep ==
  ASSUME IInv, NEW r \in Requests, Placed(r)
  PROVE  IInv'
<1>1. PICK T : TypeOver(T)
  BY DEF IInv, TypeInv
<1> DEFINE job == [request[r] EXCEPT !.pc = "ending", !.op = "placed", !.own = Cleared]
<1>2. request[r].pc = "counted" /\ Handles(r)
  BY DEF Placed
<1>3. request[r] \in JobOver(T) /\ request[r] # Idle
  BY <1>1, <1>2, RequestIsJob
<1>4. Cleared \in Session
  BY DEF Cleared, Session, Empty
<1>5. request' = [request EXCEPT ![r] = job] /\ job \in JobOver(T)
  BY <1>3, <1>4 DEF Placed, JobOver
<1>6. /\ job.session = request[r].session /\ job.read = request[r].read
      /\ job.order = request[r].order /\ job.pc = "ending" /\ job.op = "placed"
  BY <1>3 DEF JobOver
<1>7. HasOrder(r)
  BY <1>2 DEF HasOrder
<1>8. UNCHANGED <<product, coupon, used, session, orders, torn, failures>>
  BY <1>2 DEF Handles, catalogue
<1> HIDE DEF job
<1>9. QED
  BY <1>1, <1>2, <1>3, <1>5, <1>6, <1>7, <1>8, HandlerStep

\* The order is counted when it is created with the coupon, and its request is then one
\* that still has to count the use.
LEMMA CreateOrderStep ==
  ASSUME IInv, NEW r \in Requests, CreateOrder(r)
  PROVE  IInv'
<1>1. PICK T : TypeOver(T)
  BY DEF IInv, TypeInv
<1> DEFINE n == Len(orders) + 1
           job == [request[r] EXCEPT !.pc = "created", !.order = n]
           order == [session |-> request[r].session, items |-> request[r].items,
                     totals |-> request[r].totals, coded |-> request[r].coded, acked |-> FALSE]
<1>2. request[r].pc = "priced"
  BY DEF CreateOrder
<1>3. request[r] \in JobOver(T) /\ request[r] # Idle
  BY <1>1, <1>2, RequestIsJob
<1>4. orders \in Seq(OrderOver(T)) /\ Len(orders) \in Nat /\ n \in Nat
  BY <1>1 DEF TypeOver
<1>5. order \in OrderOver(T) /\ orders' = Append(orders, order)
  BY <1>3 DEF CreateOrder, JobOver, OrderOver
<1>6. /\ orders' \in Seq(OrderOver(T)) /\ DOMAIN orders' = DOMAIN orders \cup {n}
      /\ n \notin DOMAIN orders /\ orders'[n] = order
      /\ \A i \in DOMAIN orders : orders'[i] = orders[i]
  <2> HIDE DEF order
  <2>1. QED
    BY <1>4, <1>5
<1>7. job \in JobOver(T) /\ request' = [request EXCEPT ![r] = job]
  <2> HIDE DEF n
  <2>1. request' = [request EXCEPT ![r].pc = "created", ![r].order = n]
    BY DEF CreateOrder, n
  <2>2. QED
    BY <1>3, <1>4, <2>1 DEF JobOver
<1>8. /\ job.session = request[r].session /\ job.read = request[r].read
      /\ job.order = n /\ job.own = request[r].own /\ job.pc = "created"
      /\ job.op = request[r].op /\ job.coded = request[r].coded
  BY <1>3 DEF JobOver
<1>9. UNCHANGED <<product, coupon, used, session, torn, failures>>
  BY DEF CreateOrder, catalogue
<1>10. /\ order.session = request[r].session /\ ~order.acked
       /\ order.coded = request[r].coded
  OBVIOUS
<1> HIDE DEF job, n, order
<1>11. request'[r] = job /\ \A q \in Requests : q # r => request'[q] = request[q]
  BY <1>1, <1>7 DEF TypeOver
<1>12. TypeOver(T)'
  BY <1>1, <1>6, <1>7, <1>9 DEF TypeOver
<1>13. CartInv'
  <2>1. RequestInv(r)'
    <3>1. RequestInv(r)
      BY DEF IInv, CartInv
    <3>2. QED
      BY <1>2, <1>3, <1>6, <1>8, <1>9, <1>10, <1>11, <3>1 DEF RequestInv
  <2>2. ASSUME NEW q \in Requests, q # r PROVE RequestInv(q)'
    <3>1. RequestInv(q) /\ (HasOrder(q)' <=> HasOrder(q))
      BY <1>11, <2>2 DEF IInv, CartInv, HasOrder
    <3>2. QED
      BY <1>6, <1>9, <1>11, <2>2, <3>1 DEF RequestInv
  <2>3. ASSUME NEW p \in Requests, NEW q \in Requests PROVE PairInv(p, q)'
    <3>1. RequestInv(p) /\ RequestInv(q) /\ PairInv(p, q)
      BY DEF IInv, CartInv
    <3>2. /\ p # r => (HasOrder(p)' <=> HasOrder(p))
          /\ q # r => (HasOrder(q)' <=> HasOrder(q))
      BY <1>11 DEF HasOrder
    <3>3. QED
      BY <1>3, <1>6, <1>8, <1>9, <1>11, <3>1, <3>2 DEF PairInv, RequestInv
  <2>4. QED
    BY <2>1, <2>2, <2>3 DEF CartInv
<1>14. Pending' = Pending
  BY <1>2, <1>8, <1>11 DEF Pending
<1>15. CouponInv'
  <2>1. CASE request[r].coded
    <3>1. Coded' = Coded \cup {n} /\ n \notin Coded
      BY <1>6, <1>10, <2>1 DEF Coded
    <3>2. Counting' = Counting \cup {r} /\ r \notin Counting
      BY <1>2, <1>8, <1>11, <2>1 DEF Counting
    <3>3. /\ Cardinality(Coded') = Cardinality(Coded) + 1
          /\ Cardinality(Counting') = Cardinality(Counting) + 1
      BY <1>1, <3>1, <3>2, FiniteParts, FS_AddElement
    <3>4. used \in Nat /\ failures \in Nat
      BY <1>1 DEF TypeOver
    <3>5. QED
      BY <1>1, <1>9, <1>14, <3>3, <3>4, FiniteParts DEF IInv, CouponInv
  <2>2. CASE ~request[r].coded
    <3>1. Coded' = Coded
      BY <1>6, <1>10, <2>2 DEF Coded
    <3>2. Counting' = Counting
      BY <1>2, <1>8, <1>11, <2>2 DEF Counting
    <3>3. QED
      BY <1>1, <1>9, <1>14, <3>1, <3>2, CouponKept DEF IInv
  <2>3. QED
    BY <2>1, <2>2
<1>16. QED
  BY <1>12, <1>13, <1>15 DEF IInv, TypeInv

LEMMA RecordUseStep ==
  ASSUME IInv, NEW r \in Requests, RecordUse(r)
  PROVE  IInv'
<1>1. PICK T : TypeOver(T)
  BY DEF IInv, TypeInv
<1> DEFINE job == [request[r] EXCEPT !.pc = "counted"]
<1>2. /\ request[r].pc = "created" /\ Goes(r, "counted")
      /\ used' = used + (IF request[r].coded THEN 1 ELSE 0)
  BY DEF RecordUse, Counts
<1>3. request[r] \in JobOver(T) /\ request[r] # Idle
  BY <1>1, <1>2, RequestIsJob
<1>4. request' = [request EXCEPT ![r] = job] /\ job \in JobOver(T)
  BY <1>1, <1>2, <1>3 DEF Goes, TypeOver, JobOver
<1>5. /\ job.session = request[r].session /\ job.read = request[r].read
      /\ job.order = request[r].order /\ job.own = request[r].own
      /\ job.pc = "counted" /\ job.op = request[r].op
  BY <1>3 DEF JobOver
<1>6. UNCHANGED <<product, coupon, session, orders, torn, failures>>
  BY DEF RecordUse, Counts
<1>7. used \in Nat /\ failures \in Nat /\ coupon.maxUses \in Nat /\ used' \in Nat
  BY <1>1, <1>2, CheckoutAssumption DEF TypeOver
<1> HIDE DEF job
<1>8. TypeOver(T)'
  BY <1>1, <1>4, <1>6, <1>7, OneJob
<1>9. CartInv'
  <2>1. RequestInv(r) /\ HasOrder(r)
    BY <1>2 DEF IInv, CartInv, HasOrder
  <2>2. request[r].own.cart = request[r].read.cart /\ request[r].op \in {"order", "whatsapp"}
    BY <1>2, <1>3, <2>1 DEF RequestInv
  <2>3. QED
    BY <1>1, <1>2, <1>3, <1>4, <1>5, <1>6, <2>1, <2>2, HandlerCart DEF IInv
<1>10. request'[r] = job /\ \A q \in Requests : q # r => request'[q] = request[q]
  BY <1>1, <1>4 DEF TypeOver
<1>11. Coded' = Coded
  BY <1>6 DEF Coded
<1>12. CouponInv'
  <2>1. CASE request[r].coded
    <3>1. Counting' = Counting \ {r} /\ r \in Counting
      BY <1>2, <1>5, <1>10, <2>1 DEF Counting
    <3>2. Pending' = Pending \ {r} /\ r \in Pending
      BY <1>2, <1>5, <1>10, <2>1 DEF Pending
    <3>3. /\ Cardinality(Counting') = Cardinality(Counting) - 1
          /\ Cardinality(Pending') = Cardinality(Pending) - 1
      BY <1>1, <3>1, <3>2, FiniteParts, FS_RemoveElement
    <3>4. used' = used + 1
      BY <1>2, <2>1
    <3>5. QED
      BY <1>1, <1>6, <1>7, <1>11, <3>3, <3>4, FiniteParts DEF IInv, CouponInv
  <2>2. CASE ~request[r].coded
    <3>1. used' = used
      BY <1>2, <1>7, <2>2
    <3>2. QED
      BY <1>1, <1>4, <1>5, <1>6, <1>11, <2>2, <3>1, HandlerCoupon DEF IInv
  <2>3. QED
    BY <2>1, <2>2
<1>13. QED
  BY <1>8, <1>9, <1>12 DEF IInv, TypeInv

----------------------------------------------------------------------------
(* The beginning and the end of a request.                                 *)

LEMMA BeginStep ==
  ASSUME IInv, NEW r \in Requests, NEW s \in Sessions, Begin(r, s)
  PROVE  IInv'
<1>1. PICK U : TypeOver(U)
  BY DEF IInv, TypeInv
<1> DEFINE zero == Totals(0, 0, 0)
           T == U \cup {zero}
           job == [pc |-> "loaded", session |-> s, read |-> session[s], own |-> session[s],
                   op |-> "none", items |-> Empty, totals |-> zero, coded |-> FALSE, order |-> 0]
<1>2. request' = [request EXCEPT ![r] = job]
  BY DEF Begin
<1> HIDE DEF zero
<1>3. TypeOver(T) /\ zero \in T
  BY <1>1, Widen
<1> HIDE DEF T
<1>4. session[s] \in Session /\ Empty \in [Products -> Int]
  BY <1>3 DEF TypeOver, Empty
<1>5. job \in JobOver(T)
  BY <1>3, <1>4 DEF JobOver
<1>6. /\ job.pc = "loaded" /\ job.session = s /\ job.read = session[s]
      /\ job.own = session[s] /\ job.op = "none"
  OBVIOUS
<1>7. /\ request[r] = Idle /\ torn' = [torn EXCEPT ![s] = @ \/ Active(s) # {}]
      /\ UNCHANGED <<product, coupon, used, session, orders, failures>>
  BY DEF Begin, catalogue
<1> HIDE DEF job
<1>8. request'[r] = job /\ \A q \in Requests : q # r => request'[q] = request[q]
  BY <1>2, <1>3 DEF TypeOver
<1>9. TypeOver(T)'
  <2>1. torn' \in [Sessions -> BOOLEAN]
    BY <1>3, <1>7 DEF TypeOver
  <2>2. request' \in [Requests -> JobOver(T) \cup {Idle}]
    BY <1>2, <1>3, <1>5 DEF TypeOver
  <2>3. QED
    BY <1>3, <1>7, <2>1, <2>2 DEF TypeOver
<1>10. /\ \A t \in Sessions : ~torn'[t] => ~torn[t]
       /\ Active(s) # {} => torn'[s]
  BY <1>3, <1>7 DEF TypeOver
<1>11. ~HasOrder(r)'
  BY <1>6, <1>8 DEF HasOrder
<1>12. ASSUME NEW q \in Requests PROVE RequestInv(q)'
  <2>1. CASE q = r
    BY <1>6, <1>7, <1>8, <1>11, <2>1 DEF RequestInv
  <2>2. CASE q # r
    <3>1. RequestInv(q) /\ request'[q] = request[q] /\ (HasOrder(q)' <=> HasOrder(q))
      BY <1>8, <2>2 DEF IInv, CartInv, HasOrder
    <3>2. CASE request[q] # Idle
      <4>1. request[q].session \in Sessions
        BY <1>3, <3>2 DEF TypeOver, JobOver
      <4>2. QED
        BY <1>7, <1>10, <3>1, <4>1 DEF RequestInv
    <3>3. QED
      BY <3>1, <3>2 DEF RequestInv
  <2>3. QED
    BY <2>1, <2>2
<1>13. ASSUME NEW p \in Requests, NEW q \in Requests PROVE PairInv(p, q)'
  <2>1. PairInv(p, q)
    BY DEF IInv, CartInv
  <2>2. /\ p # r => (HasOrder(p)' <=> HasOrder(p))
        /\ q # r => (HasOrder(q)' <=> HasOrder(q))
    BY <1>8 DEF HasOrder
  <2>3. CASE p = r \/ q = r
    BY <1>6, <1>8, <1>10, <1>11, <2>3 DEF PairInv, Active
  <2>4. CASE p # r /\ q # r
    <3>1. request[q] # Idle /\ torn[request[q].session] => torn'[request[q].session]
      BY <1>3, <1>7 DEF TypeOver, JobOver
    <3>2. QED
      BY <1>8, <2>1, <2>2, <2>4, <3>1 DEF PairInv
  <2>5. QED
    BY <2>3, <2>4
<1>14. CouponInv'
  <2>1. Coded' = Coded /\ request[r].pc # "created"
    BY <1>7 DEF Coded, Idle
  <2>2. QED
    BY <1>2, <1>3, <1>5, <1>6, <1>7, <2>1, HandlerCoupon DEF IInv
<1>15. QED
  BY <1>9, <1>12, <1>13, <1>14 DEF IInv, TypeInv, CartInv

\* A request that is gone leaves the others as they were, and of its session they see
\* nothing that is not torn.
LEMMA GoneCart ==
  ASSUME NEW T, TypeOver(T), CartInv, NEW r \in Requests, request[r] # Idle,
         request' = [request EXCEPT ![r] = Idle],
         \A t \in Sessions : torn[t] => torn'[t],
         \A t \in Sessions : t # request[r].session => session'[t] = session[t],
         DOMAIN orders' = DOMAIN orders,
         \A i \in DOMAIN orders : orders'[i].session = orders[i].session,
         \A i \in DOMAIN orders :
           (HasOrder(r) /\ i = request[r].order) \/ orders'[i].acked = orders[i].acked
  PROVE  CartInv'
<1>1. request'[r] = Idle /\ \A q \in Requests : q # r => request'[q] = request[q]
  BY DEF TypeOver
<1>2. \A q \in Requests : request[q] # Idle => request[q].session \in Sessions
  BY DEF TypeOver, JobOver
<1>3. ASSUME NEW q \in Requests PROVE RequestInv(q)'
  <2>1. CASE q = r
    BY <1>1, <2>1 DEF RequestInv
  <2>2. CASE q # r
    <3>1. RequestInv(q) /\ PairInv(q, r) /\ (HasOrder(q)' <=> HasOrder(q))
      BY <1>1, <2>2 DEF CartInv, HasOrder
    <3>2. CASE request[q] # Idle
      <4>1. request[q].session = request[r].session => torn'[request[q].session]
        BY <1>2, <2>2, <3>1, <3>2 DEF PairInv
      <4>2. HasOrder(q) /\ HasOrder(r) => request[q].order # request[r].order
        BY <2>2, <3>1, <3>2 DEF PairInv
      <4>3. ~torn'[request[q].session] =>
              session'[request[q].session] = IF request[q].pc = "stored" THEN request[q].own
                                                                         ELSE request[q].read
        BY <1>2, <3>1, <3>2, <4>1 DEF RequestInv
      <4>4. HasOrder(q) => /\ request[q].order \in DOMAIN orders'
                           /\ orders'[request[q].order].session = request[q].session
                           /\ ~orders'[request[q].order].acked
        BY <3>1, <3>2, <4>2 DEF RequestInv
      <4>5. QED
        BY <1>1, <2>2, <3>1, <3>2, <4>3, <4>4 DEF RequestInv
    <3>3. QED
      BY <1>1, <2>2, <3>2 DEF RequestInv
  <2>3. QED
    BY <2>1, <2>2
<1>4. ASSUME NEW p \in Requests, NEW q \in Requests PROVE PairInv(p, q)'
  <2>1. PairInv(p, q)
    BY DEF CartInv
  <2>2. CASE p = r \/ q = r
    BY <1>1, <2>2 DEF PairInv
  <2>3. CASE p # r /\ q # r
    <3>1. (HasOrder(p)' <=> HasOrder(p)) /\ (HasOrder(q)' <=> HasOrder(q))
      BY <1>1, <2>3 DEF HasOrder
    <3>2. QED
      BY <1>1, <1>2, <2>1, <2>3, <3>1 DEF PairInv
  <2>4. QED
    BY <2>2, <2>3
<1>5. QED
  BY <1>3, <1>4 DEF CartInv

\* A confirmed order differs from what it was only in being confirmed.
LEMMA AnswerOrders ==
  ASSUME NEW T, TypeOver(T), CartInv, NEW r \in Requests, Answer(r)
  PROVE  /\ orders' \in Seq(OrderOver(T)) /\ DOMAIN orders' = DOMAIN orders
         /\ \A i \in DOMAIN orders : /\ orders'[i].session = orders[i].session
                                     /\ orders'[i].coded = orders[i].coded
                                     /\ \/ HasOrder(r) /\ i = request[r].order
                                        \/ orders'[i].acked = orders[i].acked
<1>1. request[r] \in JobOver(T) /\ request[r] # Idle /\ RequestInv(r)
  BY RequestIsJob DEF CartInv, Answer
<1>2. orders \in Seq(OrderOver(T)) /\ \A i \in DOMAIN orders : orders[i] \in OrderOver(T)
  BY DEF TypeOver
<1>3. CASE request[r].op # "placed"
  BY <1>2, <1>3 DEF Answer
<1>4. CASE request[r].op = "placed"
  <2> DEFINE k == request[r].order
             o == [orders[k] EXCEPT !.acked = TRUE]
  <2>1. HasOrder(r) /\ k \in DOMAIN orders
    BY <1>1, <1>4 DEF HasOrder, RequestInv
  <2>2. o \in OrderOver(T) /\ o.session = orders[k].session /\ o.coded = orders[k].coded
    BY <1>2, <2>1 DEF OrderOver
  <2>3. orders' = [orders EXCEPT ![k] = o]
    BY <1>4 DEF Answer
  <2> HIDE DEF o, k
  <2>4. orders' \in Seq(OrderOver(T)) /\ DOMAIN orders' = DOMAIN orders
    BY <1>2, <2>1, <2>2, <2>3
  <2>5. orders'[k] = o /\ \A i \in DOMAIN orders : i # k => orders'[i] = orders[i]
    BY <1>2, <2>1, <2>3
  <2>6. QED
    BY <2>1, <2>2, <2>4, <2>5 DEF k
<1>5. QED
  BY <1>3, <1>4

LEMMA AnswerStep ==
  ASSUME IInv, NEW r \in Requests, Answer(r)
  PROVE  IInv'
<1>1. PICK T : TypeOver(T)
  BY DEF IInv, TypeInv
<1>2. /\ request[r].pc \in {"stored", "ending"} /\ request' = [request EXCEPT ![r] = Idle]
      /\ UNCHANGED <<product, coupon, used, session, torn, failures>>
  BY DEF Answer, catalogue
<1>3. request[r] \in JobOver(T) /\ request[r] # Idle
  BY <1>1, <1>2, RequestIsJob
<1>4. /\ orders' \in Seq(OrderOver(T)) /\ DOMAIN orders' = DOMAIN orders
      /\ \A i \in DOMAIN orders : /\ orders'[i].session = orders[i].session
                                  /\ orders'[i].coded = orders[i].coded
                                  /\ \/ HasOrder(r) /\ i = request[r].order
                                     \/ orders'[i].acked = orders[i].acked
  BY <1>1, AnswerOrders DEF IInv
<1>5. TypeOver(T)'
  <2>1. request' \in [Requests -> JobOver(T) \cup {Idle}]
    BY <1>1, <1>2 DEF TypeOver
  <2>2. QED
    BY <1>1, <1>2, <1>4, <2>1 DEF TypeOver
<1>6. CartInv'
  BY <1>1, <1>2, <1>3, <1>4, GoneCart DEF IInv
<1>7. CouponInv'
  <2>1. Coded' = Coded
    BY <1>4 DEF Coded
  <2>2. Idle.pc \notin {"priced", "created"}
    BY DEF Idle
  <2>3. QED
    BY <1>1, <1>2, <2>1, <2>2, HandlerCoupon DEF IInv
<1>8. QED
  BY <1>5, <1>6, <1>7 DEF IInv, TypeInv

\* The store takes the copy, or it does not and the session is torn: either way the
\* request goes on, and no other sees a difference in a session that is not torn.
LEMMA StoreStep ==
  ASSUME IInv, NEW r \in Requests, Store(r) \/ StoreFails(r)
  PROVE  IInv'
<1>1. PICK T : TypeOver(T)
  BY DEF IInv, TypeInv
<1> DEFINE job == [request[r] EXCEPT !.pc = "stored"]
           s == request[r].session
<1>2. /\ request[r].pc = "ending" /\ Goes(r, "stored")
      /\ UNCHANGED <<product, coupon, used, orders>> /\ failures' \in {failures, failures + 1}
  BY DEF Store, StoreFails, Fails, catalogue
<1>3. request[r] \in JobOver(T) /\ request[r] # Idle
  BY <1>1, <1>2, RequestIsJob
<1>4. request' = [request EXCEPT ![r] = job] /\ job \in JobOver(T)
  BY <1>1, <1>2, <1>3 DEF Goes, TypeOver, JobOver
<1>5. /\ job.session = s /\ job.read = request[r].read /\ job.order = request[r].order
      /\ job.own = request[r].own /\ job.pc = "stored" /\ job.op = request[r].op
  BY <1>3 DEF JobOver
<1>6. s \in Sessions /\ request[r].own \in Session
  BY <1>3 DEF JobOver
<1>7. /\ session' \in [Sessions -> Session] /\ torn' \in [Sessions -> BOOLEAN]
      /\ \A t \in Sessions : /\ torn[t] => torn'[t]
                             /\ t # s => session'[t] = session[t]
      /\ ~torn'[s] => session'[s] = request[r].own
  BY <1>1, <1>6 DEF Store, StoreFails, TypeOver
<1> HIDE DEF job, s
<1>8. request'[r] = job /\ job # Idle /\ \A q \in Requests : q # r => request'[q] = request[q]
  BY <1>1, <1>4, JobIsNotIdle DEF TypeOver
<1>9. \A q \in Requests : HasOrder(q)' <=> HasOrder(q)
  BY <1>2, <1>5, <1>8 DEF HasOrder
<1>10. TypeOver(T)'
  <2>1. failures' \in Nat
    BY <1>1, <1>2 DEF TypeOver
  <2>2. request' \in [Requests -> JobOver(T) \cup {Idle}]
    BY <1>1, <1>4 DEF TypeOver
  <2>3. QED
    BY <1>1, <1>2, <1>7, <2>1, <2>2 DEF TypeOver
<1>11. ASSUME NEW q \in Requests PROVE RequestInv(q)'
  <2>1. RequestInv(r) /\ RequestInv(q) /\ PairInv(q, r)
    BY DEF IInv, CartInv
  <2>2. CASE q = r
    BY <1>2, <1>3, <1>5, <1>6, <1>7, <1>8, <1>9, <2>1, <2>2 DEF RequestInv, s
  <2>3. CASE q # r /\ request[q] # Idle
    <3>1. request[q].session \in Sessions
      BY <1>1, <2>3 DEF TypeOver, JobOver
    <3>2. ~torn'[request[q].session] =>
            session'[request[q].session] = session[request[q].session]
      BY <1>3, <1>7, <2>1, <2>3, <3>1 DEF PairInv, s
    <3>3. QED
      BY <1>2, <1>7, <1>8, <1>9, <2>1, <2>3, <3>1, <3>2 DEF RequestInv
  <2>4. CASE q # r /\ request[q] = Idle
    BY <1>8, <2>4 DEF RequestInv
  <2>5. QED
    BY <2>2, <2>3, <2>4
<1>12. ASSUME NEW p \in Requests, NEW q \in Requests PROVE PairInv(p, q)'
  <2>1. PairInv(p, q)
    BY DEF IInv, CartInv
  <2>2. /\ request'[p] # Idle => /\ request[p] # Idle
                                 /\ request'[p].session = request[p].session
                                 /\ request'[p].order = request[p].order
        /\ request'[q] # Idle => /\ request[q] # Idle
                                 /\ request'[q].session = request[q].session
                                 /\ request'[q].order = request[q].order
    BY <1>3, <1>5, <1>8 DEF s
  <2>3. request[q] # Idle => request[q].session \in Sessions
    BY <1>1 DEF TypeOver, JobOver
  <2>4. QED
    BY <1>7, <1>9, <2>1, <2>2, <2>3 DEF PairInv
<1>13. CouponInv'
  <2>1. Coded' = Coded
    BY <1>2 DEF Coded
  <2>2. QED
    BY <1>1, <1>2, <1>4, <1>5, <2>1, HandlerCoupon DEF IInv
<1>14. QED
  BY <1>10, <1>11, <1>12, <1>13 DEF IInv, TypeInv, CartInv

\* If it was about to count a use, that use is made up for by the failure: so says
\* CouponInv of a request that gives up before it has counted.
LEMMA GivesUpCoupon ==
  ASSUME NEW T, TypeOver(T), CouponInv, NEW r \in Requests, NEW job \in JobOver(T) \cup {Idle},
         request' = [request EXCEPT ![r] = job], job.pc \notin {"priced", "created"},
         UNCHANGED <<coupon, used, orders>>, failures' = failures + 1
  PROVE  CouponInv'
<1>1. used \in Nat /\ failures \in Nat /\ coupon.maxUses \in Nat
  BY CheckoutAssumption DEF TypeOver
<1>2. request'[r] = job /\ \A q \in Requests : q # r => request'[q] = request[q]
  BY DEF TypeOver
<1>3. Coded' = Coded
  BY DEF Coded
<1>4. Counting' = Counting \ {r} /\ Pending' \subseteq Pending
  BY <1>2 DEF Counting, Pending
<1>5. /\ Cardinality(Counting') \in {Cardinality(Counting), Cardinality(Counting) - 1}
      /\ Cardinality(Pending') <= Cardinality(Pending) /\ Cardinality(Pending') \in Nat
  BY <1>4, FiniteParts, FS_RemoveElement, FS_Subset, FS_CardinalityType
<1>6. QED
  BY <1>1, <1>3, <1>5, FiniteParts DEF CouponInv

LEMMA ThrowsStep ==
  ASSUME IInv, NEW r \in Requests, Throws(r)
  PROVE  IInv'
<1>1. PICK T : TypeOver(T)
  BY DEF IInv, TypeInv
<1> DEFINE job == [request[r] EXCEPT !.pc = "ending"]
<1>2. /\ request[r].pc \in {"loaded", "hydrated", "priced", "created", "counted"}
      /\ Goes(r, "ending") /\ failures' = failures + 1
      /\ UNCHANGED <<product, coupon, used, session, orders, torn>>
  BY DEF Throws, Fails, catalogue
<1>3. request[r] \in JobOver(T) /\ request[r] # Idle
  BY <1>1, <1>2, RequestIsJob
<1>4. request' = [request EXCEPT ![r] = job] /\ job \in JobOver(T)
  BY <1>1, <1>2, <1>3 DEF Goes, TypeOver, JobOver
<1>5. /\ job.session = request[r].session /\ job.read = request[r].read
      /\ job.order = request[r].order /\ job.own = request[r].own
      /\ job.pc = "ending" /\ job.op = request[r].op
  BY <1>3 DEF JobOver
<1>6. request[r].op \notin {"edit", "placed"} /\ request[r].own.cart = request[r].read.cart
  BY <1>2, <1>3 DEF IInv, CartInv, RequestInv
<1> HIDE DEF job
<1>7. TypeOver(T)'
  BY <1>1, <1>2, <1>4, OneJob DEF TypeOver
<1>8. CartInv'
  BY <1>1, <1>2, <1>3, <1>4, <1>5, <1>6, HandlerCart DEF IInv
<1>9. CouponInv'
  BY <1>1, <1>2, <1>4, <1>5, GivesUpCoupon DEF IInv
<1>10. QED
  BY <1>7, <1>8, <1>9 DEF IInv, TypeInv

LEMMA DiesStep ==
  ASSUME IInv, NEW r \in Requests, Dies(r)
  PROVE  IInv'
<1>1. PICK T : TypeOver(T)
  BY DEF IInv, TypeInv
<1>2. /\ request[r] # Idle /\ request' = [request EXCEPT ![r] = Idle]
      /\ failures' = failures + 1
      /\ UNCHANGED <<product, coupon, used, session, orders, torn>>
  BY DEF Dies, Fails, catalogue
<1>3. used \in Nat /\ failures \in Nat /\ failures' \in Nat /\ coupon.maxUses \in Nat
  BY <1>1, <1>2, CheckoutAssumption DEF TypeOver
<1>4. TypeOver(T)'
  BY <1>1, <1>2, <1>3, OneJob
<1>5. CartInv'
  BY <1>1, <1>2, GoneCart DEF IInv
<1>6. CouponInv'
  <2>1. Idle.pc \notin {"priced", "created"}
    BY DEF Idle
  <2>2. QED
    BY <1>1, <1>2, <2>1, GivesUpCoupon DEF IInv
<1>7. QED
  BY <1>4, <1>5, <1>6 DEF IInv, TypeInv

----------------------------------------------------------------------------
(* The invariant.                                                          *)

LEMMA InitIInv == Init => IInv
<1> SUFFICES ASSUME Init PROVE IInv
  OBVIOUS
<1>1. /\ \A r \in Requests : request[r] = Idle
      /\ orders = <<>> /\ used = 0 /\ failures = 0
  BY DEF Init
<1>2. TypeOver({})
  <2>1. NewSession \in Session
    BY DEF NewSession, Session, Empty
  <2>2. session \in [Sessions -> Session] /\ torn \in [Sessions -> BOOLEAN]
    BY <2>1 DEF Init
  <2>3. request \in [Requests -> JobOver({}) \cup {Idle}] /\ orders \in Seq(OrderOver({}))
    BY DEF Init
  <2>4. QED
    BY <1>1, <2>2, <2>3 DEF Init, TypeOver
<1>3. Counting = {} /\ Pending = {} /\ Coded = {}
  BY <1>1 DEF Counting, Pending, Coded, Idle
<1>4. CouponInv
  <2>1. Cardinality(Requests) \in Nat /\ coupon.maxUses \in Nat
    BY <1>2, FiniteParts, CheckoutAssumption DEF TypeOver
  <2>2. Cardinality(Counting) = 0 /\ Cardinality(Pending) = 0 /\ Cardinality(Coded) = 0
    BY <1>3, FS_EmptySet
  <2>3. QED
    BY <1>1, <2>1, <2>2 DEF CouponInv
<1>5. CartInv
  BY <1>1 DEF CartInv, RequestInv, PairInv
<1>6. QED
  BY <1>2, <1>4, <1>5 DEF IInv, TypeInv

\* Administrators touch neither the requests nor the orders.
LEMMA AsideStep ==
  ASSUME IInv, product' \in [Products -> Listings],
         UNCHANGED <<coupon, used, session, request, orders, torn, failures>>
  PROVE  IInv'
<1>1. TypeInv'
  BY DEF IInv, TypeInv, TypeOver
<1>2. Coded' = Coded /\ Counting' = Counting /\ Pending' = Pending
  BY DEF Coded, Counting, Pending
<1>3. CouponInv'
  BY <1>2 DEF IInv, CouponInv
<1>4. CartInv'
  BY DEF IInv, CartInv, RequestInv, PairInv, HasOrder
<1>5. QED
  BY <1>1, <1>3, <1>4 DEF IInv

LEMMA NextIInv == IInv /\ [Next]_vars => IInv'
<1> SUFFICES ASSUME IInv, [Next]_vars PROVE IInv'
  OBVIOUS
<1>1. product \in [Products -> Listings]
  BY DEF IInv, TypeInv, TypeOver
<1>2. ASSUME NEW r \in Requests, NEW s \in Sessions, Begin(r, s) PROVE IInv'
  BY <1>2, BeginStep
<1>3. ASSUME NEW r \in Requests, EditCart(r) PROVE IInv'
  BY <1>3, EditCartStep
<1>4. ASSUME NEW r \in Requests, Try(r) PROVE IInv'
  BY <1>4, TryCouponStep, ApplyCouponStep DEF Try
<1>5. ASSUME NEW r \in Requests, Place(r) PROVE IInv'
  BY <1>5, HydratesStep, ShowStep, ComputeTotalsStep, RefuseStep, CreateOrderStep,
     RecordUseStep, PlacedStep DEF Place
<1>6. ASSUME NEW r \in Requests,
             Store(r) \/ StoreFails(r) \/ Answer(r) \/ Throws(r) \/ Dies(r)
      PROVE  IInv'
  BY <1>6, StoreStep, AnswerStep, ThrowsStep, DiesStep
<1>7. ASSUME NEW p \in Products, NEW l \in Listings, EditProduct(p, l) PROVE IInv'
  <2>1. product' \in [Products -> Listings]
    BY <1>1, <1>7 DEF EditProduct
  <2>2. QED
    BY <1>7, <2>1, AsideStep DEF EditProduct
<1>8. CASE ToggleCoupon
  BY <1>1, <1>8, AsideStep DEF ToggleCoupon
<1>9. CASE UNCHANGED vars
  BY <1>1, <1>9, AsideStep DEF vars
<1>10. QED
  BY <1>2, <1>3, <1>4, <1>5, <1>6, <1>7, <1>8, <1>9 DEF Next

\* The invariant that both the coupon and the cart rest on.
THEOREM SpecIInv == Spec => []IInv
<1>1. QED
  BY InitIInv, NextIInv, PTL DEF Spec

----------------------------------------------------------------------------
(* What it says.                                                           *)

\* Orders with the coupon and the counter of its uses never part by more than the uses
\* being counted and the requests that failed.
THEOREM CouponsCounted == Spec => []CouponCounted
<1>1. ASSUME IInv PROVE CouponCounted
  <2>1. PICK T : TypeOver(T)
    BY <1>1 DEF IInv, TypeInv
  <2>2. used \in Nat
    BY <2>1 DEF TypeOver
  <2>3. QED
    BY <1>1, <2>1, <2>2, FiniteParts DEF IInv, CouponInv, CouponCounted
<1>2. QED
  BY <1>1, SpecIInv, PTL

\* The limit of a coupon is passed by no more orders than requests served at once, less
\* one, and requests that failed.
THEOREM CouponsOverrun == Spec => []CouponOverrun
<1>1. ASSUME IInv PROVE CouponOverrun
  <2>1. PICK T : TypeOver(T)
    BY <1>1 DEF IInv, TypeInv
  <2>2. used \in Nat /\ failures \in Nat /\ coupon.maxUses \in Nat
    BY <2>1, CheckoutAssumption DEF TypeOver
  <2>3. Counting \subseteq Pending
    BY DEF Counting, Pending
  <2>4. Cardinality(Counting) <= Cardinality(Pending)
    BY <2>1, <2>3, FiniteParts, FS_Subset
  <2>5. QED
    BY <1>1, <2>1, <2>2, <2>4, FiniteParts DEF IInv, CouponInv, CouponOverrun
<1>2. QED
  BY <1>1, SpecIInv, PTL
=============================================================================
