---------------------------- MODULE OrdersProofs ----------------------------
(***************************************************************************)
(* Proofs about Orders, for any sets of orders, webhook requests,          *)
(* administrators, totals and amounts, any threshold and any bounds.       *)
(*                                                                         *)
(* The inductive invariant IInv says of every order what the step its      *)
(* checkout has reached means for its payment and its reference, and of    *)
(* every request in flight what it has already made sure of.  What a       *)
(* request has made sure of stays true while other requests take their     *)
(* steps because it only speaks of facts that are never undone; Grows      *)
(* names those facts.                                                      *)
(***************************************************************************)
EXTENDS Orders, FiniteSetTheorems, TLAPS

----------------------------------------------------------------------------
(* The inductive invariant.                                                *)

\* How far checkout has come bounds what there is to pay, and the reference on the
\* order is the one checkout or the webhook of the payment has put there.
PaymentInv(o) ==
  LET p == db[o].provider IN
  /\ checkout[o] = "new" => db[o] = NoOrder /\ charge[o] = "none"
  /\ checkout[o] # "new" => db[o] \in OrderDoc
  /\ checkout[o] \in {"created", "initiated", "saved"} \/ charge[o] # "none" => p \in Gateways
  /\ charge[o] \in {"offered", "captured"} => checkout[o] = "finished"
  /\ checkout[o] \in {"created", "initiated"} => db[o].ref = "none"
  /\ p \in Gateways => db[o].ref \in {"none", CheckoutRef[p], SuccessRef[p]}
  /\ checkout[o] = "saved" \/ charge[o] \in {"offered", "captured"}
       => db[o].ref \in {CheckoutRef[p], SuccessRef[p]}

\* What the status of an order, and whoever wrote it, say about the money.
StatusInv(o) ==
  /\ charge[o] # "captured" => ~contested[o] /\ returned[o] = 0
  /\ db[o].writer = "checkout" /\ db[o].provider \in Gateways => db[o].status = "pending"
  /\ db[o].writer # "admin" =>
       /\ db[o].status = "paid" => charge[o] = "captured"
       /\ db[o].status = "disputed" => contested[o]
       /\ db[o].status = "refunded" => returned[o] > 0

\* A webhook request in flight carries an event that the provider has sent, and its
\* save has been made when it is past it.
HookInv(h) ==
  LET j == hook[h] IN
  hook[h] # Idle =>
    /\ charge[j.order] = "captured"
    /\ j.type = "payment.succeeded" => j.status = "pending"
    /\ j.type = "dispute.created" => contested[j.order]
    /\ j.pc = "saved" /\ j.type = "payment.succeeded" => db[j.order].writer # "checkout"
    /\ j.pc = "saved" /\ j.type = "dispute.created" => db[j.order].disputed

UpdateInv(k) == update[k] # Idle => checkout[update[k].order] # "new"

\* A refund request is about an order paid through a gateway, was approved if it had
\* to be, and money has gone back once the provider has agreed.
RefundInv(k) ==
  LET j == refund[k] IN
  refund[k] # Idle =>
    /\ checkout[j.order] # "new" /\ db[j.order].provider \in Gateways
    /\ RefundAmount(j.order, j.amount) >= Threshold => j.approver \notin {NoAdmin, j.actor}
    /\ j.pc \in {"called", "saved"} => returned[j.order] > 0

\* What a 200 has promised the provider.
AckInv(e) ==
  LET p == db[e.order].provider IN
  /\ charge[e.order] = "captured"
  /\ e.type = "payment.succeeded" => db[e.order].writer # "checkout"
  /\ e.type = "dispute.created" /\ CheckoutRef[p] = DisputeRef[p] => db[e.order].disputed

IInv ==
  /\ TypeOK
  /\ \A o \in Orders : PaymentInv(o) /\ StatusInv(o)
  /\ \A h \in Hooks : HookInv(h)
  /\ \A k \in Tasks : UpdateInv(k)
  /\ \A k \in Tasks : RefundInv(k)
  /\ \A e \in acked : AckInv(e)

\* What no step undoes.
Grows(o) ==
  checkout[o] # "new" =>
    /\ checkout'[o] # "new"
    /\ db'[o].provider = db[o].provider
    /\ db'[o].total = db[o].total
    /\ db[o].writer # "checkout" => db'[o].writer # "checkout"
    /\ db[o].disputed => db'[o].disputed
    /\ charge[o] = "captured" => charge'[o] = "captured"
    /\ contested[o] => contested'[o]
    /\ returned'[o] >= returned[o]

----------------------------------------------------------------------------
(* Lemmas about data.                                                      *)

LEMMA NoOrderFields ==
  /\ NoOrder.status = "none" /\ NoOrder.writer = "none" /\ NoOrder.provider = "none"
  /\ NoOrder.total = 0 /\ NoOrder.ref = "none" /\ NoOrder.disputed = FALSE
  /\ NoOrder.provider \notin Gateways
BY OrdersAssumption DEF NoOrder

\* What the adapters hand out are references, and no order starts with one.
LEMMA KnownRefs ==
  ASSUME NEW p \in Gateways
  PROVE  /\ CheckoutRef[p] \in Refs \ {"none"} /\ SuccessRef[p] \in Refs \ {"none"}
         /\ RefundHandle[p] # "none"
         /\ CheckoutRef[p] = DisputeRef[p] => SuccessRef[p] = DisputeRef[p]
         /\ RefundHandle[p] \in {CheckoutRef[p], SuccessRef[p]} => SuccessRef[p] = RefundHandle[p]
<1>1. p \in {"stripe", "paystack", "flutterwave"}
  BY OrdersAssumption
<1>2. DOMAIN Adapters = {"stripe", "paystack", "flutterwave"}
  BY DEF Adapters
<1>3. /\ CheckoutRef[p] = Adapters[p].checkout /\ SuccessRef[p] = Adapters[p].success
      /\ DisputeRef[p] = Adapters[p].dispute /\ RefundHandle[p] = Adapters[p].refund
  BY <1>1, <1>2 DEF CheckoutRef, SuccessRef, DisputeRef, RefundHandle
<1>4. CASE p = "stripe"
  <2>1. Adapters[p] = Stripe
    BY <1>4 DEF Adapters
  <2>2. QED
    BY <1>3, <2>1 DEF Stripe, Refs
<1>5. CASE p = "paystack"
  <2>1. Adapters[p] = Paystack
    BY <1>5 DEF Adapters
  <2>2. QED
    BY <1>3, <2>1 DEF Paystack, Refs
<1>6. CASE p = "flutterwave"
  <2>1. Adapters[p] = Flutterwave
    BY <1>6 DEF Adapters
  <2>2. QED
    BY <1>3, <2>1 DEF Flutterwave, Refs
<1>7. QED
  BY <1>1, <1>4, <1>5, <1>6

\* The initial state satisfies the invariant.
LEMMA InitIInv == Init => IInv
<1> SUFFICES ASSUME Init PROVE IInv
  OBVIOUS
<1>1. \A o \in Orders : db[o] = NoOrder /\ checkout[o] = "new" /\ charge[o] = "none"
                        /\ contested[o] = FALSE /\ returned[o] = 0
  BY DEF Init
<1>2. TypeOK
  BY DEF Init, TypeOK, NoOrder
<1>3. \A o \in Orders : PaymentInv(o)
  BY <1>1, NoOrderFields DEF PaymentInv
<1>4. \A o \in Orders : StatusInv(o)
  BY <1>1, NoOrderFields DEF StatusInv
<1>5. QED
  BY <1>2, <1>3, <1>4 DEF Init, IInv, HookInv, UpdateInv, RefundInv

\* A request that is not idle is a whole job, and its order exists.
LEMMA HookIsJob ==
  ASSUME IInv, NEW h \in Hooks, hook[h].pc # "idle"
  PROVE  /\ hook[h] \in HookJob /\ hook[h] # Idle
         /\ db[hook[h].order] \in OrderDoc /\ db[hook[h].order].provider \in Gateways
         /\ checkout[hook[h].order] = "finished"
<1>1. hook[h] \in HookJob /\ hook[h] # Idle
  BY DEF IInv, TypeOK, Idle
<1>2. hook[h].order \in Orders
  BY <1>1 DEF HookJob
<1>3. charge[hook[h].order] = "captured"
  BY <1>1 DEF IInv, HookInv
<1>4. PaymentInv(hook[h].order)
  BY <1>2 DEF IInv
<1>5. QED
  BY <1>1, <1>3, <1>4 DEF PaymentInv

LEMMA UpdateIsJob ==
  ASSUME IInv, NEW k \in Tasks, update[k].pc # "idle"
  PROVE  /\ update[k] \in UpdateJob /\ update[k] # Idle
         /\ db[update[k].order] \in OrderDoc /\ checkout[update[k].order] # "new"
<1>1. update[k] \in UpdateJob /\ update[k] # Idle
  BY DEF IInv, TypeOK, Idle
<1>2. update[k].order \in Orders
  BY <1>1 DEF UpdateJob
<1>3. PaymentInv(update[k].order) /\ UpdateInv(k)
  BY <1>2 DEF IInv
<1>4. QED
  BY <1>1, <1>3 DEF PaymentInv, UpdateInv

LEMMA RefundIsJob ==
  ASSUME IInv, NEW k \in Tasks, refund[k].pc # "idle"
  PROVE  /\ refund[k] \in RefundJob /\ refund[k] # Idle
         /\ db[refund[k].order] \in OrderDoc /\ db[refund[k].order].provider \in Gateways
         /\ checkout[refund[k].order] # "new"
<1>1. refund[k] \in RefundJob /\ refund[k] # Idle
  BY DEF IInv, TypeOK, Idle
<1>2. refund[k].order \in Orders
  BY <1>1 DEF RefundJob
<1>3. PaymentInv(refund[k].order) /\ RefundInv(k)
  BY <1>2 DEF IInv
<1>4. QED
  BY <1>1, <1>3 DEF PaymentInv, RefundInv

\* What requests in flight and answers rely on is never undone.
LEMMA HooksKept ==
  ASSUME IInv, \A o \in Orders : Grows(o), NEW h \in Hooks,
         hook'[h] \in {hook[h], Idle}
  PROVE  HookInv(h)'
<1> SUFFICES ASSUME hook'[h] # Idle PROVE HookInv(h)'
  BY DEF HookInv
<1>1. hook'[h] = hook[h] /\ hook[h] \in HookJob /\ HookInv(h)
  BY DEF IInv, TypeOK
<1>2. hook[h].order \in Orders /\ hook[h].pc # "idle"
  BY <1>1 DEF HookJob
<1>3. checkout[hook[h].order] # "new" /\ Grows(hook[h].order)
  BY <1>2, HookIsJob
<1>4. QED
  BY <1>1, <1>3 DEF HookInv, Grows

LEMMA UpdatesKept ==
  ASSUME IInv, \A o \in Orders : Grows(o), NEW k \in Tasks,
         update'[k] \in {update[k], Idle}
  PROVE  UpdateInv(k)'
<1> SUFFICES ASSUME update'[k] # Idle PROVE UpdateInv(k)'
  BY DEF UpdateInv
<1>1. update'[k] = update[k] /\ update[k] \in UpdateJob /\ UpdateInv(k)
  BY DEF IInv, TypeOK
<1>2. update[k].order \in Orders
  BY <1>1 DEF UpdateJob
<1>3. QED
  BY <1>1, <1>2 DEF UpdateInv, Grows

LEMMA RefundsKept ==
  ASSUME IInv, \A o \in Orders : Grows(o), NEW k \in Tasks,
         refund'[k] \in {refund[k], Idle}, TypeOK'
  PROVE  RefundInv(k)'
<1> SUFFICES ASSUME refund'[k] # Idle PROVE RefundInv(k)'
  BY DEF RefundInv
<1>1. refund'[k] = refund[k] /\ refund[k] \in RefundJob /\ RefundInv(k)
  BY DEF IInv, TypeOK
<1>2. refund[k].order \in Orders
  BY <1>1 DEF RefundJob
<1>3. returned[refund[k].order] \in Nat /\ returned'[refund[k].order] \in Nat
  BY <1>2 DEF IInv, TypeOK
<1>4. QED
  BY <1>1, <1>2, <1>3 DEF RefundInv, Grows, RefundAmount

LEMMA AcksKept ==
  ASSUME IInv, \A o \in Orders : Grows(o), NEW e \in acked
  PROVE  AckInv(e)'
<1>1. e.order \in Orders /\ AckInv(e)
  BY DEF IInv, TypeOK, Event
<1>2. checkout[e.order] # "new"
  BY <1>1 DEF IInv, PaymentInv, AckInv
<1>3. QED
  BY <1>1, <1>2 DEF AckInv, Grows

\* When one order changes and no request becomes busy, only that order is to be shown.
LEMMA OneOrderSteps ==
  ASSUME IInv, TypeOK', NEW o \in Orders,
         \A p \in Orders \ {o} : /\ db'[p] = db[p] /\ checkout'[p] = checkout[p]
                                 /\ charge'[p] = charge[p] /\ contested'[p] = contested[p]
                                 /\ returned'[p] = returned[p],
         PaymentInv(o)', StatusInv(o)', Grows(o)
  PROVE  /\ \A p \in Orders : PaymentInv(p)' /\ StatusInv(p)'
         /\ \A p \in Orders : Grows(p)
<1>1. ASSUME NEW p \in Orders, p # o
      PROVE  PaymentInv(p)' /\ StatusInv(p)' /\ Grows(p)
  <2>1. PaymentInv(p) /\ StatusInv(p) /\ returned[p] \in Nat
    BY DEF IInv, TypeOK
  <2>2. /\ db'[p] = db[p] /\ checkout'[p] = checkout[p] /\ charge'[p] = charge[p]
        /\ contested'[p] = contested[p] /\ returned'[p] = returned[p]
    BY <1>1
  <2>3. PaymentInv(p)'
    BY <2>1, <2>2 DEF PaymentInv
  <2>4. StatusInv(p)'
    BY <2>1, <2>2 DEF StatusInv
  <2>5. Grows(p)
    BY <2>1, <2>2 DEF Grows
  <2>6. QED
    BY <2>3, <2>4, <2>5
<1>2. QED
  BY <1>1

\* A step in which every request stays as it is or ends, and nothing is answered.
LEMMA QuietStep ==
  ASSUME IInv, TypeOK', \A p \in Orders : PaymentInv(p)' /\ StatusInv(p)',
         \A p \in Orders : Grows(p),
         \A h \in Hooks : hook'[h] \in {hook[h], Idle},
         \A k \in Tasks : update'[k] \in {update[k], Idle},
         \A k \in Tasks : refund'[k] \in {refund[k], Idle},
         acked' = acked
  PROVE  IInv'
<1>1. \A h \in Hooks : HookInv(h)'
  BY HooksKept
<1>2. \A k \in Tasks : UpdateInv(k)'
  BY UpdatesKept
<1>3. \A k \in Tasks : RefundInv(k)'
  BY RefundsKept
<1>4. \A e \in acked' : AckInv(e)'
  BY AcksKept
<1>5. QED
  BY <1>1, <1>2, <1>3, <1>4 DEF IInv

----------------------------------------------------------------------------
(* Checkout and the customer.                                              *)

LEMMA NewOrderIsDoc ==
  ASSUME NEW s \in {"pending", "pending_whatsapp"}, NEW p \in Providers, NEW t \in Totals
  PROVE  /\ NewOrder(s, p, t) \in OrderDoc
         /\ NewOrder(s, p, t).status = s /\ NewOrder(s, p, t).writer = "checkout"
         /\ NewOrder(s, p, t).provider = p /\ NewOrder(s, p, t).total = t
         /\ NewOrder(s, p, t).ref = "none"
BY OrdersAssumption DEF NewOrder, NoOrder, OrderDoc, Statuses, Refs

LEMMA CreateStep ==
  ASSUME IInv, NEW o \in Orders, NEW s \in {"pending", "pending_whatsapp"},
         NEW p \in Providers, NEW t \in Totals, NEW pc \in {"created", "finished"},
         checkout[o] = "new", p \in Gateways => s = "pending",
         pc = "created" => p \in Gateways,
         db' = [db EXCEPT ![o] = NewOrder(s, p, t)], Goto(o, pc),
         UNCHANGED <<external, acked, hook, adminVars, emails, audit, failures>>
  PROVE  IInv'
<1>1. /\ TypeOK /\ PaymentInv(o) /\ StatusInv(o)
      /\ db[o] = NoOrder /\ charge[o] = "none" /\ returned[o] = 0
  BY DEF IInv, PaymentInv, StatusInv
<1>2. /\ db'[o] = NewOrder(s, p, t) /\ checkout'[o] = pc
      /\ \A q \in Orders \ {o} : db'[q] = db[q] /\ checkout'[q] = checkout[q]
      /\ charge' = charge /\ contested' = contested /\ returned' = returned
      /\ hook' = hook /\ update' = update /\ refund' = refund /\ acked' = acked
  BY <1>1 DEF TypeOK, Goto, external, adminVars
<1>3. TypeOK'
  <2>1. db' \in [Orders -> OrderDoc \cup {NoOrder}]
    BY <1>1, NewOrderIsDoc DEF TypeOK
  <2>2. \A q \in Orders : returned'[q] <= db'[q].total
    BY <1>1, <1>2, NewOrderIsDoc, OrdersAssumption DEF TypeOK
  <2>3. QED
    BY <1>1, <2>1, <2>2 DEF TypeOK, Goto, external, adminVars
<1>4. PaymentInv(o)'
  BY <1>1, <1>2, NewOrderIsDoc DEF PaymentInv
<1>5. StatusInv(o)'
  BY <1>1, <1>2, NewOrderIsDoc DEF StatusInv
<1>6. Grows(o)
  BY DEF Grows
<1>7. QED
  BY <1>2, <1>3, <1>4, <1>5, <1>6, OneOrderSteps, QuietStep

LEMMA PlaceOrderStep ==
  ASSUME IInv, NEW o \in Orders, PlaceOrder(o) \/ PlaceOrderWhatsApp(o)
  PROVE  IInv'
<1>1. CASE PlaceOrder(o)
  <2>1. PICK p \in Gateways, t \in Totals : db' = [db EXCEPT ![o] = NewOrder("pending", p, t)]
    BY <1>1 DEF PlaceOrder
  <2>2. QED
    BY <1>1, <2>1, CreateStep DEF PlaceOrder, Providers
<1>2. CASE PlaceOrderWhatsApp(o)
  <2>1. PICK t \in Totals : db' = [db EXCEPT ![o] = NewOrder("pending_whatsapp", "manual", t)]
    BY <1>2 DEF PlaceOrderWhatsApp
  <2>2. "manual" \in Providers /\ "manual" \notin Gateways
    BY OrdersAssumption DEF Providers
  <2>3. QED
    BY <1>2, <2>1, <2>2, CreateStep DEF PlaceOrderWhatsApp
<1>3. QED
  BY <1>1, <1>2

\* Steps that move checkout or the payment and leave every document alone.
LEMMA MoneyStep ==
  ASSUME IInv, NEW o \in Orders,
         \/ InitiatePayment(o) \/ InitiateFails(o) \/ Respond(o)
         \/ CheckoutDies(o) \/ CustomerPays(o) \/ CustomerDisputes(o)
  PROVE  IInv'
<1>1. TypeOK /\ PaymentInv(o) /\ StatusInv(o)
  BY DEF IInv
<1>2. UNCHANGED <<db, returned, issued, acked, hook, update, refund, updates, emails, audit>>
  BY DEF InitiatePayment, InitiateFails, Respond, CheckoutDies, CustomerPays,
         CustomerDisputes, external, adminVars
<1>21. \A q \in Orders \ {o} : checkout'[q] = checkout[q]
  BY <1>1 DEF TypeOK, InitiatePayment, InitiateFails, Respond, CheckoutDies, CustomerPays,
              CustomerDisputes, Goto
<1>22. \A q \in Orders \ {o} : charge'[q] = charge[q] /\ contested'[q] = contested[q]
  BY <1>1 DEF TypeOK, InitiatePayment, InitiateFails, Respond, CheckoutDies, CustomerPays,
              CustomerDisputes, external
<1>3. TypeOK'
  <2>1. checkout' \in [Orders -> {"new", "created", "initiated", "saved", "finished"}]
    BY <1>1 DEF TypeOK, InitiatePayment, InitiateFails, Respond, CheckoutDies, CustomerPays,
                CustomerDisputes, Goto
  <2>2. charge' \in [Orders -> {"none", "open", "offered", "captured"}]
    BY <1>1 DEF TypeOK, InitiatePayment, InitiateFails, Respond, CheckoutDies, CustomerPays,
                CustomerDisputes, external
  <2>3. contested' \in [Orders -> BOOLEAN]
    BY <1>1 DEF TypeOK, InitiatePayment, InitiateFails, Respond, CheckoutDies, CustomerPays,
                CustomerDisputes, external
  <2>4. failures' \in Nat
    BY <1>1 DEF TypeOK, InitiatePayment, InitiateFails, Respond, CheckoutDies, CustomerPays,
                CustomerDisputes
  <2>5. QED
    BY <1>1, <1>2, <2>1, <2>2, <2>3, <2>4 DEF TypeOK
<1>4. PaymentInv(o)'
  BY <1>1 DEF PaymentInv, TypeOK, InitiatePayment, InitiateFails, Respond, CheckoutDies,
              CustomerPays, CustomerDisputes, Goto, external
<1>5. StatusInv(o)' /\ Grows(o)
  BY <1>1 DEF PaymentInv, StatusInv, Grows, TypeOK, InitiatePayment, InitiateFails, Respond,
              CheckoutDies, CustomerPays, CustomerDisputes, Goto, external
<1>6. QED
  BY <1>2, <1>21, <1>22, <1>3, <1>4, <1>5, OneOrderSteps, QuietStep

\* The save of placeOrder puts checkout's reference on an order that has none yet.
LEMMA SaveReferenceStep ==
  ASSUME IInv, NEW o \in Orders, SaveReference(o)
  PROVE  IInv'
<1> DEFINE p == db[o].provider
<1>1. /\ TypeOK /\ PaymentInv(o) /\ StatusInv(o) /\ db[o] \in OrderDoc
      /\ p \in Gateways /\ checkout[o] = "initiated" /\ charge[o] \notin {"offered", "captured"}
  BY DEF IInv, PaymentInv, SaveReference
<1>2. CheckoutRef[p] \in Refs
  BY <1>1, KnownRefs
<1>3. /\ db'[o] \in OrderDoc
      /\ db'[o].status = db[o].status /\ db'[o].writer = db[o].writer
      /\ db'[o].provider = p /\ db'[o].total = db[o].total /\ db'[o].disputed = db[o].disputed
      /\ db'[o].ref = CheckoutRef[p]
  BY <1>1, <1>2 DEF SaveReference, TypeOK, OrderDoc
<1>4. /\ checkout'[o] = "saved"
      /\ \A q \in Orders \ {o} : db'[q] = db[q] /\ checkout'[q] = checkout[q]
      /\ UNCHANGED <<charge, contested, returned, issued, acked, hook, update, refund,
                     updates, emails, audit, failures>>
  BY <1>1 DEF SaveReference, Goto, TypeOK, external, adminVars
<1>5. TypeOK'
  <2>1. db' \in [Orders -> OrderDoc \cup {NoOrder}]
    BY <1>1, <1>3, <1>4 DEF TypeOK, SaveReference
  <2>2. checkout' \in [Orders -> {"new", "created", "initiated", "saved", "finished"}]
    BY <1>1 DEF TypeOK, SaveReference, Goto
  <2>3. QED
    BY <1>1, <1>3, <1>4, <2>1, <2>2 DEF TypeOK
<1>6. PaymentInv(o)'
  BY <1>1, <1>3, <1>4 DEF PaymentInv
<1>7. StatusInv(o)' /\ Grows(o)
  BY <1>1, <1>3, <1>4 DEF StatusInv, Grows, TypeOK
<1>8. QED
  BY <1>4, <1>5, <1>6, <1>7, OneOrderSteps, QuietStep

----------------------------------------------------------------------------
(* Webhooks.                                                               *)

\* Finding the order: what the request is about is taken from an event that was sent.
LEMMA HookFindStep ==
  ASSUME IInv, NEW h \in Hooks, NEW e \in Event, HookFind(h, e)
  PROVE  IInv'
<1> DEFINE o == e.order
<1>1. /\ TypeOK /\ o \in Orders /\ PaymentInv(o) /\ StatusInv(o)
      /\ e.type \in {"payment.succeeded", "dispute.created"}
  BY DEF IInv, Event
<1>2. /\ charge[o] = "captured" /\ db[o] \in OrderDoc
      /\ e.type = "dispute.created" => contested[o]
      /\ e.type = "payment.succeeded" => db[o].status = "pending"
  BY <1>1 DEF PaymentInv, StatusInv, HookFind, Sent, Finds, TypeOK
<1>3. /\ UNCHANGED <<db, checkout, charge, contested, returned, issued, acked, update, refund,
                     updates, emails, audit, failures>>
      /\ \A i \in Hooks \ {h} : hook'[i] = hook[i]
      /\ hook'[h] = [pc |-> "found", type |-> e.type, order |-> o,
                     status |-> db[o].status, ref |-> db[o].ref]
  BY <1>1 DEF HookFind, TypeOK, external, adminVars
<1>4. hook'[h] \in HookJob
  BY <1>1, <1>2, <1>3 DEF HookJob, OrderDoc
<1>5. TypeOK'
  <2>1. hook' \in [Hooks -> HookJob \cup {Idle}]
    BY <1>1, <1>3, <1>4 DEF TypeOK, HookFind
  <2>2. QED
    BY <1>1, <1>3, <2>1 DEF TypeOK
<1>6. \A q \in Orders : PaymentInv(q)' /\ StatusInv(q)' /\ Grows(q)
  <2> SUFFICES ASSUME NEW q \in Orders PROVE PaymentInv(q)' /\ StatusInv(q)' /\ Grows(q)
    OBVIOUS
  <2>1. PaymentInv(q) /\ StatusInv(q) /\ returned[q] \in Nat
    BY DEF IInv, TypeOK
  <2>2. QED
    BY <1>3, <2>1 DEF PaymentInv, StatusInv, Grows
<1>7. \A i \in Hooks : HookInv(i)'
  <2>1. HookInv(h)'
    BY <1>1, <1>2, <1>3 DEF HookInv
  <2>2. QED
    BY <1>3, <1>6, <2>1, HooksKept
<1>8. QED
  BY <1>3, <1>5, <1>6, <1>7, UpdatesKept, RefundsKept, AcksKept DEF IInv

\* An answer that changes nothing: the event has been dealt with before.
LEMMA HookIgnoreStep ==
  ASSUME IInv, NEW h \in Hooks, NEW e \in Event, HookIgnore(h, e)
  PROVE  IInv'
<1> DEFINE o == e.order
<1> DEFINE p == db[o].provider
<1>1. /\ TypeOK /\ o \in Orders /\ PaymentInv(o) /\ StatusInv(o)
      /\ e.type \in {"payment.succeeded", "dispute.created"}
  BY DEF IInv, Event
<1>2. /\ charge[o] = "captured" /\ p \in Gateways
      /\ db[o].ref \in {CheckoutRef[p], SuccessRef[p]}
  BY <1>1 DEF PaymentInv, StatusInv, HookIgnore, Sent
<1>3. ~Finds(e) /\ acked' = acked \cup {e}
      /\ UNCHANGED <<db, checkout, charge, contested, returned, issued, hook, update, refund,
                     updates, emails, audit, failures>>
  BY DEF HookIgnore, external, adminVars
<1>4. TypeOK'
  BY <1>1, <1>3 DEF TypeOK
<1>5. \A q \in Orders : PaymentInv(q)' /\ StatusInv(q)' /\ Grows(q)
  <2> SUFFICES ASSUME NEW q \in Orders PROVE PaymentInv(q)' /\ StatusInv(q)' /\ Grows(q)
    OBVIOUS
  <2>1. PaymentInv(q) /\ StatusInv(q) /\ returned[q] \in Nat
    BY DEF IInv, TypeOK
  <2>2. QED
    BY <1>3, <2>1 DEF PaymentInv, StatusInv, Grows
<1>6. AckInv(e)'
  <2>1. e.type = "payment.succeeded" => db[o].writer # "checkout"
    BY <1>1, <1>2, <1>3 DEF Finds, StatusInv
  <2>2. e.type = "dispute.created" => CheckoutRef[p] # DisputeRef[p]
    BY <1>1, <1>2, <1>3, KnownRefs DEF Finds
  <2>3. QED
    BY <1>2, <1>3, <2>1, <2>2 DEF AckInv
<1>7. \A f \in acked' : AckInv(f)'
  BY <1>3, <1>5, <1>6, AcksKept
<1>8. QED
  BY <1>3, <1>4, <1>5, <1>7, HooksKept, UpdatesKept, RefundsKept DEF IInv

\* The save.  A success leaves the order "paid"; a dispute leaves it "disputed", or, if
\* it was read as disputed already, leaves the status as it is by now.
LEMMA HookSaveDoc ==
  ASSUME IInv, NEW h \in Hooks, HookSave(h)
  PROVE  LET j == hook[h]
             o == j.order
             p == db[o].provider
             paid == j.type = "payment.succeeded"
         IN
         /\ j \in HookJob /\ j # Idle /\ o \in Orders /\ db[o] \in OrderDoc /\ p \in Gateways
         /\ checkout[o] = "finished" /\ charge[o] = "captured"
         /\ ~paid => j.type = "dispute.created" /\ contested[o]
         /\ db'[o] \in OrderDoc
         /\ db'[o].provider = p /\ db'[o].total = db[o].total
         /\ paid => db'[o].status = "paid" /\ db'[o].writer = "webhook"
                   /\ db'[o].ref \in {db[o].ref, SuccessRef[p]} /\ db'[o].disputed = db[o].disputed
         /\ ~paid => db'[o].disputed = TRUE /\ db'[o].ref = db[o].ref
                    /\ \/ db'[o].status = "disputed" /\ db'[o].writer = "webhook"
                       \/ db'[o].status = db[o].status /\ db'[o].writer = db[o].writer
         /\ \A q \in Orders \ {o} : db'[q] = db[q]
<1> DEFINE j == hook[h]
<1> DEFINE o == j.order
<1> DEFINE p == db[o].provider
<1> DEFINE paid == j.type = "payment.succeeded"
<1>1. /\ TypeOK /\ j \in HookJob /\ j.pc = "found" /\ db[o] \in OrderDoc
      /\ p \in Gateways /\ checkout[o] = "finished" /\ HookInv(h) /\ j # Idle
  <2>1. j.pc = "found"
    BY DEF HookSave
  <2>2. QED
    BY <2>1, HookIsJob DEF IInv
<1>2. o \in Orders /\ j.type \in {"payment.succeeded", "dispute.created"} /\ j.status \in Statuses
  BY <1>1 DEF HookJob
<1>3. /\ PaymentInv(o) /\ StatusInv(o) /\ charge[o] = "captured"
      /\ paid => j.status = "pending"
      /\ ~paid => contested[o]
  BY <1>1, <1>2 DEF IInv, HookInv
<1>4. /\ db'[o] \in OrderDoc
      /\ db'[o].provider = p /\ db'[o].total = db[o].total
      /\ paid => db'[o].status = "paid" /\ db'[o].writer = "webhook"
                /\ db'[o].ref \in {db[o].ref, SuccessRef[p]} /\ db'[o].disputed = db[o].disputed
      /\ ~paid => db'[o].disputed = TRUE /\ db'[o].ref = db[o].ref
                 /\ \/ db'[o].status = "disputed" /\ db'[o].writer = "webhook"
                    \/ db'[o].status = db[o].status /\ db'[o].writer = db[o].writer
      /\ \A q \in Orders \ {o} : db'[q] = db[q]
  <2> DEFINE status == IF paid THEN "paid" ELSE "disputed"
  <2> DEFINE ref == IF paid THEN SuccessRef[p] ELSE j.ref
  <2> DEFINE d == [db[o] EXCEPT !.status = Saved(status, j.status, @),
                                !.writer = IF status = j.status THEN @ ELSE "webhook",
                                !.ref = Saved(ref, j.ref, @),
                                !.disputed = @ \/ ~paid]
  <2>1. db'[o] = d /\ \A q \in Orders \ {o} : db'[q] = db[q]
    BY <1>1, <1>2 DEF HookSave, TypeOK
  <2>2. /\ Saved(status, j.status, db[o].status) \in Statuses
        /\ Saved(ref, j.ref, db[o].ref) \in Refs
    BY <1>1, <1>2, KnownRefs DEF Saved, OrderDoc, Statuses
  <2>3. /\ d \in OrderDoc /\ d.provider = p /\ d.total = db[o].total
        /\ d.status = Saved(status, j.status, db[o].status)
        /\ d.writer = (IF status = j.status THEN db[o].writer ELSE "webhook")
        /\ d.ref = Saved(ref, j.ref, db[o].ref)
        /\ d.disputed = (db[o].disputed \/ ~paid)
    BY <1>1, <2>2 DEF OrderDoc
  <2>4. db[o].disputed \in BOOLEAN
    BY <1>1 DEF OrderDoc
  <2>5. QED
    BY <1>2, <1>3, <2>1, <2>3, <2>4 DEF Saved
<1>5. QED
  BY <1>1, <1>2, <1>3, <1>4

LEMMA HookSaveStep ==
  ASSUME IInv, NEW h \in Hooks, HookSave(h)
  PROVE  IInv'
<1> DEFINE j == hook[h]
<1> DEFINE o == j.order
<1> DEFINE p == db[o].provider
<1> DEFINE paid == j.type = "payment.succeeded"
<1>1. /\ TypeOK /\ j \in HookJob /\ j # Idle /\ o \in Orders /\ db[o] \in OrderDoc
      /\ p \in Gateways /\ checkout[o] = "finished" /\ charge[o] = "captured"
      /\ ~paid => j.type = "dispute.created" /\ contested[o]
  BY HookSaveDoc DEF IInv
<1>2. PaymentInv(o) /\ StatusInv(o) /\ HookInv(h)
  BY <1>1 DEF IInv
<1>4. /\ db'[o] \in OrderDoc
      /\ db'[o].provider = p /\ db'[o].total = db[o].total
      /\ paid => db'[o].status = "paid" /\ db'[o].writer = "webhook"
                /\ db'[o].ref \in {db[o].ref, SuccessRef[p]} /\ db'[o].disputed = db[o].disputed
      /\ ~paid => db'[o].disputed = TRUE /\ db'[o].ref = db[o].ref
                 /\ \/ db'[o].status = "disputed" /\ db'[o].writer = "webhook"
                    \/ db'[o].status = db[o].status /\ db'[o].writer = db[o].writer
      /\ \A q \in Orders \ {o} : db'[q] = db[q]
  BY HookSaveDoc
<1>5. /\ UNCHANGED <<checkout, charge, contested, returned, issued, acked, update, refund,
                     updates, emails, audit, failures>>
      /\ \A i \in Hooks \ {h} : hook'[i] = hook[i]
      /\ hook'[h] \in HookJob /\ hook'[h].order = o /\ hook'[h].type = j.type
      /\ hook'[h].status = j.status
  BY <1>1 DEF HookSave, TypeOK, external, adminVars, HookJob
<1>6. TypeOK'
  <2>1. db' \in [Orders -> OrderDoc \cup {NoOrder}]
    BY <1>1, <1>4 DEF TypeOK, HookSave
  <2>2. hook' \in [Hooks -> HookJob \cup {Idle}]
    BY <1>1, <1>5 DEF TypeOK, HookSave
  <2>3. \A q \in Orders : returned'[q] <= db'[q].total
    BY <1>1, <1>4, <1>5 DEF TypeOK
  <2>4. QED
    BY <1>1, <1>5, <2>1, <2>2, <2>3 DEF TypeOK
<1>7. PaymentInv(o)'
  BY ZenonT(60), <1>1, <1>2, <1>4, <1>5 DEF PaymentInv
<1>8. StatusInv(o)' /\ Grows(o)
  BY <1>1, <1>2, <1>4, <1>5 DEF StatusInv, Grows, TypeOK
<1>9. \A q \in Orders : PaymentInv(q)' /\ StatusInv(q)' /\ Grows(q)
  BY <1>1, <1>4, <1>5, <1>6, <1>7, <1>8, OneOrderSteps
<1>10. \A i \in Hooks : HookInv(i)'
  <2>1. HookInv(h)'
    BY <1>1, <1>2, <1>4, <1>5 DEF HookInv
  <2>2. QED
    BY <1>5, <1>9, <2>1, HooksKept
<1>11. QED
  BY <1>5, <1>6, <1>9, <1>10, UpdatesKept, RefundsKept, AcksKept DEF IInv

\* The last step of a delivery, with its 200, and the death of one.
LEMMA HookEndStep ==
  ASSUME IInv, NEW h \in Hooks,
         HookEnqueue(h) \/ HookAudit(h) \/ HookSwallows(h) \/ HookDies(h)
  PROVE  IInv'
<1> DEFINE j == hook[h]
<1>1. TypeOK /\ j.pc # "idle"
  BY DEF IInv, HookEnqueue, HookAudit, HookSwallows, HookDies, TypeOK, HookJob, Idle
<1>2. /\ j \in HookJob /\ j # Idle /\ HookInv(h)
      /\ j.order \in Orders /\ j.type \in {"payment.succeeded", "dispute.created"}
  BY <1>1, HookIsJob DEF IInv, HookJob
<1>21. PICK e \in Event : e = [type |-> j.type, order |-> j.order]
  BY <1>2 DEF Event
<1>3. UNCHANGED <<db, checkout, charge, contested, returned, issued, update, refund, updates>>
  BY DEF HookEnqueue, HookAudit, HookSwallows, HookDies, external, adminVars
<1>4. /\ hook' = [hook EXCEPT ![h] = Idle]
      /\ acked' = acked \/ (acked' = acked \cup {e} /\ j.pc = "saved")
  BY <1>21 DEF HookEnqueue, HookAudit, HookSwallows, HookDies, Answer
<1>5. TypeOK'
  <2>1. emails' \in [Orders -> Nat] /\ failures' \in Nat
    BY <1>1, <1>2 DEF TypeOK, HookEnqueue, HookAudit, HookSwallows, HookDies
  <2>2. audit' \subseteq Entry
    BY <1>1, <1>2 DEF TypeOK, HookEnqueue, HookAudit, HookSwallows, HookDies, Entry
  <2>3. hook' \in [Hooks -> HookJob \cup {Idle}] /\ acked' \subseteq Event
    BY <1>1, <1>2, <1>4 DEF TypeOK
  <2>4. QED
    BY <1>1, <1>3, <2>1, <2>2, <2>3 DEF TypeOK
<1>6. \A q \in Orders : PaymentInv(q)' /\ StatusInv(q)' /\ Grows(q)
  <2> SUFFICES ASSUME NEW q \in Orders PROVE PaymentInv(q)' /\ StatusInv(q)' /\ Grows(q)
    OBVIOUS
  <2>1. PaymentInv(q) /\ StatusInv(q) /\ returned[q] \in Nat
    BY DEF IInv, TypeOK
  <2>2. QED
    BY <1>3, <2>1 DEF PaymentInv, StatusInv, Grows
<1>7. \A i \in Hooks : HookInv(i)'
  <2>1. \A i \in Hooks : hook'[i] \in {hook[i], Idle}
    BY <1>1, <1>4 DEF TypeOK
  <2>2. QED
    BY <1>6, <2>1, HooksKept
<1>8. \A f \in acked' : AckInv(f)'
  <2>1. ASSUME j.pc = "saved" PROVE AckInv(e)'
    BY <1>2, <1>21, <1>3, <2>1 DEF HookInv, AckInv
  <2>2. QED
    BY <1>4, <1>6, <2>1, AcksKept
<1>9. QED
  BY <1>3, <1>5, <1>6, <1>7, <1>8, UpdatesKept, RefundsKept DEF IInv

----------------------------------------------------------------------------
(* Administrators: statuses.                                               *)

LEMMA UpdateFindStep ==
  ASSUME IInv, NEW k \in Tasks, NEW a \in Admins, NEW o \in Orders, NEW s \in Targets,
         UpdateFind(k, a, o, s)
  PROVE  IInv'
<1>1. TypeOK /\ PaymentInv(o) /\ s \in Statuses
  BY OrdersAssumption DEF IInv
<1>2. checkout[o] # "new" /\ db[o] \in OrderDoc
  BY <1>1, NoOrderFields DEF UpdateFind, PaymentInv
<1>3. /\ UNCHANGED <<db, checkout, charge, contested, returned, issued, acked, hook, refund,
                     emails, audit, failures>>
      /\ updates' = updates + 1
  BY DEF UpdateFind, external
<1>4. /\ \A i \in Tasks \ {k} : update'[i] = update[i]
      /\ update'[k] = [pc |-> "found", actor |-> a, order |-> o, to |-> s, from |-> db[o].status]
  BY <1>1 DEF UpdateFind, TypeOK
<1>5. update'[k] \in UpdateJob /\ update'[k].order = o
  BY <1>1, <1>2, <1>4 DEF UpdateJob, OrderDoc
<1>6. TypeOK'
  <2>1. update' \in [Tasks -> UpdateJob \cup {Idle}]
    BY <1>1, <1>4, <1>5 DEF TypeOK, UpdateFind
  <2>2. QED
    BY <1>1, <1>3, <2>1 DEF TypeOK
<1>7. \A q \in Orders : PaymentInv(q)' /\ StatusInv(q)' /\ Grows(q)
  <2> SUFFICES ASSUME NEW q \in Orders PROVE PaymentInv(q)' /\ StatusInv(q)' /\ Grows(q)
    OBVIOUS
  <2>1. PaymentInv(q) /\ StatusInv(q) /\ returned[q] \in Nat
    BY DEF IInv, TypeOK
  <2>2. QED
    BY <1>3, <2>1 DEF PaymentInv, StatusInv, Grows
<1>8. \A i \in Tasks : UpdateInv(i)'
  <2>1. UpdateInv(k)'
    BY <1>2, <1>3, <1>5 DEF UpdateInv
  <2>2. QED
    BY <1>4, <1>7, <2>1, UpdatesKept
<1>9. QED
  BY <1>3, <1>6, <1>7, <1>8, HooksKept, RefundsKept, AcksKept DEF IInv

\* The save writes the status an administrator asked for, unless it was read as such.
LEMMA UpdateSaveDoc ==
  ASSUME IInv, NEW k \in Tasks, UpdateSave(k)
  PROVE  LET j == update[k]
             o == j.order
         IN
         /\ j \in UpdateJob /\ o \in Orders /\ j.to \in Statuses /\ db[o] \in OrderDoc
         /\ checkout[o] # "new"
         /\ db'[o] \in OrderDoc
         /\ db'[o].provider = db[o].provider /\ db'[o].total = db[o].total
         /\ db'[o].ref = db[o].ref /\ db'[o].disputed = db[o].disputed
         /\ \/ db'[o].status = j.to /\ db'[o].writer = "admin"
            \/ db'[o].status = db[o].status /\ db'[o].writer = db[o].writer
         /\ \A q \in Orders \ {o} : db'[q] = db[q]
<1> DEFINE j == update[k]
<1> DEFINE o == j.order
<1>1. /\ TypeOK /\ j \in UpdateJob /\ j.pc = "found" /\ db[o] \in OrderDoc
      /\ checkout[o] # "new" /\ UpdateInv(k)
  <2>1. j.pc = "found"
    BY DEF UpdateSave
  <2>2. QED
    BY <2>1, UpdateIsJob DEF IInv
<1>2. o \in Orders /\ j.to \in Statuses
  BY <1>1 DEF UpdateJob
<1>4. /\ db'[o] \in OrderDoc
      /\ db'[o].provider = db[o].provider /\ db'[o].total = db[o].total
      /\ db'[o].ref = db[o].ref /\ db'[o].disputed = db[o].disputed
      /\ \/ db'[o].status = j.to /\ db'[o].writer = "admin"
         \/ db'[o].status = db[o].status /\ db'[o].writer = db[o].writer
      /\ \A q \in Orders \ {o} : db'[q] = db[q]
  <2> DEFINE d == [db[o] EXCEPT !.status = Saved(j.to, j.from, @),
                                !.writer = IF j.to = j.from THEN @ ELSE "admin"]
  <2>1. db'[o] = d /\ \A q \in Orders \ {o} : db'[q] = db[q]
    BY <1>1, <1>2 DEF UpdateSave, TypeOK
  <2>2. Saved(j.to, j.from, db[o].status) \in Statuses
    BY <1>1, <1>2 DEF Saved, OrderDoc
  <2>3. /\ d \in OrderDoc /\ d.provider = db[o].provider /\ d.total = db[o].total
        /\ d.ref = db[o].ref /\ d.disputed = db[o].disputed
        /\ d.status = Saved(j.to, j.from, db[o].status)
        /\ d.writer = (IF j.to = j.from THEN db[o].writer ELSE "admin")
    BY <1>1, <2>2 DEF OrderDoc
  <2>4. QED
    BY <2>1, <2>3 DEF Saved
<1>5. QED
  BY <1>1, <1>2, <1>4

LEMMA UpdateSaveStep ==
  ASSUME IInv, NEW k \in Tasks, UpdateSave(k)
  PROVE  IInv'
<1> DEFINE j == update[k]
<1> DEFINE o == j.order
<1>1. /\ TypeOK /\ j \in UpdateJob /\ o \in Orders /\ db[o] \in OrderDoc
      /\ checkout[o] # "new" /\ j.to \in Statuses
  BY UpdateSaveDoc DEF IInv
<1>3. PaymentInv(o) /\ StatusInv(o) /\ UpdateInv(k)
  BY <1>1 DEF IInv
<1>4. /\ db'[o] \in OrderDoc
      /\ db'[o].provider = db[o].provider /\ db'[o].total = db[o].total
      /\ db'[o].ref = db[o].ref /\ db'[o].disputed = db[o].disputed
      /\ \/ db'[o].status = j.to /\ db'[o].writer = "admin"
         \/ db'[o].status = db[o].status /\ db'[o].writer = db[o].writer
      /\ \A q \in Orders \ {o} : db'[q] = db[q]
  BY UpdateSaveDoc
<1>5. /\ UNCHANGED <<checkout, charge, contested, returned, issued, acked, hook, refund,
                     updates, emails, audit, failures>>
      /\ \A i \in Tasks \ {k} : update'[i] = update[i]
      /\ update'[k] \in UpdateJob /\ update'[k].order = o
  BY <1>1 DEF UpdateSave, TypeOK, external, UpdateJob
<1>6. TypeOK'
  <2>1. db' \in [Orders -> OrderDoc \cup {NoOrder}]
    BY <1>1, <1>4 DEF TypeOK, UpdateSave
  <2>2. update' \in [Tasks -> UpdateJob \cup {Idle}]
    BY <1>1, <1>5 DEF TypeOK, UpdateSave
  <2>3. \A q \in Orders : returned'[q] <= db'[q].total
    BY <1>1, <1>4, <1>5 DEF TypeOK
  <2>4. QED
    BY <1>1, <1>5, <2>1, <2>2, <2>3 DEF TypeOK
<1>7. PaymentInv(o)'
  BY <1>1, <1>3, <1>4, <1>5 DEF PaymentInv
<1>8. StatusInv(o)' /\ Grows(o)
  BY <1>1, <1>3, <1>4, <1>5 DEF StatusInv, Grows, TypeOK
<1>9. \A q \in Orders : PaymentInv(q)' /\ StatusInv(q)' /\ Grows(q)
  BY <1>1, <1>4, <1>5, <1>6, <1>7, <1>8, OneOrderSteps
<1>10. \A i \in Tasks : UpdateInv(i)'
  <2>1. UpdateInv(k)'
    BY <1>1, <1>5 DEF UpdateInv
  <2>2. QED
    BY <1>5, <1>9, <2>1, UpdatesKept
<1>11. QED
  BY <1>5, <1>6, <1>9, <1>10, HooksKept, RefundsKept, AcksKept DEF IInv

LEMMA UpdateEndStep ==
  ASSUME IInv, NEW k \in Tasks, UpdateAudit(k) \/ UpdateDies(k)
  PROVE  IInv'
<1>1. TypeOK /\ update[k].pc # "idle"
  BY DEF IInv, UpdateAudit, UpdateDies, TypeOK, UpdateJob, Idle
<1>2. update[k] \in UpdateJob
  BY <1>1, UpdateIsJob
<1>3. /\ UNCHANGED <<db, checkout, charge, contested, returned, issued, acked, hook, refund,
                     updates, emails>>
      /\ update' = [update EXCEPT ![k] = Idle]
  BY DEF UpdateAudit, UpdateDies, external
<1>4. TypeOK'
  <2>1. failures' \in Nat /\ audit' \subseteq Entry
    BY <1>1, <1>2 DEF TypeOK, UpdateAudit, UpdateDies, Entry, UpdateJob
  <2>2. update' \in [Tasks -> UpdateJob \cup {Idle}]
    BY <1>1, <1>3 DEF TypeOK
  <2>3. QED
    BY <1>1, <1>3, <2>1, <2>2 DEF TypeOK
<1>5. \A q \in Orders : PaymentInv(q)' /\ StatusInv(q)' /\ Grows(q)
  <2> SUFFICES ASSUME NEW q \in Orders PROVE PaymentInv(q)' /\ StatusInv(q)' /\ Grows(q)
    OBVIOUS
  <2>1. PaymentInv(q) /\ StatusInv(q) /\ returned[q] \in Nat
    BY DEF IInv, TypeOK
  <2>2. QED
    BY <1>3, <2>1 DEF PaymentInv, StatusInv, Grows
<1>6. \A i \in Tasks : update'[i] \in {update[i], Idle}
  BY <1>1, <1>3 DEF TypeOK
<1>7. QED
  BY <1>3, <1>4, <1>5, <1>6, QuietStep

----------------------------------------------------------------------------
(* Administrators: refunds.                                                *)

LEMMA RefundCheckStep ==
  ASSUME IInv, NEW k \in Tasks, NEW a \in Admins, NEW o \in Orders, NEW m \in Amounts,
         NEW b \in Approvers \cup {NoAdmin}, RefundCheck(k, a, o, m, b)
  PROVE  IInv'
<1>1. TypeOK /\ PaymentInv(o)
  BY DEF IInv
<1>2. /\ checkout[o] # "new" /\ db[o] \in OrderDoc /\ db[o].provider \in Gateways
      /\ RefundAmount(o, m) >= Threshold => b \notin {NoAdmin, a}
  <2>1. checkout[o] # "new" /\ db[o] \in OrderDoc
    BY <1>1, NoOrderFields DEF RefundCheck, PaymentInv, Refundable
  <2>2. QED
    BY <2>1 DEF RefundCheck, OrderDoc, Providers
<1>3. UNCHANGED <<db, checkout, charge, contested, returned, issued, acked, hook, update,
                  updates, emails, audit, failures>>
  BY DEF RefundCheck, external
<1>4. /\ \A i \in Tasks \ {k} : refund'[i] = refund[i]
      /\ refund'[k] = [pc |-> "checked", actor |-> a, order |-> o, amount |-> m,
                       approver |-> b, ref |-> db[o].ref, issuedBy |-> db[o].issuedBy, id |-> 0]
  BY <1>1 DEF RefundCheck, TypeOK
<1>5. /\ refund'[k] \in RefundJob
      /\ refund'[k].order = o /\ refund'[k].amount = m /\ refund'[k].approver = b
      /\ refund'[k].actor = a /\ refund'[k].pc = "checked"
  BY <1>2, <1>4 DEF RefundJob, OrderDoc
<1>6. TypeOK'
  <2>1. refund' \in [Tasks -> RefundJob \cup {Idle}]
    BY <1>1, <1>4, <1>5 DEF TypeOK, RefundCheck
  <2>2. QED
    BY <1>1, <1>3, <2>1 DEF TypeOK
<1>7. \A q \in Orders : PaymentInv(q)' /\ StatusInv(q)' /\ Grows(q)
  <2> SUFFICES ASSUME NEW q \in Orders PROVE PaymentInv(q)' /\ StatusInv(q)' /\ Grows(q)
    OBVIOUS
  <2>1. PaymentInv(q) /\ StatusInv(q) /\ returned[q] \in Nat
    BY DEF IInv, TypeOK
  <2>2. QED
    BY <1>3, <2>1 DEF PaymentInv, StatusInv, Grows
<1>8. \A i \in Tasks : RefundInv(i)'
  <2>1. RefundInv(k)'
    BY <1>2, <1>3, <1>5 DEF RefundInv, RefundAmount
  <2>2. QED
    BY <1>4, <1>6, <1>7, <2>1, RefundsKept
<1>9. QED
  BY <1>3, <1>6, <1>7, <1>8, HooksKept, UpdatesKept, AcksKept DEF IInv

\* The provider pays: `returned` grows, within the total of a captured order.
LEMMA RefundCallStep ==
  ASSUME IInv, NEW k \in Tasks, RefundCall(k)
  PROVE  IInv'
<1> DEFINE j == refund[k]
<1> DEFINE o == j.order
<1> DEFINE sum == returned[o] + Payable(j)
<1>1. /\ TypeOK /\ j \in RefundJob /\ j.pc = "checked" /\ db[o] \in OrderDoc
      /\ checkout[o] # "new" /\ RefundInv(k) /\ j # Idle
  <2>1. j.pc = "checked"
    BY DEF RefundCall
  <2>2. QED
    BY <2>1, RefundIsJob DEF IInv
<1>2. o \in Orders /\ j.amount \in Nat
  BY <1>1, OrdersAssumption DEF RefundJob
<1>3. /\ PaymentInv(o) /\ StatusInv(o) /\ charge[o] = "captured"
      /\ returned[o] \in Nat /\ db[o].total \in Nat /\ returned[o] <= db[o].total
  BY <1>1, <1>2, OrdersAssumption DEF IInv, RefundCall, TypeOK, OrderDoc
<1>4. sum \in Nat /\ sum > returned[o] /\ sum <= db[o].total
  BY <1>2, <1>3 DEF RefundCall, Payable
<1>5. /\ UNCHANGED <<db, checkout, charge, contested, acked, hook, update, updates,
                     emails, audit, failures>>
      /\ returned'[o] = sum /\ \A q \in Orders \ {o} : returned'[q] = returned[q]
      /\ \A i \in Tasks \ {k} : refund'[i] = refund[i]
  BY <1>1, <1>2 DEF RefundCall, TypeOK
<1>6. /\ refund'[k] \in RefundJob /\ refund'[k].order = o /\ refund'[k].amount = j.amount
      /\ refund'[k].approver = j.approver /\ refund'[k].actor = j.actor
  BY <1>1, <1>4 DEF RefundCall, TypeOK, RefundJob
<1>7. TypeOK'
  <2>1. refund' \in [Tasks -> RefundJob \cup {Idle}]
    BY <1>1, <1>5, <1>6 DEF TypeOK, RefundCall
  <2>2. returned' \in [Orders -> Nat] /\ issued' \in [Orders -> SUBSET Nat]
    BY <1>1, <1>2, <1>4 DEF TypeOK, RefundCall
  <2>3. \A q \in Orders : returned'[q] <= db'[q].total
    BY <1>1, <1>4, <1>5 DEF TypeOK
  <2>4. QED
    BY <1>1, <1>5, <2>1, <2>2, <2>3 DEF TypeOK
<1>8. PaymentInv(o)' /\ StatusInv(o)' /\ Grows(o)
  <2>1. PaymentInv(o)'
    BY <1>3, <1>5, <1>6 DEF PaymentInv
  <2>2. StatusInv(o)'
    BY <1>3, <1>4, <1>5, <1>6 DEF StatusInv
  <2>3. Grows(o)
    BY <1>3, <1>4, <1>5 DEF Grows
  <2>4. QED
    BY <2>1, <2>2, <2>3
<1>9. \A q \in Orders : PaymentInv(q)' /\ StatusInv(q)' /\ Grows(q)
  BY <1>2, <1>5, <1>6, <1>7, <1>8, OneOrderSteps
<1>10. \A i \in Tasks : RefundInv(i)'
  <2>1. RefundInv(k)'
    BY <1>1, <1>3, <1>4, <1>5, <1>6 DEF RefundInv, RefundAmount
  <2>2. QED
    BY <1>5, <1>7, <1>9, <2>1, RefundsKept
<1>11. QED
  BY <1>5, <1>7, <1>9, <1>10, HooksKept, UpdatesKept, AcksKept DEF IInv

\* The save says "refunded" of an order for which money has gone back.
LEMMA RefundSaveDoc ==
  ASSUME IInv, NEW k \in Tasks, RefundSave(k)
  PROVE  LET j == refund[k]
             o == j.order
         IN
         /\ j \in RefundJob /\ j # Idle /\ o \in Orders /\ db[o] \in OrderDoc
         /\ checkout[o] # "new" /\ returned[o] > 0
         /\ db'[o] \in OrderDoc
         /\ db'[o].provider = db[o].provider /\ db'[o].total = db[o].total
         /\ db'[o].ref = db[o].ref /\ db'[o].disputed = db[o].disputed
         /\ db'[o].status = "refunded" /\ db'[o].writer = "refund"
         /\ \A q \in Orders \ {o} : db'[q] = db[q]
<1> DEFINE j == refund[k]
<1> DEFINE o == j.order
<1>1. /\ TypeOK /\ j \in RefundJob /\ j.pc = "called" /\ db[o] \in OrderDoc
      /\ checkout[o] # "new" /\ RefundInv(k) /\ j # Idle
  <2>1. j.pc = "called"
    BY DEF RefundSave
  <2>2. QED
    BY <2>1, RefundIsJob DEF IInv
<1>2. o \in Orders
  BY <1>1 DEF RefundJob
<1>3. PaymentInv(o) /\ StatusInv(o) /\ returned[o] > 0
  BY <1>1, <1>2 DEF IInv, RefundInv
<1>4. /\ db'[o] \in OrderDoc
      /\ db'[o].provider = db[o].provider /\ db'[o].total = db[o].total
      /\ db'[o].ref = db[o].ref /\ db'[o].disputed = db[o].disputed
      /\ db'[o].status = "refunded" /\ db'[o].writer = "refund"
      /\ \A q \in Orders \ {o} : db'[q] = db[q]
  <2> DEFINE d == [db[o] EXCEPT !.status = "refunded", !.writer = "refund", !.refundRef = j.id,
                                !.issuedBy = Saved(j.actor, j.issuedBy, @)]
  <2>1. db'[o] = d /\ \A q \in Orders \ {o} : db'[q] = db[q]
    BY <1>1, <1>2 DEF RefundSave, TypeOK
  <2>2. Saved(j.actor, j.issuedBy, db[o].issuedBy) \in Admins \cup {NoAdmin} /\ j.id \in Nat
    BY <1>1 DEF Saved, OrderDoc, RefundJob
  <2>3. /\ d \in OrderDoc /\ d.provider = db[o].provider /\ d.total = db[o].total
        /\ d.ref = db[o].ref /\ d.disputed = db[o].disputed
        /\ d.status = "refunded" /\ d.writer = "refund"
    BY <1>1, <2>2 DEF OrderDoc, Statuses
  <2>4. QED
    BY <2>1, <2>3
<1>5. QED
  BY <1>1, <1>2, <1>3, <1>4

LEMMA RefundSaveStep ==
  ASSUME IInv, NEW k \in Tasks, RefundSave(k)
  PROVE  IInv'
<1> DEFINE j == refund[k]
<1> DEFINE o == j.order
<1>1. /\ TypeOK /\ j \in RefundJob /\ j # Idle /\ o \in Orders /\ db[o] \in OrderDoc
      /\ checkout[o] # "new" /\ returned[o] > 0
  BY RefundSaveDoc DEF IInv
<1>3. PaymentInv(o) /\ StatusInv(o) /\ RefundInv(k)
  BY <1>1 DEF IInv
<1>4. /\ db'[o] \in OrderDoc
      /\ db'[o].provider = db[o].provider /\ db'[o].total = db[o].total
      /\ db'[o].ref = db[o].ref /\ db'[o].disputed = db[o].disputed
      /\ db'[o].status = "refunded" /\ db'[o].writer = "refund"
      /\ \A q \in Orders \ {o} : db'[q] = db[q]
  BY RefundSaveDoc
<1>5. /\ UNCHANGED <<checkout, charge, contested, returned, issued, acked, hook, update,
                     updates, emails, audit, failures>>
      /\ \A i \in Tasks \ {k} : refund'[i] = refund[i]
      /\ refund'[k] \in RefundJob /\ refund'[k].order = o /\ refund'[k].amount = j.amount
      /\ refund'[k].approver = j.approver /\ refund'[k].actor = j.actor
  BY <1>1 DEF RefundSave, TypeOK, external, RefundJob
<1>6. TypeOK'
  <2>1. db' \in [Orders -> OrderDoc \cup {NoOrder}]
    BY <1>1, <1>4 DEF TypeOK, RefundSave
  <2>2. refund' \in [Tasks -> RefundJob \cup {Idle}]
    BY <1>1, <1>5 DEF TypeOK, RefundSave
  <2>3. \A q \in Orders : returned'[q] <= db'[q].total
    BY <1>1, <1>4, <1>5 DEF TypeOK
  <2>4. QED
    BY <1>1, <1>5, <2>1, <2>2, <2>3 DEF TypeOK
<1>7. PaymentInv(o)'
  BY <1>1, <1>3, <1>4, <1>5 DEF PaymentInv
<1>8. StatusInv(o)' /\ Grows(o)
  BY <1>1, <1>3, <1>4, <1>5 DEF StatusInv, Grows, TypeOK
<1>9. \A q \in Orders : PaymentInv(q)' /\ StatusInv(q)' /\ Grows(q)
  BY <1>1, <1>4, <1>5, <1>6, <1>7, <1>8, OneOrderSteps
<1>10. \A i \in Tasks : RefundInv(i)'
  <2>1. RefundInv(k)'
    BY <1>1, <1>3, <1>4, <1>5 DEF RefundInv, RefundAmount
  <2>2. QED
    BY <1>5, <1>6, <1>9, <2>1, RefundsKept
<1>11. QED
  BY <1>5, <1>6, <1>9, <1>10, HooksKept, UpdatesKept, AcksKept DEF IInv

LEMMA RefundEndStep ==
  ASSUME IInv, NEW k \in Tasks, RefundDeclined(k) \/ RefundAudit(k) \/ RefundDies(k)
  PROVE  IInv'
<1> DEFINE j == refund[k]
<1>1. TypeOK /\ j.pc # "idle"
  BY DEF IInv, RefundDeclined, RefundAudit, RefundDies
<1>2. j \in RefundJob /\ db[j.order] \in OrderDoc /\ RefundAmount(j.order, j.amount) \in Nat
  <2>1. j \in RefundJob /\ db[j.order] \in OrderDoc
    BY <1>1, RefundIsJob
  <2>2. QED
    BY <2>1, OrdersAssumption DEF RefundAmount, RefundJob, OrderDoc
<1>3. /\ UNCHANGED <<db, checkout, charge, contested, returned, issued, acked, hook, update,
                     updates, emails>>
      /\ refund' = [refund EXCEPT ![k] = Idle]
  BY DEF RefundDeclined, RefundAudit, RefundDies, external
<1>4. TypeOK'
  <2>1. failures' \in Nat
    BY <1>1 DEF TypeOK, RefundDeclined, RefundAudit, RefundDies
  <2>2. audit' \subseteq Entry
    BY <1>1, <1>2 DEF TypeOK, RefundDeclined, RefundAudit, RefundDies, Entry, RefundJob
  <2>3. refund' \in [Tasks -> RefundJob \cup {Idle}]
    BY <1>1, <1>3 DEF TypeOK
  <2>4. QED
    BY <1>1, <1>3, <2>1, <2>2, <2>3 DEF TypeOK
<1>5. \A q \in Orders : PaymentInv(q)' /\ StatusInv(q)' /\ Grows(q)
  <2> SUFFICES ASSUME NEW q \in Orders PROVE PaymentInv(q)' /\ StatusInv(q)' /\ Grows(q)
    OBVIOUS
  <2>1. PaymentInv(q) /\ StatusInv(q) /\ returned[q] \in Nat
    BY DEF IInv, TypeOK
  <2>2. QED
    BY <1>3, <2>1 DEF PaymentInv, StatusInv, Grows
<1>6. \A i \in Tasks : refund'[i] \in {refund[i], Idle}
  BY <1>1, <1>3 DEF TypeOK
<1>7. QED
  BY <1>3, <1>4, <1>5, <1>6, QuietStep

----------------------------------------------------------------------------
(* The invariant.                                                          *)

\* One step of any actor preserves the invariant.
LEMMA NextIInv == IInv /\ [Next]_vars => IInv'
<1> SUFFICES ASSUME IInv, [Next]_vars PROVE IInv'
  OBVIOUS
<1>1. ASSUME NEW o \in Orders, Checkout(o) \/ Customer(o)
      PROVE  IInv'
  BY <1>1, PlaceOrderStep, MoneyStep, SaveReferenceStep DEF Checkout, Customer
<1>2. ASSUME NEW h \in Hooks,
             \/ \E e \in Event : Receive(h, e)
             \/ Serve(h) \/ HookSwallows(h) \/ HookDies(h)
      PROVE  IInv'
  BY <1>2, HookFindStep, HookIgnoreStep, HookSaveStep, HookEndStep DEF Receive, Serve
<1>3. ASSUME NEW k \in Tasks, Update(k)
      PROVE  IInv'
  BY <1>3, UpdateFindStep, UpdateSaveStep, UpdateEndStep DEF Update
<1>4. ASSUME NEW k \in Tasks, Refund(k)
      PROVE  IInv'
  BY <1>4, RefundCheckStep, RefundCallStep, RefundSaveStep, RefundEndStep DEF Refund
<1>5. CASE UNCHANGED vars
  <2>1. /\ TypeOK /\ TypeOK' /\ acked' = acked
        /\ \A h \in Hooks : hook'[h] = hook[h]
        /\ \A k \in Tasks : update'[k] = update[k] /\ refund'[k] = refund[k]
        /\ UNCHANGED <<db, checkout, charge, contested, returned>>
    BY <1>5 DEF IInv, TypeOK, vars
  <2>2. \A q \in Orders : PaymentInv(q)' /\ StatusInv(q)' /\ Grows(q)
    <3> SUFFICES ASSUME NEW q \in Orders PROVE PaymentInv(q)' /\ StatusInv(q)' /\ Grows(q)
      OBVIOUS
    <3>1. PaymentInv(q) /\ StatusInv(q) /\ returned[q] \in Nat
      BY DEF IInv, TypeOK
    <3>2. QED
      BY <2>1, <3>1 DEF PaymentInv, StatusInv, Grows
  <2>3. QED
    BY <2>1, <2>2, QuietStep
<1>6. QED
  BY <1>1, <1>2, <1>3, <1>4, <1>5 DEF Next

LEMMA SpecIInv == Spec => []IInv
<1>1. Init => IInv
  BY InitIInv
<1>2. IInv /\ [Next]_vars => IInv'
  BY NextIInv
<1>3. QED
  BY <1>1, <1>2, PTL DEF Spec

\* Every variable keeps its type; in particular no sequence of refund requests, however
\* they overlap, makes the provider pay back more than the order's total.
THEOREM Types == Spec => []TypeOK
<1>1. IInv => TypeOK
  BY DEF IInv
<1>2. QED
  BY <1>1, SpecIInv, PTL

\* A status written by a webhook, by a refund or by checkout is backed by what has
\* happened at the provider, at whatever awaits the handlers were interleaved.
THEOREM Truthful == Spec => []StatusTruthful
<1>1. IInv => StatusTruthful
  BY DEF IInv, StatusInv, StatusTruthful
<1>2. QED
  BY <1>1, SpecIInv, PTL

\* No success is answered 200 while the order is as checkout left it: a lost delivery
\* cannot leave a paying customer with a pending order unnoticed.
THEOREM AckedSettled == Spec => []AckedIsSettled
<1>1. IInv => AckedIsSettled
  BY DEF IInv, AckInv, AckedIsSettled
<1>2. QED
  BY <1>1, SpecIInv, PTL

\* No dispute of a provider whose references match is answered 200 and forgotten.
THEOREM DisputesRecorded == Spec => []DisputeRecorded
<1>1. IInv => DisputeRecorded
  BY DEF IInv, AckInv, DisputeRecorded
<1>2. QED
  BY <1>1, SpecIInv, PTL

----------------------------------------------------------------------------
(* Action properties.                                                      *)

\* Only three saves change the document of an order that exists.
LEMMA DocStep ==
  ASSUME IInv, [Next]_vars, NEW o \in Orders
  PROVE  \/ PlaceOrder(o) \/ PlaceOrderWhatsApp(o) \/ SaveReference(o)
         \/ \E h \in Hooks : HookSave(h) /\ hook[h].order = o
         \/ \E k \in Tasks : UpdateSave(k) /\ update[k].order = o
         \/ \E k \in Tasks : RefundSave(k) /\ refund[k].order = o
         \/ db'[o] = db[o]
<1>1. ASSUME NEW q \in Orders, Checkout(q) \/ Customer(q), q # o
      PROVE  db'[o] = db[o]
  BY <1>1 DEF IInv, TypeOK, Checkout, Customer, PlaceOrder, PlaceOrderWhatsApp, InitiatePayment,
     InitiateFails, SaveReference, Respond, CheckoutDies, CustomerPays, CustomerDisputes
<1>2. ASSUME Checkout(o) \/ Customer(o), ~PlaceOrder(o), ~PlaceOrderWhatsApp(o), ~SaveReference(o)
      PROVE  db'[o] = db[o]
  BY <1>2 DEF Checkout, Customer, InitiatePayment, InitiateFails, Respond, CheckoutDies,
     CustomerPays, CustomerDisputes
<1>3. ASSUME NEW h \in Hooks, HookSave(h), hook[h].order # o
      PROVE  db'[o] = db[o]
  BY ZenonT(60), <1>3, HookSaveDoc
<1>4. ASSUME NEW k \in Tasks, UpdateSave(k), update[k].order # o
      PROVE  db'[o] = db[o]
  BY <1>4, UpdateSaveDoc
<1>5. ASSUME NEW k \in Tasks, RefundSave(k), refund[k].order # o
      PROVE  db'[o] = db[o]
  BY <1>5, RefundSaveDoc
<1>6. ASSUME NEW h \in Hooks,
             \/ \E e \in Event : Receive(h, e)
             \/ HookEnqueue(h) \/ HookAudit(h) \/ HookSwallows(h) \/ HookDies(h)
      PROVE  db' = db
  BY <1>6 DEF Receive, HookFind, HookIgnore, HookEnqueue, HookAudit, HookSwallows, HookDies
<1>7. ASSUME NEW k \in Tasks,
             \/ \E a \in Admins, p \in Orders, s \in Targets : UpdateFind(k, a, p, s)
             \/ UpdateAudit(k) \/ UpdateDies(k)
      PROVE  db' = db
  BY <1>7 DEF UpdateFind, UpdateAudit, UpdateDies
<1>8. ASSUME NEW k \in Tasks,
             \/ \E a \in Admins, p \in Orders, m \in Amounts, b \in Approvers \cup {NoAdmin} :
                    RefundCheck(k, a, p, m, b)
             \/ RefundCall(k) \/ RefundDeclined(k) \/ RefundAudit(k) \/ RefundDies(k)
      PROVE  db' = db
  BY <1>8 DEF RefundCheck, RefundCall, RefundDeclined, RefundAudit, RefundDies
<1>9. CASE UNCHANGED vars
  BY <1>9 DEF vars
<1>10. CASE \E q \in Orders : Checkout(q) \/ Customer(q)
  BY <1>1, <1>2, <1>10
<1>11. CASE \E h \in Hooks : \/ \E e \in Event : Receive(h, e)
                            \/ Serve(h) \/ HookSwallows(h) \/ HookDies(h)
  BY <1>3, <1>6, <1>11 DEF Serve
<1>12. CASE \E k \in Tasks : Update(k) \/ Refund(k)
  BY <1>4, <1>5, <1>7, <1>8, <1>12 DEF Update, Refund
<1>13. QED
  BY <1>9, <1>10, <1>11, <1>12 DEF Next

\* An order whose reference is the one its provider refunds by keeps it: placeOrder's
\* save, which carries an older reference, is made before the customer can pay.
THEOREM HandleKept == Spec => RefundHandleKept
<1> DEFINE Kept == \A o \in Orders :
             db[o].provider \in Gateways /\ db[o].ref = RefundHandle[db[o].provider]
             => db'[o].ref = db[o].ref
<1>1. IInv /\ [Next]_vars => Kept
  <2> SUFFICES ASSUME IInv, [Next]_vars, NEW o \in Orders, db[o].provider \in Gateways,
                      db[o].ref = RefundHandle[db[o].provider]
               PROVE  db'[o].ref = db[o].ref
    OBVIOUS
  <2>1. PaymentInv(o)
    BY DEF IInv
  <2>2. CASE PlaceOrder(o) \/ PlaceOrderWhatsApp(o)
    BY <2>1, <2>2, NoOrderFields DEF PlaceOrder, PlaceOrderWhatsApp, PaymentInv
  <2>3. CASE SaveReference(o)
    BY <2>1, <2>3, KnownRefs DEF SaveReference, PaymentInv
  <2>4. ASSUME NEW h \in Hooks, HookSave(h), hook[h].order = o
        PROVE  db'[o].ref = db[o].ref
    <3> DEFINE p == db[o].provider
    <3>1. charge[o] = "captured" /\ db'[o].ref \in {db[o].ref, SuccessRef[p]}
      BY <2>4, HookSaveDoc
    <3>2. RefundHandle[p] \in {CheckoutRef[p], SuccessRef[p]}
      BY <2>1, <3>1 DEF PaymentInv
    <3>3. SuccessRef[p] = RefundHandle[p]
      BY <3>2, KnownRefs
    <3>4. QED
      BY <3>1, <3>3
  <2>5. ASSUME NEW k \in Tasks, UpdateSave(k), update[k].order = o
        PROVE  db'[o].ref = db[o].ref
    BY <2>5, UpdateSaveDoc
  <2>6. ASSUME NEW k \in Tasks, RefundSave(k), refund[k].order = o
        PROVE  db'[o].ref = db[o].ref
    BY <2>6, RefundSaveDoc
  <2>7. QED
    BY <2>2, <2>3, <2>4, <2>5, <2>6, DocStep
<1>2. QED
  BY <1>1, SpecIInv, PTL DEF Spec, RefundHandleKept

\* Only the provider's answer to a refund request moves money back.
LEMMA ReturnedStep ==
  ASSUME [Next]_vars, returned' # returned
  PROVE  \E k \in Tasks : RefundCall(k)
<1>1. ASSUME NEW o \in Orders, Checkout(o) \/ Customer(o)
      PROVE  returned' = returned
  BY <1>1 DEF Checkout, Customer, PlaceOrder, PlaceOrderWhatsApp, InitiatePayment,
     InitiateFails, SaveReference, Respond, CheckoutDies, CustomerPays, CustomerDisputes, external
<1>2. ASSUME NEW h \in Hooks, \/ \E e \in Event : Receive(h, e)
                              \/ Serve(h) \/ HookSwallows(h) \/ HookDies(h)
      PROVE  returned' = returned
  <2>1. CASE HookSave(h)
    BY <2>1 DEF HookSave, external
  <2>2. CASE HookEnqueue(h) \/ HookAudit(h) \/ HookSwallows(h) \/ HookDies(h)
    BY <2>2 DEF HookEnqueue, HookAudit, HookSwallows, HookDies, external
  <2>3. QED
    BY <1>2, <2>1, <2>2 DEF Receive, Serve, HookFind, HookIgnore, external
<1>3. ASSUME NEW k \in Tasks, Update(k)
      PROVE  returned' = returned
  BY <1>3 DEF Update, UpdateFind, UpdateSave, UpdateAudit, UpdateDies, external
<1>4. ASSUME NEW k \in Tasks, Refund(k)
      PROVE  RefundCall(k) \/ returned' = returned
  BY <1>4 DEF Refund, RefundCheck, RefundDeclined, RefundSave, RefundAudit, RefundDies, external
<1>5. CASE UNCHANGED vars
  BY <1>5 DEF vars
<1>6. QED
  BY <1>1, <1>2, <1>3, <1>4, <1>5 DEF Next

\* No refund request moves the threshold amount or more unless it names somebody other
\* than the administrator who makes it (whether an administrator or not: issueRefund only
\* compares two texts).  What was checked against the order's total on one read still
\* bounds what the provider pays, because the total is never written again.
THEOREM HighValueNamed == Spec => HighValueNamesAnother
<1> DEFINE Approved == \A o \in Orders : returned'[o] >= returned[o] + Threshold =>
             \E k \in Tasks : /\ refund[k].pc = "checked" /\ refund'[k].pc = "called"
                              /\ refund[k].order = o
                              /\ refund[k].approver \notin {NoAdmin, refund[k].actor}
<1>1. IInv /\ [Next]_vars => Approved
  <2> SUFFICES ASSUME IInv, [Next]_vars, NEW o \in Orders,
                      returned'[o] >= returned[o] + Threshold
               PROVE  \E k \in Tasks :
                         /\ refund[k].pc = "checked" /\ refund'[k].pc = "called"
                         /\ refund[k].order = o
                         /\ refund[k].approver \notin {NoAdmin, refund[k].actor}
    OBVIOUS
  <2>1. TypeOK /\ returned[o] \in Nat /\ Threshold \in Nat \ {0}
    BY OrdersAssumption DEF IInv, TypeOK
  <2>2. PICK k \in Tasks : RefundCall(k)
    BY <2>1, ReturnedStep
  <2>3. /\ refund[k] \in RefundJob /\ refund[k] # Idle /\ refund[k].pc = "checked"
        /\ db[refund[k].order] \in OrderDoc /\ RefundInv(k)
    BY <2>2, RefundIsJob DEF RefundCall, IInv
  <2>4. /\ refund[k].order = o /\ refund'[k].pc = "called"
        /\ returned'[o] = returned[o] + Payable(refund[k])
    BY <2>1, <2>2, <2>3 DEF RefundCall, TypeOK, RefundJob
  <2>5. /\ db[o].total \in Nat /\ refund[k].amount \in Nat
    BY <2>3, <2>4, OrdersAssumption DEF OrderDoc, RefundJob
  <2>6. RefundAmount(o, refund[k].amount) >= Threshold
    BY <2>1, <2>4, <2>5 DEF RefundAmount, Payable
  <2>7. QED
    BY <2>3, <2>4, <2>6 DEF RefundInv
<1>2. QED
  BY <1>1, SpecIInv, PTL DEF Spec, HighValueNamesAnother

----------------------------------------------------------------------------
(* Confirmations.                                                          *)

\* What SettledIsConfirmed asks of one order.
Confirmed(o) ==
  \/ emails[o] > 0
  \/ \E h \in Hooks : /\ hook[h].pc = "saved" /\ hook[h].order = o
                     /\ hook[h].type = "payment.succeeded"

LEMMA FailuresStep ==
  ASSUME [Next]_vars
  PROVE  failures' \in {failures, failures + 1}
<1>1. CASE \E o \in Orders : Checkout(o) \/ Customer(o)
  BY <1>1 DEF Checkout, Customer, PlaceOrder, PlaceOrderWhatsApp, InitiatePayment,
     InitiateFails, SaveReference, Respond, CheckoutDies, CustomerPays, CustomerDisputes
<1>2. ASSUME NEW h \in Hooks, \/ \E e \in Event : Receive(h, e)
                              \/ Serve(h) \/ HookSwallows(h) \/ HookDies(h)
      PROVE  failures' \in {failures, failures + 1}
  <2>1. CASE HookSave(h)
    BY <2>1 DEF HookSave
  <2>2. CASE HookEnqueue(h) \/ HookAudit(h) \/ HookSwallows(h) \/ HookDies(h)
    BY <2>2 DEF HookEnqueue, HookAudit, HookSwallows, HookDies
  <2>3. QED
    BY <1>2, <2>1, <2>2 DEF Receive, Serve, HookFind, HookIgnore
<1>3. CASE \E k \in Tasks : Update(k)
  BY <1>3 DEF Update, UpdateFind, UpdateSave, UpdateAudit, UpdateDies
<1>4. CASE \E k \in Tasks : Refund(k)
  BY ZenonT(60), <1>4 DEF Refund, RefundCheck, RefundCall, RefundDeclined, RefundSave, RefundAudit,
     RefundDies
<1>5. CASE UNCHANGED vars
  BY <1>5 DEF vars
<1>6. QED
  BY <1>1, <1>2, <1>3, <1>4, <1>5 DEF Next

\* Nothing takes a confirmation back as long as nothing fails.
LEMMA ConfirmedStep ==
  ASSUME IInv, [Next]_vars, NEW o \in Orders, Confirmed(o), failures' = 0
  PROVE  Confirmed(o)' /\ failures = 0
<1>1. TypeOK /\ failures \in Nat /\ emails \in [Orders -> Nat]
  BY DEF IInv, TypeOK
<1>2. CASE emails' = emails /\ hook' = hook /\ failures' \in {failures, failures + 1}
  BY <1>1, <1>2 DEF Confirmed
<1>3. ASSUME NEW g \in Hooks, \/ \E e \in Event : Receive(g, e)
                              \/ Serve(g) \/ HookSwallows(g) \/ HookDies(g)
      PROVE  Confirmed(o)' /\ failures = 0
  <2>1. ~HookSwallows(g) /\ ~HookDies(g)
    BY <1>1 DEF HookSwallows, HookDies
  <2>2. failures = 0 /\ emails'[o] \in Nat /\ emails'[o] >= emails[o]
    <3>1. CASE HookEnqueue(g)
      BY <1>1, <3>1 DEF HookEnqueue
    <3>2. CASE HookSave(g)
      <4>1. emails' = emails /\ failures' = failures
        BY <3>2 DEF HookSave
      <4>2. QED
        BY <1>1, <4>1
    <3>3. CASE HookAudit(g) \/ \E e \in Event : Receive(g, e)
      BY <1>1, <3>3 DEF HookAudit, Receive, HookFind, HookIgnore
    <3>4. QED
      BY <1>3, <2>1, <3>1, <3>2, <3>3 DEF Serve
  <2>3. CASE emails[o] > 0
    BY <1>1, <2>2, <2>3 DEF Confirmed
  <2>4. ASSUME NEW h \in Hooks, hook[h].pc = "saved", hook[h].order = o,
               hook[h].type = "payment.succeeded"
        PROVE  Confirmed(o)'
    <3>1. CASE hook'[h] = hook[h]
      BY <2>4, <3>1 DEF Confirmed
    <3>2. CASE hook'[h] # hook[h]
      <4>1. HookEnqueue(h)
        <5>1. \A i \in Hooks \ {g} : hook'[i] = hook[i]
          BY <1>1, <1>3, <2>1 DEF TypeOK, Receive, Serve, HookFind, HookIgnore, HookSave,
             HookEnqueue, HookAudit, Answer
        <5>2. g = h /\ hook[h] # Idle
          BY <2>4, <3>2, <5>1 DEF Idle
        <5>3. QED
          BY <1>3, <2>1, <2>4, <3>2, <5>2 DEF Receive, Serve, HookFind, HookIgnore, HookSave,
             HookAudit
      <4>2. emails'[o] = emails[o] + 1
        BY <1>1, <2>4, <4>1 DEF HookEnqueue
      <4>3. QED
        BY <1>1, <4>2 DEF Confirmed
    <3>3. QED
      BY <3>1, <3>2
  <2>5. QED
    BY <2>2, <2>3, <2>4 DEF Confirmed
<1>4. CASE \E q \in Orders : Checkout(q) \/ Customer(q)
  BY <1>2, <1>4 DEF Checkout, Customer, PlaceOrder, PlaceOrderWhatsApp, InitiatePayment,
     InitiateFails, SaveReference, Respond, CheckoutDies, CustomerPays, CustomerDisputes
<1>5. CASE \E k \in Tasks : Update(k)
  BY <1>2, <1>5 DEF Update, UpdateFind, UpdateSave, UpdateAudit, UpdateDies
<1>6. CASE \E k \in Tasks : Refund(k)
  BY ZenonT(60), <1>2, <1>6 DEF Refund, RefundCheck, RefundCall, RefundDeclined, RefundSave, RefundAudit,
     RefundDies
<1>7. CASE UNCHANGED vars
  BY <1>2, <1>7 DEF vars
<1>8. QED
  BY <1>3, <1>4, <1>5, <1>6, <1>7 DEF Next

\* A payment settled by a webhook is confirmed, or will be by the request that settled
\* it, unless something has failed: the save and the queueing belong to one request,
\* and no other way to "paid" by a webhook exists.
THEOREM SettledConfirmed == Spec => []SettledIsConfirmed
<1>1. Init => SettledIsConfirmed
  BY DEF Init, SettledIsConfirmed, NoOrder
<1>2. IInv /\ SettledIsConfirmed /\ [Next]_vars => SettledIsConfirmed'
  <2> SUFFICES ASSUME IInv, SettledIsConfirmed, [Next]_vars, failures' = 0, NEW o \in Orders,
                      db'[o].status = "paid", db'[o].writer = "webhook"
               PROVE  Confirmed(o)'
    BY DEF SettledIsConfirmed, Confirmed
  <2>1. CASE db[o].status = "paid" /\ db[o].writer = "webhook" /\ failures = 0
    BY <2>1, ConfirmedStep DEF SettledIsConfirmed, Confirmed
  <2>2. failures = 0
    <3>1. failures \in Nat
      BY DEF IInv, TypeOK
    <3>2. QED
      BY <3>1, FailuresStep
  <2>3. CASE ~(db[o].status = "paid" /\ db[o].writer = "webhook")
    <3>1. TypeOK
      BY DEF IInv
    <3>2. ~PlaceOrder(o) /\ ~PlaceOrderWhatsApp(o)
      BY <3>1 DEF TypeOK, PlaceOrder, PlaceOrderWhatsApp, NewOrder, NoOrder
    <3>3. ~SaveReference(o)
      <4> SUFFICES ASSUME SaveReference(o) PROVE FALSE
        OBVIOUS
      <4>1. PaymentInv(o) /\ checkout[o] = "initiated"
        BY DEF IInv, SaveReference
      <4>2. db[o] \in OrderDoc
        BY <4>1 DEF PaymentInv
      <4>3. db'[o].status = db[o].status /\ db'[o].writer = db[o].writer
        BY <3>1, <4>2 DEF SaveReference, TypeOK, OrderDoc
      <4>4. QED
        BY <2>3, <4>3
    <3>4. PICK h \in Hooks : HookSave(h) /\ hook[h].order = o
      BY <2>3, <3>2, <3>3, DocStep, UpdateSaveDoc, RefundSaveDoc
    <3>5. hook[h].type = "payment.succeeded"
      BY <2>3, <3>4, HookSaveDoc
    <3>6. hook'[h].pc = "saved" /\ hook'[h].order = o /\ hook'[h].type = "payment.succeeded"
      <4>1. hook[h] \in HookJob /\ hook \in [Hooks -> HookJob \cup {Idle}]
        BY <3>1, <3>4, HookSaveDoc DEF TypeOK
      <4>2. hook' = [hook EXCEPT ![h].pc = "saved"]
        BY <3>4 DEF HookSave
      <4>3. QED
        BY <3>4, <3>5, <4>1, <4>2 DEF HookJob
    <3>7. QED
      BY <3>6 DEF Confirmed
  <2>4. QED
    BY <2>1, <2>2, <2>3
<1>3. QED
  BY <1>1, <1>2, SpecIInv, PTL DEF Spec

----------------------------------------------------------------------------
(* Orders implements OrderLifecycle.                                       *)

\* A step that writes one order's status is a Write of the lifecycle.
LEMMA LabelWritten ==
  ASSUME IInv, NEW o \in Orders, NEW s, NEW w, db'[o].status = s, db'[o].writer = w,
         \A q \in Orders \ {o} : db'[q] = db[q], UNCHANGED <<charge, contested, returned>>
  PROVE  Lifecycle!Write(o, s, w) /\ UNCHANGED Lifecycle!money
BY DEF Lifecycle!Write, Lifecycle!money

\* A step that leaves statuses and money alone is a stutter of it.
LEMMA LabelsKept ==
  ASSUME \A q \in Orders : /\ db'[q].status = db[q].status /\ db'[q].writer = db[q].writer
                           /\ (charge'[q] = "captured") = (charge[q] = "captured"),
         UNCHANGED <<contested, returned>>
  PROVE  UNCHANGED Lifecycle!vars
BY DEF Lifecycle!vars

\* Checkout: placing the order is Place, the rest is a stutter.
LEMMA CheckoutImplements ==
  ASSUME IInv, NEW o \in Orders, Checkout(o)
  PROVE  Lifecycle!Place(o) \/ UNCHANGED Lifecycle!vars
<1>1. TypeOK /\ PaymentInv(o)
  BY DEF IInv
<1>2. CASE PlaceOrder(o) \/ PlaceOrderWhatsApp(o)
  <2>1. PICK s \in {"pending", "pending_whatsapp"}, p \in Providers, t \in Totals :
           db' = [db EXCEPT ![o] = NewOrder(s, p, t)]
    BY <1>2 DEF PlaceOrder, PlaceOrderWhatsApp, Providers
  <2>2. /\ db'[o].status = s /\ db'[o].writer = "checkout"
        /\ \A q \in Orders \ {o} : db'[q] = db[q]
    BY <1>1, <2>1, NewOrderIsDoc DEF TypeOK
  <2>3. UNCHANGED <<charge, contested, returned>> /\ db[o].status = "none"
    BY <1>1, <1>2, NoOrderFields DEF PlaceOrder, PlaceOrderWhatsApp, PaymentInv, external
  <2>4. QED
    BY <2>2, <2>3, LabelWritten DEF Lifecycle!Place
<1>3. CASE SaveReference(o)
  <2>1. \A q \in Orders : db'[q].status = db[q].status /\ db'[q].writer = db[q].writer
    BY <1>1, <1>3 DEF SaveReference, TypeOK, PaymentInv, OrderDoc
  <2>2. QED
    BY <1>3, <2>1, LabelsKept DEF SaveReference, external
<1>4. CASE InitiatePayment(o) \/ InitiateFails(o) \/ Respond(o) \/ CheckoutDies(o)
  <2>1. \A q \in Orders : (charge'[q] = "captured") = (charge[q] = "captured")
    BY <1>1, <1>4 DEF InitiatePayment, InitiateFails, Respond, CheckoutDies, external,
       TypeOK, PaymentInv
  <2>2. UNCHANGED <<db, contested, returned>>
    BY <1>4 DEF InitiatePayment, InitiateFails, Respond, CheckoutDies, external
  <2>3. QED
    BY <2>1, <2>2, LabelsKept
<1>5. QED
  BY <1>2, <1>3, <1>4 DEF Checkout

\* The customer's two steps are the lifecycle's.
LEMMA CustomerImplements ==
  ASSUME IInv, NEW o \in Orders, Customer(o)
  PROVE  Lifecycle!Capture(o) \/ Lifecycle!Contest(o)
<1>1. TypeOK /\ PaymentInv(o)
  BY DEF IInv
<1>2. CASE CustomerPays(o)
  <2>1. db[o].status # "none" /\ charge[o] # "captured"
    BY <1>1, <1>2 DEF CustomerPays, PaymentInv, OrderDoc, Statuses
  <2>2. /\ UNCHANGED <<db, contested, returned>>
        /\ charge'[o] = "captured" /\ \A q \in Orders \ {o} : charge'[q] = charge[q]
    BY <1>1, <1>2 DEF CustomerPays, TypeOK
  <2>3. QED
    BY <2>1, <2>2 DEF Lifecycle!Capture
<1>3. CASE CustomerDisputes(o)
  BY <1>3 DEF CustomerDisputes, Lifecycle!Contest
<1>4. QED
  BY <1>2, <1>3 DEF Customer

\* Webhooks: only the save shows, as Settle, Flag or, when it writes no status, a stutter.
LEMMA HookImplements ==
  ASSUME IInv, NEW h \in Hooks,
         \/ \E e \in Event : Receive(h, e)
         \/ Serve(h) \/ HookSwallows(h) \/ HookDies(h)
  PROVE  (\E o \in Orders : Lifecycle!Settle(o) \/ Lifecycle!Flag(o)) \/ UNCHANGED Lifecycle!vars
<1>1. CASE HookSave(h)
  <2>1. PICK o \in Orders : o = hook[h].order
    BY <1>1, HookSaveDoc
  <2>2. UNCHANGED <<charge, contested, returned>>
    BY <1>1 DEF HookSave, external
  <2>3. CASE db'[o].status = "paid" /\ db'[o].writer = "webhook"
    <3>1. charge[o] = "captured" /\ \A q \in Orders \ {o} : db'[q] = db[q]
      BY <1>1, <2>1, HookSaveDoc
    <3>2. QED
      BY <2>2, <2>3, <3>1, LabelWritten DEF Lifecycle!Settle
  <2>4. CASE contested[o] /\ db'[o].status = "disputed" /\ db'[o].writer = "webhook"
    <3>1. \A q \in Orders \ {o} : db'[q] = db[q]
      BY <1>1, <2>1, HookSaveDoc
    <3>2. QED
      BY <2>2, <2>4, <3>1, LabelWritten DEF Lifecycle!Flag
  <2>5. CASE db'[o].status = db[o].status /\ db'[o].writer = db[o].writer
    <3>1. \A q \in Orders \ {o} : db'[q] = db[q]
      BY <1>1, <2>1, HookSaveDoc
    <3>2. QED
      BY <2>2, <2>5, <3>1, LabelsKept
  <2>6. QED
    BY <1>1, <2>1, <2>3, <2>4, <2>5, HookSaveDoc
<1>2. CASE ~HookSave(h)
  <2>1. UNCHANGED <<db, charge, contested, returned>>
    BY <1>2 DEF Receive, Serve, HookFind, HookIgnore, HookEnqueue, HookAudit, HookSwallows,
       HookDies, external
  <2>2. QED
    BY <2>1, LabelsKept
<1>3. QED
  BY <1>1, <1>2

\* An administrator's save is Override, or a stutter when it asked for what it read.
LEMMA UpdateImplements ==
  ASSUME IInv, NEW k \in Tasks, Update(k)
  PROVE  (\E o \in Orders : Lifecycle!Override(o)) \/ UNCHANGED Lifecycle!vars
<1>1. CASE UpdateSave(k)
  <2>1. PICK o \in Orders : o = update[k].order
    BY <1>1, UpdateSaveDoc
  <2>2. /\ UNCHANGED <<charge, contested, returned>> /\ \A q \in Orders \ {o} : db'[q] = db[q]
        /\ db[o].status # "none"
    BY <1>1, <2>1, UpdateSaveDoc DEF UpdateSave, external, OrderDoc, Statuses
  <2>3. CASE db'[o].status = update[k].to /\ db'[o].writer = "admin"
    <3>1. update[k].to \in Statuses
      BY <1>1, UpdateSaveDoc
    <3>2. QED
      BY <2>2, <2>3, <3>1, LabelWritten DEF Lifecycle!Override
  <2>4. CASE db'[o].status = db[o].status /\ db'[o].writer = db[o].writer
    BY <2>2, <2>4, LabelsKept
  <2>5. QED
    BY <1>1, <2>1, <2>3, <2>4, UpdateSaveDoc
<1>2. CASE ~UpdateSave(k)
  <2>1. UNCHANGED <<db, charge, contested, returned>>
    BY <1>2 DEF Update, UpdateFind, UpdateAudit, UpdateDies, external
  <2>2. QED
    BY <2>1, LabelsKept
<1>3. QED
  BY <1>1, <1>2

\* A refund shows twice: when the provider pays, and when the order says so.
LEMMA RefundImplements ==
  ASSUME IInv, NEW k \in Tasks, Refund(k)
  PROVE  \/ \E o \in Orders : Lifecycle!Return(o) \/ Lifecycle!MarkRefunded(o)
         \/ UNCHANGED Lifecycle!vars
<1>1. CASE RefundSave(k)
  <2>1. PICK o \in Orders : o = refund[k].order
    BY <1>1, RefundSaveDoc
  <2>2. /\ db'[o].status = "refunded" /\ db'[o].writer = "refund" /\ returned[o] > 0
        /\ \A q \in Orders \ {o} : db'[q] = db[q]
    BY <1>1, <2>1, RefundSaveDoc
  <2>3. UNCHANGED <<charge, contested, returned>>
    BY <1>1 DEF RefundSave, external
  <2>4. QED
    BY <2>2, <2>3, LabelWritten DEF Lifecycle!MarkRefunded
<1>2. CASE RefundCall(k)
  <2>1. refund[k] \in RefundJob /\ TypeOK /\ db[refund[k].order] \in OrderDoc
    BY <1>2, RefundIsJob DEF RefundCall, IInv
  <2>2. PICK o \in Orders : o = refund[k].order
    BY <2>1 DEF RefundJob
  <2>3. /\ returned[o] \in Nat /\ Payable(refund[k]) \in Nat \ {0} /\ charge[o] = "captured"
    BY <1>2, <2>1, <2>2, OrdersAssumption DEF RefundCall, TypeOK, Payable, RefundJob, OrderDoc
  <2>4. returned' = [returned EXCEPT ![o] = returned[o] + Payable(refund[k])]
    BY <1>2, <2>2 DEF RefundCall
  <2>5. /\ returned'[o] \in Nat /\ returned'[o] > returned[o]
        /\ returned' = [returned EXCEPT ![o] = returned'[o]]
    BY <2>1, <2>3, <2>4 DEF TypeOK
  <2>6. UNCHANGED <<db, charge, contested>>
    BY <1>2 DEF RefundCall
  <2>7. QED
    BY <2>3, <2>5, <2>6 DEF Lifecycle!Return
<1>3. CASE ~RefundSave(k) /\ ~RefundCall(k)
  <2>1. UNCHANGED <<db, charge, contested, returned>>
    BY <1>3 DEF Refund, RefundCheck, RefundDeclined, RefundAudit, RefundDies, external
  <2>2. QED
    BY <2>1, LabelsKept
<1>4. QED
  BY <1>1, <1>2, <1>3

\* Whatever the handlers do between them, the status and the money of an order change
\* only as the lifecycle allows.
THEOREM Implements == Spec => ImplementsLifecycle
<1>1. Init => Lifecycle!Init
  <2> SUFFICES ASSUME Init PROVE Lifecycle!Init
    OBVIOUS
  <2>1. \A o \in Orders : db[o].status = "none" /\ db[o].writer = "none" /\ charge[o] # "captured"
    BY NoOrderFields DEF Init
  <2>2. QED
    BY <2>1 DEF Init, Lifecycle!Init
<1>2. IInv /\ [Next]_vars => [Lifecycle!Next]_(Lifecycle!vars)
  <2> SUFFICES ASSUME IInv, [Next]_vars PROVE Lifecycle!Next \/ UNCHANGED Lifecycle!vars
    OBVIOUS
  <2>1. CASE \E o \in Orders : Checkout(o) \/ Customer(o)
    BY <2>1, CheckoutImplements, CustomerImplements DEF Lifecycle!Next
  <2>2. CASE \E h \in Hooks : \/ \E e \in Event : Receive(h, e)
                             \/ Serve(h) \/ HookSwallows(h) \/ HookDies(h)
    BY <2>2, HookImplements DEF Lifecycle!Next
  <2>3. CASE \E k \in Tasks : Update(k) \/ Refund(k)
    BY <2>3, UpdateImplements, RefundImplements DEF Lifecycle!Next
  <2>4. CASE UNCHANGED vars
    BY <2>4, LabelsKept DEF vars
  <2>5. QED
    BY <2>1, <2>2, <2>3, <2>4 DEF Next
<1>3. QED
  BY <1>1, <1>2, SpecIInv, PTL DEF Spec, ImplementsLifecycle, Lifecycle!Spec

----------------------------------------------------------------------------
(* Confirmations are bounded: a success is only taken up while the order    *)
(* is pending, and the save of the first one ends that for good.            *)

\* Deliveries of the success of o that have been taken up and not answered.
Successes(o) == {h \in Hooks : /\ hook[h] # Idle /\ hook[h].order = o
                               /\ hook[h].type = "payment.succeeded"}
Open == {"none", "pending"}

\* While the order is open none of them is past its save and nothing is confirmed.
ConfirmInv(o) ==
  /\ emails[o] + Cardinality(Successes(o)) <= Cardinality(Hooks)
  /\ db[o].status \in Open => /\ emails[o] = 0
                              /\ \A h \in Successes(o) : hook[h].pc = "found"

ToInv == \A k \in Tasks : update[k] # Idle => update[k].to \in Targets

ConfirmsInv == ToInv /\ ("pending" \notin Targets => \A o \in Orders : ConfirmInv(o))

LEMMA SuccessesFinite ==
  ASSUME NEW o
  PROVE  /\ IsFiniteSet(Successes(o)) /\ Cardinality(Successes(o)) \in Nat
         /\ Cardinality(Successes(o)) <= Cardinality(Hooks) /\ Cardinality(Hooks) \in Nat
<1>1. IsFiniteSet(Hooks) /\ Successes(o) \subseteq Hooks
  BY OrdersAssumption DEF Successes
<1>2. QED
  BY <1>1, FS_Subset, FS_CardinalityType

\* Once an order is not open any more, no save opens it again.
LEMMA ClosedStays ==
  ASSUME IInv, ToInv, [Next]_vars, "pending" \notin Targets, NEW o \in Orders,
         db[o].status \notin Open
  PROVE  db'[o].status \notin Open
<1>1. CASE PlaceOrder(o) \/ PlaceOrderWhatsApp(o)
  <2>1. PaymentInv(o) /\ checkout[o] = "new"
    BY <1>1 DEF IInv, PlaceOrder, PlaceOrderWhatsApp
  <2>2. db[o].status = "none"
    BY <2>1, NoOrderFields DEF PaymentInv
  <2>3. QED
    BY <2>2 DEF Open
<1>2. CASE SaveReference(o)
  <2>1. db[o] \in OrderDoc /\ db \in [Orders -> OrderDoc \cup {NoOrder}]
    BY <1>2 DEF IInv, TypeOK, PaymentInv, SaveReference
  <2>2. db'[o].status = db[o].status
    BY <1>2, <2>1 DEF SaveReference, OrderDoc
  <2>3. QED
    BY <2>2
<1>3. ASSUME NEW h \in Hooks, HookSave(h), hook[h].order = o PROVE db'[o].status \notin Open
  <2>1. db'[o].status \in {"paid", "disputed", db[o].status}
    BY <1>3, HookSaveDoc
  <2>2. QED
    BY <2>1 DEF Open
<1>4. ASSUME NEW k \in Tasks, UpdateSave(k), update[k].order = o PROVE db'[o].status \notin Open
  <2>1. db'[o].status \in {update[k].to, db[o].status} /\ update[k] # Idle
    BY <1>4, UpdateSaveDoc, UpdateIsJob DEF UpdateSave
  <2>2. update[k].to \in Targets
    BY <2>1 DEF ToInv
  <2>3. QED
    BY <2>1, <2>2, OrdersAssumption DEF Open, Statuses
<1>5. ASSUME NEW k \in Tasks, RefundSave(k), refund[k].order = o PROVE db'[o].status \notin Open
  BY <1>5, RefundSaveDoc DEF Open
<1>6. QED
  BY <1>1, <1>2, <1>3, <1>4, <1>5, DocStep

\* What administrators ask for is one of the targets.
LEMMA ToStep ==
  ASSUME IInv, ToInv, [Next]_vars
  PROVE  ToInv'
<1>1. TypeOK
  BY DEF IInv
<1>2. CASE update' = update
  BY <1>2 DEF ToInv
<1>3. CASE \E o \in Orders : Checkout(o) \/ Customer(o)
  BY <1>2, <1>3 DEF Checkout, Customer, PlaceOrder, PlaceOrderWhatsApp, InitiatePayment,
     InitiateFails, SaveReference, Respond, CheckoutDies, CustomerPays, CustomerDisputes, adminVars
<1>4. ASSUME NEW h \in Hooks, \/ \E e \in Event : Receive(h, e)
                              \/ Serve(h) \/ HookSwallows(h) \/ HookDies(h)
      PROVE  update' = update
  <2>1. CASE HookSave(h)
    BY <2>1 DEF HookSave, adminVars
  <2>2. CASE HookEnqueue(h) \/ HookAudit(h) \/ HookSwallows(h) \/ HookDies(h)
    BY <2>2 DEF HookEnqueue, HookAudit, HookSwallows, HookDies, adminVars
  <2>3. QED
    BY <1>4, <2>1, <2>2 DEF Receive, Serve, HookFind, HookIgnore, adminVars
<1>5. ASSUME NEW k \in Tasks, NEW a \in Admins, NEW o \in Orders, NEW s \in Targets,
             UpdateFind(k, a, o, s)
      PROVE  ToInv'
  <2>1. update'[k].to = s /\ \A l \in Tasks \ {k} : update'[l] = update[l]
    BY <1>1, <1>5 DEF UpdateFind, TypeOK
  <2>2. QED
    BY <2>1 DEF ToInv
<1>6. ASSUME NEW k \in Tasks, UpdateSave(k) PROVE ToInv'
  <2>1. update[k] \in UpdateJob /\ update[k] # Idle
    BY <1>6, UpdateIsJob DEF UpdateSave
  <2>2. update'[k].to = update[k].to /\ \A l \in Tasks \ {k} : update'[l] = update[l]
    BY <1>1, <1>6, <2>1 DEF UpdateSave, TypeOK, UpdateJob
  <2>3. QED
    BY <2>1, <2>2 DEF ToInv
<1>7. ASSUME NEW k \in Tasks, UpdateAudit(k) \/ UpdateDies(k) PROVE ToInv'
  <2>1. update'[k] = Idle /\ \A l \in Tasks \ {k} : update'[l] = update[l]
    BY <1>1, <1>7 DEF UpdateAudit, UpdateDies, TypeOK
  <2>2. QED
    BY <2>1 DEF ToInv
<1>8. ASSUME NEW k \in Tasks, Refund(k) PROVE update' = update
  BY ZenonT(60), <1>8 DEF Refund, RefundCheck, RefundCall, RefundDeclined, RefundSave, RefundAudit,
     RefundDies
<1>9. CASE UNCHANGED vars
  BY <1>2, <1>9 DEF vars
<1>10. QED
  BY <1>2, <1>3, <1>4, <1>5, <1>6, <1>7, <1>8, <1>9 DEF Next, Update

\* The steps that matter to the confirmations of an order.
LEMMA ConfirmCases ==
  ASSUME IInv, [Next]_vars
  PROVE  \/ UNCHANGED <<emails, hook>>
         \/ \E h \in Hooks, e \in Event : HookFind(h, e)
         \/ \E h \in Hooks : HookSave(h) \/ HookEnqueue(h)
         \/ \E h \in Hooks : emails' = emails /\ hook' = [hook EXCEPT ![h] = Idle]
<1>1. CASE \E o \in Orders : Checkout(o) \/ Customer(o)
  BY <1>1 DEF Checkout, Customer, PlaceOrder, PlaceOrderWhatsApp, InitiatePayment,
     InitiateFails, SaveReference, Respond, CheckoutDies, CustomerPays, CustomerDisputes
<1>2. ASSUME NEW h \in Hooks, \/ HookAudit(h) \/ HookSwallows(h) \/ HookDies(h)
                              \/ \E e \in Event : HookIgnore(h, e)
      PROVE  emails' = emails /\ (hook' = hook \/ hook' = [hook EXCEPT ![h] = Idle])
  BY <1>2 DEF HookAudit, HookSwallows, HookDies, HookIgnore, Answer
<1>3. CASE \E k \in Tasks : Update(k)
  BY <1>3 DEF Update, UpdateFind, UpdateSave, UpdateAudit, UpdateDies
<1>4. CASE \E k \in Tasks : Refund(k)
  BY ZenonT(60), <1>4 DEF Refund, RefundCheck, RefundCall, RefundDeclined, RefundSave, RefundAudit,
     RefundDies
<1>5. CASE UNCHANGED vars
  BY <1>5 DEF vars
<1>6. QED
  BY <1>1, <1>2, <1>3, <1>4, <1>5 DEF Next, Serve, Receive

LEMMA ConfirmStep ==
  ASSUME IInv, ToInv, [Next]_vars, "pending" \notin Targets, NEW o \in Orders, ConfirmInv(o)
  PROVE  ConfirmInv(o)'
<1>1. /\ TypeOK /\ emails[o] \in Nat
      /\ db'[o].status \in Open => db[o].status \in Open
  BY ClosedStays DEF IInv, TypeOK
<1> DEFINE n == Cardinality(Successes(o))
           m == Cardinality(Hooks)
<1>2. n \in Nat /\ m \in Nat /\ emails[o] + n <= m
  BY SuccessesFinite DEF ConfirmInv
<1>3. ASSUME emails'[o] = emails[o], Successes(o)' \subseteq Successes(o),
             db'[o].status \in Open => \A h \in Successes(o)' : hook'[h].pc = hook[h].pc
      PROVE  ConfirmInv(o)'
  <2>1. Cardinality(Successes(o)') <= n /\ Cardinality(Successes(o)') \in Nat
    BY <1>3, SuccessesFinite, FS_Subset, FS_CardinalityType
  <2>2. emails'[o] + Cardinality(Successes(o)') <= m
    BY <1>1, <1>2, <1>3, <2>1
  <2>3. QED
    BY <1>1, <1>3, <2>2 DEF ConfirmInv
<1>4. CASE UNCHANGED <<emails, hook>>
  <2>1. Successes(o)' = Successes(o)
    BY <1>4 DEF Successes
  <2>2. QED
    BY <1>3, <1>4, <2>1
<1>5. ASSUME NEW h \in Hooks, NEW e \in Event, HookFind(h, e) PROVE ConfirmInv(o)'
  <2>1. /\ emails' = emails /\ db' = db /\ \A i \in Hooks \ {h} : hook'[i] = hook[i]
        /\ hook'[h] = [pc |-> "found", type |-> e.type, order |-> e.order,
                       status |-> db[e.order].status, ref |-> db[e.order].ref]
    BY <1>1, <1>5 DEF HookFind, TypeOK
  <2>2. hook'[h].type = e.type /\ hook'[h].order = e.order /\ hook'[h].pc = "found"
    BY <2>1
  <2>3. CASE e.type = "payment.succeeded" /\ e.order = o
    <3>1. db[o].status = "pending"
      BY <1>5, <2>3 DEF HookFind, Finds
    <3>2. emails[o] = 0 /\ \A i \in Successes(o) : hook[i].pc = "found"
      BY <3>1 DEF ConfirmInv, Open
    <3>3. \A i \in Successes(o)' : hook'[i].pc = "found"
      BY <2>1, <2>2, <3>2 DEF Successes
    <3>4. Successes(o)' \subseteq Hooks
      BY DEF Successes
    <3>5. Cardinality(Successes(o)') <= m /\ Cardinality(Successes(o)') \in Nat
      BY <3>4, OrdersAssumption, FS_Subset, FS_CardinalityType
    <3>6. emails'[o] + Cardinality(Successes(o)') <= m
      BY <1>2, <2>1, <3>2, <3>5
    <3>7. QED
      BY <2>1, <3>2, <3>3, <3>6 DEF ConfirmInv
  <2>4. CASE ~(e.type = "payment.succeeded" /\ e.order = o)
    <3>1. Successes(o)' \subseteq Successes(o) /\ h \notin Successes(o)'
      BY <2>1, <2>2, <2>4 DEF Successes
    <3>2. QED
      BY <1>3, <2>1, <3>1 DEF Successes
  <2>5. QED
    BY <2>3, <2>4
<1>6. ASSUME NEW h \in Hooks, HookSave(h) PROVE ConfirmInv(o)'
  <2>1. hook[h] \in HookJob /\ hook[h] # Idle
    BY <1>6, HookSaveDoc
  <2>2. /\ emails' = emails /\ \A i \in Hooks \ {h} : hook'[i] = hook[i]
        /\ hook'[h].type = hook[h].type /\ hook'[h].order = hook[h].order
    BY <1>1, <1>6, <2>1 DEF HookSave, TypeOK, HookJob
  <2>3. Successes(o)' \subseteq Successes(o)
    BY <2>1, <2>2 DEF Successes
  <2>4. h \in Successes(o) => db'[o].status = "paid"
    BY <1>6, HookSaveDoc DEF Successes
  <2>5. db'[o].status \in Open => \A i \in Successes(o)' : hook'[i].pc = hook[i].pc
    BY <2>2, <2>3, <2>4 DEF Open, Successes
  <2>6. QED
    BY <1>3, <2>2, <2>3, <2>5
<1>7. ASSUME NEW h \in Hooks, HookEnqueue(h) PROVE ConfirmInv(o)'
  <2>1. /\ hook[h].pc = "saved" /\ hook[h].type = "payment.succeeded" /\ hook[h] # Idle
        /\ db' = db /\ emails' = [emails EXCEPT ![hook[h].order] = @ + 1]
        /\ hook'[h] = Idle /\ \A i \in Hooks \ {h} : hook'[i] = hook[i]
    BY <1>1, <1>7 DEF HookEnqueue, Answer, TypeOK, Idle
  <2>2. Successes(o)' = Successes(o) \ {h}
    BY <2>1 DEF Successes
  <2>3. CASE hook[h].order = o
    <3>1. h \in Successes(o) /\ db[o].status \notin Open
      BY <2>1, <2>3 DEF Successes, ConfirmInv
    <3>2. Cardinality(Successes(o)') = n - 1
      BY <2>2, <3>1, SuccessesFinite, FS_RemoveElement
    <3>3. emails'[o] = emails[o] + 1
      BY <1>1, <2>1, <2>3 DEF TypeOK
    <3>4. emails'[o] + Cardinality(Successes(o)') <= m
      BY <1>1, <1>2, <3>2, <3>3
    <3>5. QED
      BY <2>1, <3>1, <3>4 DEF ConfirmInv
  <2>4. CASE hook[h].order # o
    <3>1. emails'[o] = emails[o]
      BY <1>1, <2>1, <2>4 DEF TypeOK
    <3>2. Successes(o)' \subseteq Successes(o)
      BY <2>2
    <3>3. \A i \in Successes(o)' : hook'[i].pc = hook[i].pc
      BY <2>1, <2>2 DEF Successes
    <3>4. QED
      BY <1>3, <3>1, <3>2, <3>3
  <2>5. QED
    BY <2>3, <2>4
<1>8. ASSUME NEW h \in Hooks, emails' = emails, hook' = [hook EXCEPT ![h] = Idle]
      PROVE  ConfirmInv(o)'
  <2>1. hook'[h] = Idle /\ \A i \in Hooks \ {h} : hook'[i] = hook[i]
    BY <1>1, <1>8 DEF TypeOK
  <2>2. Successes(o)' \subseteq Successes(o) \ {h}
    BY <2>1 DEF Successes
  <2>3. QED
    BY <1>3, <1>8, <2>1, <2>2
<1>9. QED
  BY <1>4, <1>5, <1>6, <1>7, <1>8, ConfirmCases

\* Deliveries of one success that overlap may each confirm it, but never more of them
\* than are served at once, however often the provider delivers it again.
THEOREM ConfirmedBounded == Spec => []ConfirmationsBounded
<1>1. Init => ConfirmsInv
  <2> SUFFICES ASSUME Init PROVE ConfirmsInv
    OBVIOUS
  <2>1. ToInv
    BY DEF Init, ToInv
  <2>2. ASSUME NEW o \in Orders PROVE ConfirmInv(o)
    <3>1. emails[o] = 0 /\ \A h \in Hooks : hook[h] = Idle
      BY DEF Init
    <3>2. Successes(o) = {}
      BY <3>1 DEF Successes
    <3>3. Cardinality(Successes(o)) = 0
      BY <3>2, FS_EmptySet
    <3>4. QED
      BY <3>1, <3>2, <3>3, SuccessesFinite DEF ConfirmInv
  <2>3. QED
    BY <2>1, <2>2 DEF ConfirmsInv
<1>2. IInv /\ ConfirmsInv /\ [Next]_vars => ConfirmsInv'
  BY ToStep, ConfirmStep DEF ConfirmsInv
<1>3. IInv /\ ConfirmsInv => ConfirmationsBounded
  <2> SUFFICES ASSUME IInv, ConfirmsInv, "pending" \notin Targets, NEW o \in Orders
               PROVE  emails[o] <= Cardinality(Hooks)
    BY DEF ConfirmationsBounded
  <2>1. emails[o] \in Nat
    BY DEF IInv, TypeOK
  <2>2. emails[o] + Cardinality(Successes(o)) <= Cardinality(Hooks)
    BY DEF ConfirmsInv, ConfirmInv
  <2>3. QED
    BY <2>1, <2>2, SuccessesFinite
<1>4. QED
  BY <1>1, <1>2, <1>3, SpecIInv, PTL DEF Spec

----------------------------------------------------------------------------
(* The trail of the refunds.                                               *)

TrailInv == IsFiniteSet(Missing) /\ Cardinality(Missing) <= failures

\* A step that loses at most the trail of one refund, and starts no refund without
\* one, leaves at most that refund missing.
LEMMA TrailKept ==
  ASSUME NEW k0, NEW i0,
         \A o \in Orders : \A id \in issued'[o] : id \in issued[o] \/ Trailed(o, id)',
         \A o \in Orders : \A id \in issued[o] :
            Trailed(o, id) => Trailed(o, id)' \/ (o = k0 /\ id = i0)
  PROVE  Missing' \subseteq Missing \cup {<<k0, i0>>}
<1> SUFFICES ASSUME NEW r \in Missing' PROVE r \in Missing \cup {<<k0, i0>>}
  OBVIOUS
<1>1. PICK o \in Orders : r \in {o} \X issued'[o]
  BY DEF Missing
<1>2. PICK id \in issued'[o] : r = <<o, id>>
  BY <1>1
<1>3. ~Trailed(o, id)'
  BY <1>2 DEF Missing
<1>4. id \in issued[o] /\ (~Trailed(o, id) \/ (o = k0 /\ id = i0))
  BY <1>3
<1>5. r \in UNION {{q} \X issued[q] : q \in Orders}
  BY <1>2, <1>4
<1>6. QED
  BY <1>2, <1>4, <1>5 DEF Missing

\* The same when no trail is lost at all.
LEMMA NoneMissed ==
  ASSUME \A o \in Orders : \A id \in issued'[o] : id \in issued[o] \/ Trailed(o, id)',
         \A o \in Orders : \A id \in issued[o] : Trailed(o, id) => Trailed(o, id)'
  PROVE  Missing' \subseteq Missing
<1> SUFFICES ASSUME NEW r \in Missing' PROVE r \in Missing
  OBVIOUS
<1>1. PICK o \in Orders : r \in {o} \X issued'[o]
  BY DEF Missing
<1>2. PICK id \in issued'[o] : r = <<o, id>>
  BY <1>1
<1>3. ~Trailed(o, id)'
  BY <1>2 DEF Missing
<1>4. id \in issued[o] /\ ~Trailed(o, id)
  BY <1>3
<1>5. r \in UNION {{q} \X issued[q] : q \in Orders}
  BY <1>2, <1>4
<1>6. QED
  BY <1>2, <1>4, <1>5 DEF Missing

\* A request that goes on keeps its order and the refund it has been given.
Trails(k, o, id) == /\ refund[k].pc \in {"called", "saved"}
                    /\ refund[k].order = o /\ refund[k].id = id

LEMMA RequestTrails ==
  ASSUME NEW k \in Tasks, audit \subseteq audit',
         \A l \in Tasks \ {k} : refund'[l] = refund[l], NEW o, NEW id, Trailed(o, id)
  PROVE  Trailed(o, id)' \/ Trails(k, o, id)
<1>1. CASE \E e \in audit : /\ e.action = "order.refund_issued" /\ e.order = o
                            /\ e.refundReference = id
  BY <1>1 DEF Trailed
<1>2. ASSUME NEW l \in Tasks, Trails(l, o, id) PROVE Trailed(o, id)' \/ Trails(k, o, id)
  BY <1>2 DEF Trailed, Trails
<1>3. QED
  BY <1>1, <1>2 DEF Trailed, Trails

\* The steps that matter to the trail.
LEMMA TrailCases ==
  ASSUME [Next]_vars
  PROVE  \/ UNCHANGED <<refund, issued>> /\ audit \subseteq audit'
         \/ \E k \in Tasks :
              \/ \E a \in Admins, o \in Orders, m \in Amounts, b \in Approvers \cup {NoAdmin} :
                   RefundCheck(k, a, o, m, b)
              \/ RefundCall(k) \/ RefundDeclined(k) \/ RefundSave(k)
              \/ RefundAudit(k) \/ RefundDies(k)
<1>1. CASE \E o \in Orders : Checkout(o) \/ Customer(o)
  BY <1>1 DEF Checkout, Customer, PlaceOrder, PlaceOrderWhatsApp, InitiatePayment,
     InitiateFails, SaveReference, Respond, CheckoutDies, CustomerPays, CustomerDisputes,
     external, adminVars
<1>2. ASSUME NEW h \in Hooks, \/ \E e \in Event : Receive(h, e)
                              \/ Serve(h) \/ HookSwallows(h) \/ HookDies(h)
      PROVE  UNCHANGED <<refund, issued>> /\ audit \subseteq audit'
  <2>1. CASE HookSave(h)
    BY <2>1 DEF HookSave, external, adminVars
  <2>2. CASE HookEnqueue(h) \/ HookAudit(h) \/ HookSwallows(h) \/ HookDies(h)
    BY <2>2 DEF HookEnqueue, HookAudit, HookSwallows, HookDies, external, adminVars
  <2>3. QED
    BY <1>2, <2>1, <2>2 DEF Receive, Serve, HookFind, HookIgnore, external, adminVars
<1>3. CASE \E k \in Tasks : Update(k)
  BY <1>3 DEF Update, UpdateFind, UpdateSave, UpdateAudit, UpdateDies, external
<1>4. CASE UNCHANGED vars
  BY <1>4 DEF vars
<1>5. QED
  BY <1>1, <1>2, <1>3, <1>4 DEF Next, Refund

\* No step but the death of a request misses a refund, and that misses one at most.
LEMMA TrailStep ==
  ASSUME IInv, [Next]_vars
  PROVE  \/ Missing' \subseteq Missing
         \/ failures' = failures + 1 /\ \E r : Missing' \subseteq Missing \cup {r}
<1>1. TypeOK
  BY DEF IInv
<1>2. CASE UNCHANGED <<refund, issued>> /\ audit \subseteq audit'
  <2>1. \A o : \A id : Trailed(o, id) => Trailed(o, id)'
    BY <1>2 DEF Trailed
  <2>2. QED
    BY <1>2, <2>1, NoneMissed
<1>3. ASSUME NEW k \in Tasks, issued' = issued, audit \subseteq audit',
             refund[k].pc \notin {"called", "saved"},
             \A l \in Tasks \ {k} : refund'[l] = refund[l]
      PROVE  Missing' \subseteq Missing
  <2>1. \A o \in Orders : \A id \in issued[o] : Trailed(o, id) => Trailed(o, id)'
    BY <1>3, RequestTrails DEF Trails
  <2>2. QED
    BY <1>3, <2>1, NoneMissed
<1>4. ASSUME NEW k \in Tasks, NEW a \in Admins, NEW o \in Orders, NEW m \in Amounts,
             NEW b \in Approvers \cup {NoAdmin}, RefundCheck(k, a, o, m, b)
      PROVE  Missing' \subseteq Missing
  <2>1. /\ issued' = issued /\ audit' = audit /\ refund[k].pc = "idle"
        /\ \A l \in Tasks \ {k} : refund'[l] = refund[l]
    BY <1>1, <1>4 DEF RefundCheck, external, Idle, TypeOK
  <2>2. QED
    BY <1>3, <2>1
<1>5. ASSUME NEW k \in Tasks, RefundDeclined(k) PROVE Missing' \subseteq Missing
  <2>1. /\ issued' = issued /\ audit' = audit /\ refund[k].pc = "checked"
        /\ \A l \in Tasks \ {k} : refund'[l] = refund[l]
    BY <1>1, <1>5 DEF RefundDeclined, external, TypeOK
  <2>2. QED
    BY <1>3, <2>1
<1>6. ASSUME NEW k \in Tasks, RefundCall(k) PROVE Missing' \subseteq Missing
  <2>1. refund[k].pc = "checked"
    BY <1>6 DEF RefundCall
  <2>2. refund[k] \in RefundJob /\ refund[k].order \in Orders
    BY <2>1, RefundIsJob DEF RefundJob
  <2>3. PICK q \in Orders : q = refund[k].order
    BY <2>2
  <2>4. PICK sum : sum = returned[q] + Payable(refund[k])
    OBVIOUS
  <2>5. /\ audit' = audit /\ issued' = [issued EXCEPT ![q] = @ \cup {sum}]
        /\ refund' = [refund EXCEPT ![k].pc = "called", ![k].id = sum]
    BY <1>6, <2>3, <2>4 DEF RefundCall
  <2>6. /\ \A l \in Tasks \ {k} : refund'[l] = refund[l]
        /\ refund'[k] = [refund[k] EXCEPT !.pc = "called", !.id = sum]
    BY <1>1, <2>5 DEF TypeOK
  <2>7. refund'[k].pc = "called" /\ refund'[k].order = q /\ refund'[k].id = sum
    BY <2>2, <2>3, <2>6 DEF RefundJob
  <2>8. Trailed(q, sum)'
    BY <2>7 DEF Trailed
  <2>9. \A o \in Orders : \A id \in issued'[o] : id \in issued[o] \/ Trailed(o, id)'
    <3>1. \A o \in Orders \ {q} : issued'[o] = issued[o]
      BY <1>1, <2>5 DEF TypeOK
    <3>2. issued'[q] = issued[q] \cup {sum}
      BY <1>1, <2>2, <2>5 DEF TypeOK
    <3>3. ASSUME NEW o \in Orders, NEW id \in issued'[o]
          PROVE  id \in issued[o] \/ Trailed(o, id)'
      <4>1. CASE o = q /\ id = sum
        BY <2>8, <4>1
      <4>2. CASE ~(o = q /\ id = sum)
        BY <3>1, <3>2, <4>2
      <4>3. QED
        BY <4>1, <4>2
    <3>4. QED
      BY <3>3
  <2>10. \A o \in Orders : \A id \in issued[o] : Trailed(o, id) => Trailed(o, id)'
    BY <2>1, <2>5, <2>6, RequestTrails DEF Trails
  <2>11. QED
    BY <2>9, <2>10, NoneMissed
<1>7. ASSUME NEW k \in Tasks, RefundSave(k) PROVE Missing' \subseteq Missing
  <2>1. refund[k].pc = "called"
    BY <1>7 DEF RefundSave
  <2>2. refund[k] \in RefundJob
    BY <2>1, RefundIsJob
  <2>3. /\ issued' = issued /\ audit' = audit
        /\ refund' = [refund EXCEPT ![k].pc = "saved"]
    BY <1>7 DEF RefundSave, external
  <2>4. /\ \A l \in Tasks \ {k} : refund'[l] = refund[l]
        /\ refund'[k].pc = "saved" /\ refund'[k].order = refund[k].order
        /\ refund'[k].id = refund[k].id
    BY <1>1, <2>2, <2>3 DEF TypeOK, RefundJob
  <2>5. ASSUME NEW o \in Orders, NEW id \in issued[o], Trailed(o, id) PROVE Trailed(o, id)'
    <3>1. CASE Trails(k, o, id)
      BY <2>4, <3>1 DEF Trailed, Trails
    <3>2. QED
      BY <2>3, <2>4, <2>5, <3>1, RequestTrails
  <2>6. QED
    BY <2>3, <2>5, NoneMissed
<1>8. ASSUME NEW k \in Tasks, RefundAudit(k) PROVE Missing' \subseteq Missing
  <2>1. /\ issued' = issued /\ refund' = [refund EXCEPT ![k] = Idle]
        /\ audit' = audit \cup
             {[action |-> "order.refund_issued", order |-> refund[k].order,
               actor |-> refund[k].actor, approvedBy |-> refund[k].approver,
               refundReference |-> refund[k].id,
               amount |-> RefundAmount(refund[k].order, refund[k].amount)]}
    BY <1>8 DEF RefundAudit, external
  <2>2. \A l \in Tasks \ {k} : refund'[l] = refund[l]
    BY <1>1, <2>1 DEF TypeOK
  <2>3. \E e \in audit' : /\ e.action = "order.refund_issued" /\ e.order = refund[k].order
                          /\ e.refundReference = refund[k].id
    <3> DEFINE entry == [action |-> "order.refund_issued", order |-> refund[k].order,
                         actor |-> refund[k].actor, approvedBy |-> refund[k].approver,
                         refundReference |-> refund[k].id,
                         amount |-> RefundAmount(refund[k].order, refund[k].amount)]
    <3>1. entry \in audit'
      BY <2>1
    <3>2. /\ entry.action = "order.refund_issued" /\ entry.order = refund[k].order
          /\ entry.refundReference = refund[k].id
      OBVIOUS
    <3> HIDE DEF entry
    <3>3. QED
      BY <3>1, <3>2
  <2>4. ASSUME NEW o \in Orders, NEW id \in issued[o], Trailed(o, id) PROVE Trailed(o, id)'
    <3>1. CASE Trails(k, o, id)
      BY <2>3, <3>1 DEF Trailed, Trails
    <3>2. QED
      BY <2>1, <2>2, <2>4, <3>1, RequestTrails
  <2>5. QED
    BY <2>1, <2>4, NoneMissed
<1>9. ASSUME NEW k \in Tasks, RefundDies(k)
      PROVE  failures' = failures + 1 /\ \E r : Missing' \subseteq Missing \cup {r}
  <2>1. /\ issued' = issued /\ audit' = audit /\ failures' = failures + 1
        /\ refund' = [refund EXCEPT ![k] = Idle]
    BY <1>9 DEF RefundDies, external
  <2>2. \A l \in Tasks \ {k} : refund'[l] = refund[l]
    BY <1>1, <2>1 DEF TypeOK
  <2>3. \A o \in Orders : \A id \in issued[o] :
          Trailed(o, id) => Trailed(o, id)' \/ (o = refund[k].order /\ id = refund[k].id)
    BY <2>1, <2>2, RequestTrails DEF Trails
  <2>4. Missing' \subseteq Missing \cup {<<refund[k].order, refund[k].id>>}
    BY <2>1, <2>3, TrailKept
  <2>5. QED
    BY <2>1, <2>4
<1>10. QED
  BY <1>2, <1>4, <1>5, <1>6, <1>7, <1>8, <1>9, TrailCases

\* Every refund that the provider has made is in the audit log or on its way there,
\* save at most one for each request that died.
THEOREM RefundsTrailed == Spec => []RefundTrail
<1>1. Init => TrailInv
  <2> SUFFICES ASSUME Init PROVE TrailInv
    OBVIOUS
  <2>1. Missing = {} /\ failures = 0
    BY DEF Init, Missing
  <2>2. QED
    BY <2>1, FS_EmptySet DEF TrailInv
<1>2. IInv /\ TrailInv /\ [Next]_vars => TrailInv'
  <2> SUFFICES ASSUME IInv, TrailInv, [Next]_vars PROVE TrailInv'
    OBVIOUS
  <2>1. failures \in Nat /\ failures' \in {failures, failures + 1}
    BY FailuresStep DEF IInv, TypeOK
  <2>2. IsFiniteSet(Missing) /\ Cardinality(Missing) \in Nat /\ Cardinality(Missing) <= failures
    BY FS_CardinalityType DEF TrailInv
  <2>3. CASE Missing' \subseteq Missing
    <3>1. /\ IsFiniteSet(Missing') /\ Cardinality(Missing') <= Cardinality(Missing)
          /\ Cardinality(Missing') \in Nat
      BY <2>2, <2>3, FS_Subset, FS_CardinalityType
    <3>2. QED
      BY <2>1, <2>2, <3>1 DEF TrailInv
  <2>4. ASSUME NEW r, failures' = failures + 1, Missing' \subseteq Missing \cup {r}
        PROVE  TrailInv'
    <3>1. /\ IsFiniteSet(Missing \cup {r})
          /\ Cardinality(Missing \cup {r}) \in {Cardinality(Missing), Cardinality(Missing) + 1}
      BY <2>2, FS_AddElement
    <3>2. /\ IsFiniteSet(Missing')
          /\ Cardinality(Missing') <= Cardinality(Missing \cup {r})
          /\ Cardinality(Missing') \in Nat
      BY <2>4, <3>1, FS_Subset, FS_CardinalityType
    <3>3. QED
      BY <2>1, <2>2, <2>4, <3>1, <3>2 DEF TrailInv
  <2>5. QED
    BY <2>3, <2>4, TrailStep
<1>3. TrailInv => RefundTrail
  BY DEF TrailInv, RefundTrail
<1>4. QED
  BY <1>1, <1>2, <1>3, SpecIInv, PTL DEF Spec

----------------------------------------------------------------------------
(* What liveness rests on: what is owed can still be delivered.            *)

Success(o) == [type |-> "payment.succeeded", order |-> o]
Dispute(o) == [type |-> "dispute.created", order |-> o]

\* The event is still being delivered, and a request that receives it acts on it.
Deliverable(e) == e \in Event /\ e \notin acked /\ Sent(e) /\ Finds(e)

\* As long as an order that is paid for stands at pending, the success can be delivered.
SettlementOwed ==
  "pending" \notin Targets =>
    \A o \in Orders : charge[o] = "captured" /\ db[o].status = "pending" => Deliverable(Success(o))

\* As long as a dispute has not reached its order, and the references match, it can be.
DisputeOwed ==
  \A o \in Orders :
    LET p == db[o].provider IN
    contested[o] /\ CheckoutRef[p] = DisputeRef[p] /\ ~db[o].disputed => Deliverable(Dispute(o))

PendingInv == ToInv /\ ("pending" \notin Targets =>
  \A o \in Orders : db[o].status = "pending" => db[o].writer = "checkout")

\* Only checkout makes an order pending.
LEMMA PendingStep ==
  ASSUME IInv, PendingInv, [Next]_vars, "pending" \notin Targets, NEW o \in Orders,
         db'[o].status = "pending"
  PROVE  db'[o].writer = "checkout"
<1>1. TypeOK /\ PaymentInv(o) /\ (db[o].status = "pending" => db[o].writer = "checkout")
  BY DEF IInv, PendingInv
<1>2. CASE PlaceOrder(o)
  <2>1. PICK p \in Gateways, t \in Totals : db' = [db EXCEPT ![o] = NewOrder("pending", p, t)]
    BY <1>2 DEF PlaceOrder
  <2>2. db'[o] = NewOrder("pending", p, t) /\ p \in Providers
    BY <1>1, <2>1 DEF TypeOK, Providers
  <2>3. QED
    BY <2>2, NewOrderIsDoc
<1>3. CASE PlaceOrderWhatsApp(o)
  <2>1. PICK t \in Totals : db' = [db EXCEPT ![o] = NewOrder("pending_whatsapp", "manual", t)]
    BY <1>3 DEF PlaceOrderWhatsApp
  <2>2. db'[o] = NewOrder("pending_whatsapp", "manual", t) /\ "manual" \in Providers
    BY <1>1, <2>1 DEF TypeOK, Providers
  <2>3. QED
    BY <2>2, NewOrderIsDoc
<1>4. CASE SaveReference(o)
  <2>1. db[o] \in OrderDoc
    BY <1>1, <1>4 DEF PaymentInv, SaveReference
  <2>2. db'[o].status = db[o].status /\ db'[o].writer = db[o].writer
    BY <1>1, <1>4, <2>1 DEF SaveReference, OrderDoc, TypeOK
  <2>3. QED
    BY <1>1, <2>2
<1>5. ASSUME NEW h \in Hooks, HookSave(h), hook[h].order = o PROVE db'[o].writer = "checkout"
  <2>1. /\ db'[o].status \in {"paid", "disputed", db[o].status}
        /\ db'[o].status \in {"paid", "disputed"} \/ db'[o].writer = db[o].writer
    BY <1>5, HookSaveDoc
  <2>2. QED
    BY <1>1, <2>1
<1>6. ASSUME NEW k \in Tasks, UpdateSave(k), update[k].order = o PROVE db'[o].writer = "checkout"
  <2>1. /\ update[k] # Idle
        /\ \/ db'[o].status = update[k].to
           \/ db'[o].status = db[o].status /\ db'[o].writer = db[o].writer
    BY <1>6, UpdateSaveDoc, UpdateIsJob DEF UpdateSave
  <2>2. update[k].to \in Targets
    BY <2>1 DEF PendingInv, ToInv
  <2>3. QED
    BY <1>1, <2>1, <2>2
<1>7. ASSUME NEW k \in Tasks, RefundSave(k), refund[k].order = o PROVE db'[o].writer = "checkout"
  BY <1>7, RefundSaveDoc
<1>8. CASE db'[o] = db[o]
  BY <1>1, <1>8
<1>9. QED
  BY <1>2, <1>3, <1>4, <1>5, <1>6, <1>7, <1>8, DocStep

\* A payment is never stranded: until the order has left pending the provider goes on
\* delivering its success, and any request that receives it settles the order, whatever
\* has died or been changed before (processPaymentEvent).
THEOREM SettlementsOwed == Spec => []SettlementOwed
<1>1. Init => PendingInv
  BY NoOrderFields DEF Init, PendingInv, ToInv
<1>2. IInv /\ PendingInv /\ [Next]_vars => PendingInv'
  BY PendingStep, ToStep DEF PendingInv
<1>3. IInv /\ PendingInv => SettlementOwed
  <2> SUFFICES ASSUME IInv, PendingInv, "pending" \notin Targets, NEW o \in Orders,
                      charge[o] = "captured", db[o].status = "pending"
               PROVE  Deliverable(Success(o))
    BY DEF SettlementOwed
  <2>1. db[o].writer = "checkout"
    BY DEF PendingInv
  <2>2. Success(o) \in Event /\ Success(o).type = "payment.succeeded" /\ Success(o).order = o
    BY DEF Success, Event
  <2>3. Success(o) \notin acked
    BY <2>1, <2>2 DEF IInv, AckInv
  <2>4. QED
    BY <2>2, <2>3 DEF Deliverable, Sent, Finds
<1>4. QED
  BY <1>1, <1>2, <1>3, SpecIInv, PTL DEF Spec

\* Nor is a dispute, at the providers that name a charge as checkout does: the order holds
\* the reference under which it will be looked for.
THEOREM DisputesOwed == Spec => []DisputeOwed
<1>1. IInv => DisputeOwed
  <2> SUFFICES ASSUME IInv, NEW o \in Orders, contested[o],
                      CheckoutRef[db[o].provider] = DisputeRef[db[o].provider], ~db[o].disputed
               PROVE  Deliverable(Dispute(o))
    BY DEF DisputeOwed
  <2> DEFINE p == db[o].provider
  <2>1. Dispute(o) \in Event /\ Dispute(o).type = "dispute.created" /\ Dispute(o).order = o
    BY DEF Dispute, Event
  <2>2. Dispute(o) \notin acked
    BY <2>1 DEF IInv, AckInv
  <2>3. charge[o] = "captured" /\ p \in Gateways /\ db[o].ref \in {CheckoutRef[p], SuccessRef[p]}
    BY DEF IInv, TypeOK, StatusInv, PaymentInv
  <2>4. db[o].ref = DisputeRef[p]
    BY <2>3, KnownRefs
  <2>5. QED
    BY <2>1, <2>2, <2>4 DEF Deliverable, Sent, Finds
<1>2. QED
  BY <1>1, SpecIInv, PTL

----------------------------------------------------------------------------
(* Which settled orders can be refunded.                                   *)

\* A delivery that has read the reference of the success has found it on the order for
\* good, and what a webhook has settled carries it.
HookRefInv(h) ==
  LET o == hook[h].order IN
  hook[h] # Idle /\ hook[h].ref = SuccessRef[db[o].provider] => db[o].ref = SuccessRef[db[o].provider]
SettledRefInv(o) ==
  db[o].status = "paid" /\ db[o].writer = "webhook" => db[o].ref = SuccessRef[db[o].provider]
RefsInv == (\A h \in Hooks : HookRefInv(h)) /\ (\A o \in Orders : SettledRefInv(o))

\* Once the customer has paid, the order stays with its provider, and the reference of the
\* success is never replaced.
LEMMA PaidKept ==
  ASSUME IInv, [Next]_vars, NEW o \in Orders, charge[o] = "captured"
  PROVE  /\ db'[o].provider = db[o].provider
         /\ db[o].ref = SuccessRef[db[o].provider] => db'[o].ref = db[o].ref
<1>1. PaymentInv(o)
  BY DEF IInv
<1>2. ~PlaceOrder(o) /\ ~PlaceOrderWhatsApp(o) /\ ~SaveReference(o)
  BY <1>1 DEF PlaceOrder, PlaceOrderWhatsApp, SaveReference, PaymentInv
<1>3. ASSUME NEW h \in Hooks, HookSave(h), hook[h].order = o
      PROVE  /\ db'[o].provider = db[o].provider
             /\ db'[o].ref \in {db[o].ref, SuccessRef[db[o].provider]}
  BY <1>3, HookSaveDoc
<1>4. ASSUME NEW k \in Tasks, UpdateSave(k), update[k].order = o
      PROVE  db'[o].provider = db[o].provider /\ db'[o].ref = db[o].ref
  BY <1>4, UpdateSaveDoc
<1>5. ASSUME NEW k \in Tasks, RefundSave(k), refund[k].order = o
      PROVE  db'[o].provider = db[o].provider /\ db'[o].ref = db[o].ref
  BY <1>5, RefundSaveDoc
<1>6. QED
  BY <1>2, <1>3, <1>4, <1>5, DocStep

\* The save of a success leaves its reference on the order: it writes it, or it has read
\* it there.
LEMMA SuccessSaved ==
  ASSUME IInv, NEW h \in Hooks, HookRefInv(h), HookSave(h), hook[h].type = "payment.succeeded"
  PROVE  LET o == hook[h].order IN db'[o].ref = SuccessRef[db'[o].provider]
<1> DEFINE j == hook[h]
           o == j.order
           p == db[o].provider
<1>1. /\ j \in HookJob /\ j # Idle /\ o \in Orders /\ db[o] \in OrderDoc
      /\ db'[o].provider = p /\ db \in [Orders -> OrderDoc \cup {NoOrder}]
  BY HookSaveDoc DEF IInv, TypeOK
<1>2. db'[o].ref = Saved(SuccessRef[p], j.ref, db[o].ref)
  BY <1>1 DEF HookSave, OrderDoc
<1>3. QED
  BY <1>1, <1>2 DEF HookRefInv, Saved

LEMMA SettledRefStep ==
  ASSUME IInv, RefsInv, [Next]_vars, NEW o \in Orders
  PROVE  SettledRefInv(o)'
<1>1. TypeOK /\ PaymentInv(o) /\ StatusInv(o) /\ SettledRefInv(o)
  BY DEF IInv, RefsInv
<1>2. SUFFICES ASSUME db'[o].status = "paid", db'[o].writer = "webhook"
               PROVE  db'[o].ref = SuccessRef[db'[o].provider]
  BY DEF SettledRefInv
<1>3. CASE PlaceOrder(o) \/ PlaceOrderWhatsApp(o)
  <2>1. PICK s \in {"pending", "pending_whatsapp"}, p \in Providers, t \in Totals :
          db' = [db EXCEPT ![o] = NewOrder(s, p, t)]
    BY <1>3 DEF PlaceOrder, PlaceOrderWhatsApp, Providers
  <2>2. db'[o].status = s
    BY <1>1, <2>1, NewOrderIsDoc DEF TypeOK
  <2>3. QED
    BY <1>2, <2>2
<1>4. CASE SaveReference(o)
  <2>1. db[o] \in OrderDoc /\ charge[o] # "captured"
    BY <1>1, <1>4 DEF PaymentInv, SaveReference
  <2>2. db'[o].status = db[o].status /\ db'[o].writer = db[o].writer
    BY <1>1, <1>4, <2>1 DEF SaveReference, OrderDoc, TypeOK
  <2>3. QED
    BY <1>1, <1>2, <2>1, <2>2 DEF StatusInv
<1>5. ASSUME NEW h \in Hooks, HookSave(h), hook[h].order = o
      PROVE  db'[o].ref = SuccessRef[db'[o].provider]
  <2>1. CASE hook[h].type = "payment.succeeded"
    BY <1>5, <2>1, SuccessSaved DEF RefsInv
  <2>2. CASE hook[h].type # "payment.succeeded"
    <3>1. /\ db'[o].status = db[o].status /\ db'[o].writer = db[o].writer
          /\ db'[o].ref = db[o].ref /\ db'[o].provider = db[o].provider
      BY <1>2, <1>5, <2>2, HookSaveDoc
    <3>2. QED
      BY <1>1, <1>2, <3>1 DEF SettledRefInv
  <2>3. QED
    BY <2>1, <2>2
<1>6. ASSUME NEW k \in Tasks, UpdateSave(k), update[k].order = o
      PROVE  db'[o].ref = SuccessRef[db'[o].provider]
  <2>1. /\ db'[o].status = db[o].status /\ db'[o].writer = db[o].writer
        /\ db'[o].ref = db[o].ref /\ db'[o].provider = db[o].provider
    BY <1>2, <1>6, UpdateSaveDoc
  <2>2. QED
    BY <1>1, <1>2, <2>1 DEF SettledRefInv
<1>7. ASSUME NEW k \in Tasks, RefundSave(k), refund[k].order = o
      PROVE  db'[o].ref = SuccessRef[db'[o].provider]
  BY <1>2, <1>7, RefundSaveDoc
<1>8. CASE db'[o] = db[o]
  BY <1>1, <1>2, <1>8 DEF SettledRefInv
<1>9. QED
  BY <1>3, <1>4, <1>5, <1>6, <1>7, <1>8, DocStep

\* What a request has read, it has read of an order that was paid for: it stays.
LEMMA HookRefKept ==
  ASSUME IInv, [Next]_vars, NEW h \in Hooks, HookRefInv(h), hook'[h] # Idle, hook[h] # Idle,
         hook'[h].order = hook[h].order, hook'[h].ref = hook[h].ref
  PROVE  HookRefInv(h)'
<1> DEFINE q == hook[h].order
<1>1. hook[h] \in HookJob /\ HookInv(h)
  BY DEF IInv, TypeOK
<1>2. q \in Orders /\ charge[q] = "captured"
  BY <1>1 DEF HookJob, HookInv
<1>3. /\ db'[q].provider = db[q].provider
      /\ db[q].ref = SuccessRef[db[q].provider] => db'[q].ref = db[q].ref
  BY <1>2, PaidKept
<1>4. QED
  BY <1>3 DEF HookRefInv

LEMMA RefsStep ==
  ASSUME IInv, RefsInv, [Next]_vars
  PROVE  RefsInv'
<1>1. TypeOK
  BY DEF IInv
<1>2. ASSUME NEW h \in Hooks, hook'[h] = hook[h] \/ hook'[h] = Idle PROVE HookRefInv(h)'
  <2>1. CASE hook'[h] = Idle
    BY <2>1 DEF HookRefInv
  <2>2. CASE hook'[h] # Idle
    BY <1>2, <2>2, HookRefKept DEF RefsInv
  <2>3. QED
    BY <2>1, <2>2
<1>3. ASSUME NEW h \in Hooks, NEW e \in Event, HookFind(h, e) PROVE \A i \in Hooks : HookRefInv(i)'
  <2>1. /\ db' = db /\ \A i \in Hooks \ {h} : hook'[i] = hook[i]
        /\ hook'[h] = [pc |-> "found", type |-> e.type, order |-> e.order,
                       status |-> db[e.order].status, ref |-> db[e.order].ref]
    BY <1>1, <1>3 DEF HookFind, TypeOK
  <2>2. hook'[h].order = e.order /\ hook'[h].ref = db[e.order].ref
    BY <2>1
  <2>3. HookRefInv(h)'
    BY <2>1, <2>2 DEF HookRefInv
  <2>4. QED
    BY <1>2, <2>1, <2>3
<1>4. ASSUME NEW h \in Hooks, HookSave(h) PROVE \A i \in Hooks : HookRefInv(i)'
  <2>1. hook[h] \in HookJob /\ hook[h] # Idle
    BY <1>4, HookSaveDoc
  <2>2. /\ \A i \in Hooks \ {h} : hook'[i] = hook[i]
        /\ hook'[h] = [hook[h] EXCEPT !.pc = "saved"]
    BY <1>1, <1>4 DEF HookSave, TypeOK
  <2>3. hook'[h].order = hook[h].order /\ hook'[h].ref = hook[h].ref /\ hook'[h].pc = "saved"
    BY <2>1, <2>2 DEF HookJob
  <2>4. HookRefInv(h)'
    BY <2>1, <2>3, HookRefKept DEF RefsInv, Idle
  <2>5. QED
    BY <1>2, <2>2, <2>4
<1>5. ASSUME NEW h \in Hooks, HookEnqueue(h) \/ hook' = [hook EXCEPT ![h] = Idle]
      PROVE  \A i \in Hooks : HookRefInv(i)'
  <2>1. hook' = [hook EXCEPT ![h] = Idle]
    BY <1>5 DEF HookEnqueue, Answer
  <2>2. \A i \in Hooks : hook'[i] = hook[i] \/ hook'[i] = Idle
    BY <1>1, <2>1 DEF TypeOK
  <2>3. QED
    BY <1>2, <2>2
<1>6. \A i \in Hooks : HookRefInv(i)'
  BY <1>2, <1>3, <1>4, <1>5, ConfirmCases
<1>7. QED
  BY <1>6, SettledRefStep DEF RefsInv

\* Whatever the order in which checkout, deliveries, disputes and administrators save it,
\* an order that a webhook has settled ends up with the reference of its success: at
\* Paystack and Flutterwave that is the one to refund by, at Stripe it never is
\* (processPaymentEvent, issueRefund).
THEOREM SettledOrdersRefund == Spec => []SettledRefunds
<1>1. Init => RefsInv
  BY NoOrderFields DEF Init, RefsInv, HookRefInv, SettledRefInv
<1>2. IInv /\ RefsInv /\ [Next]_vars => RefsInv'
  BY RefsStep
<1>3. IInv /\ RefsInv => SettledRefunds
  <2> SUFFICES ASSUME IInv, RefsInv, NEW o \in Orders, db[o].status = "paid", db[o].writer = "webhook"
               PROVE  db[o].ref = RefundHandle[db[o].provider] <=> db[o].provider # "stripe"
    BY DEF SettledRefunds
  <2> DEFINE p == db[o].provider
  <2>1. p \in Gateways /\ db[o].ref = SuccessRef[p]
    BY DEF IInv, StatusInv, PaymentInv, RefsInv, SettledRefInv
  <2>2. p \in {"stripe", "paystack", "flutterwave"}
    BY <2>1, OrdersAssumption
  <2>3. SuccessRef[p] = RefundHandle[p] <=> p # "stripe"
    <3> HIDE DEF p
    <3>1. SuccessRef[p] = Adapters[p].success /\ RefundHandle[p] = Adapters[p].refund
      BY <2>2 DEF SuccessRef, RefundHandle, Adapters
    <3>2. CASE p = "stripe"
      BY <3>1, <3>2 DEF Adapters, Stripe
    <3>3. CASE p = "paystack"
      BY <3>1, <3>3 DEF Adapters, Paystack
    <3>4. CASE p = "flutterwave"
      BY <3>1, <3>4 DEF Adapters, Flutterwave
    <3>5. QED
      BY <2>2, <3>2, <3>3, <3>4
  <2>4. QED
    BY <2>1, <2>3
<1>4. QED
  BY <1>1, <1>2, <1>3, SpecIInv, PTL DEF Spec
=============================================================================
