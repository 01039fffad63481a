------------------------------- MODULE Orders -------------------------------
(***************************************************************************)
(* The life of an order: checkout creates it and opens a payment with a    *)
(* provider, the customer pays at the provider, the provider reports it by *)
(* webhook (at least once, in any order), administrators change statuses   *)
(* and issue refunds.  Every await of a handler is a step boundary: what a *)
(* handler read before it may be stale after it.                           *)
(*                                                                         *)
(* doc.save() of mongoose writes only the paths whose value differs from   *)
(* the one that was read, and filters on _id alone, so a save never fails  *)
(* because another request has written in between.                         *)
(***************************************************************************)
EXTENDS Naturals, FiniteSets

CONSTANTS
  Orders,      \* orders that checkouts may place
  Hooks,       \* webhook requests being served at once
  Admins,      \* administrators
  Tasks,       \* their open requests: one status change and one refund each at once
  Approvers,   \* what a refund request may name as approvedByUserId: any text, nothing looks it up
  NoAdmin,     \* "null": no approver named, no refund issued
  Gateways,    \* payment providers that are configured and switched on
  Totals,      \* order totals the cart may add up to
  Amounts,     \* refund amounts asked for, 0 when the field is left out
  Threshold,   \* HIGH_VALUE_REFUND_THRESHOLD_NGN
  Targets,     \* statuses the administrators ask for
  MaxUpdates,  \* bound: status changes by administrators
  MaxFailures  \* bound: requests that die at an await

Statuses == {"pending", "pending_whatsapp", "paid", "fulfilled",
             "refund_requested", "refunded", "disputed", "cancelled"}

ASSUME OrdersAssumption ==
  /\ IsFiniteSet(Hooks)
  /\ Gateways \subseteq {"stripe", "paystack", "flutterwave"}
  /\ Totals \subseteq Nat \ {0}
  /\ Amounts \subseteq Nat
  /\ Threshold \in Nat \ {0}
  /\ Targets \subseteq Statuses
  /\ MaxUpdates \in Nat /\ MaxFailures \in Nat
  /\ NoAdmin \notin Admins \cup Approvers

VARIABLES
  db,        \* db[o]: the stored order document
  checkout,  \* checkout[o]: where the placeOrder request of o stands
  charge,    \* charge[o]: the payment at the provider
  contested, \* contested[o]: the customer opened a dispute at the provider
  issued,    \* issued[o]: references of the refunds the provider has made
  returned,  \* returned[o]: their sum
  acked,     \* webhook events answered with 200
  hook,      \* hook[h]: a webhook request
  update,    \* update[k]: a PATCH of an order's status
  refund,    \* refund[k]: a refund request
  emails,    \* emails[o]: order-confirmation jobs queued
  audit,     \* the audit log
  updates,   \* status changes begun so far
  failures   \* requests that died so far

vars == <<db, checkout, charge, contested, issued, returned, acked, hook,
          update, refund, emails, audit, updates, failures>>

----------------------------------------------------------------------------
(* What the adapters make of the providers' references.  A reference is the *)
(* kind of identifier; which order it belongs to is understood.             *)

\* What each names: checkout, the providerReference of createCheckout; success and
\* dispute, that of parseWebhookEvent; refund, what its refund API wants to be given.
Stripe      == [checkout |-> "session", success |-> "session",
                dispute  |-> "intent",  refund  |-> "intent"]
Paystack    == [checkout |-> "number",  success |-> "number",
                dispute  |-> "number",  refund  |-> "number"]
Flutterwave == [checkout |-> "number",  success |-> "txn",
                dispute  |-> "txn",     refund  |-> "txn"]

Adapters == [stripe |-> Stripe, paystack |-> Paystack, flutterwave |-> Flutterwave]

CheckoutRef  == [p \in DOMAIN Adapters |-> Adapters[p].checkout]
SuccessRef   == [p \in DOMAIN Adapters |-> Adapters[p].success]
DisputeRef   == [p \in DOMAIN Adapters |-> Adapters[p].dispute]
RefundHandle == [p \in DOMAIN Adapters |-> Adapters[p].refund]

Refs == {"none", "session", "intent", "number", "txn"}
Refundable == {"paid", "fulfilled", "refund_requested", "disputed"}

NoOrder == [status |-> "none", writer |-> "none", provider |-> "none", total |-> 0,
            ref |-> "none", disputed |-> FALSE, refundRef |-> 0, issuedBy |-> NoAdmin]
NewOrder(s, p, t) == [NoOrder EXCEPT !.status = s, !.writer = "checkout",
                                     !.provider = p, !.total = t]
Idle == [pc |-> "idle"]

\* The provider reports a capture and a dispute; either may arrive at any time
\* after the fact, again and again.
Event == [type : {"payment.succeeded", "dispute.created"}, order : Orders]
Sent(e) == IF e.type = "payment.succeeded" THEN charge[e.order] = "captured"
                                           ELSE contested[e.order]

Init ==
  /\ db = [o \in Orders |-> NoOrder]
  /\ checkout = [o \in Orders |-> "new"]
  /\ charge = [o \in Orders |-> "none"]
  /\ contested = [o \in Orders |-> FALSE]
  /\ issued = [o \in Orders |-> {}]
  /\ returned = [o \in Orders |-> 0]
  /\ acked = {}
  /\ hook = [h \in Hooks |-> Idle]
  /\ update = [k \in Tasks |-> Idle]
  /\ refund = [k \in Tasks |-> Idle]
  /\ emails = [o \in Orders |-> 0]
  /\ audit = {}
  /\ updates = 0
  /\ failures = 0

\* What save() leaves in a path: the new value, unless it is the one that was read.
Saved(new, read, stored) == IF new = read THEN stored ELSE new

external == <<charge, contested, issued, returned>>
adminVars == <<update, refund, updates>>

----------------------------------------------------------------------------
(* Checkout.                                                               *)

Goto(o, pc) == checkout' = [checkout EXCEPT ![o] = pc]

\* Slip: the order is created before its totals are computed.
PlaceOrderUntotalled(o) ==
  /\ checkout[o] = "new"
  /\ \E p \in Gateways : db' = [db EXCEPT ![o] = NewOrder("pending", p, 0)]
  /\ Goto(o, "created")
  /\ UNCHANGED <<external, acked, hook, adminVars, emails, audit, failures>>

\* placeOrder up to Order.create: the total is fixed here, for good.
PlaceOrder(o) ==
  /\ checkout[o] = "new"
  /\ \E p \in Gateways, t \in Totals : db' = [db EXCEPT ![o] = NewOrder("pending", p, t)]
  /\ Goto(o, "created")
  /\ UNCHANGED <<external, acked, hook, adminVars, emails, audit, failures>>

\* placeOrderWhatsApp: no gateway, an administrator takes it from here.
PlaceOrderWhatsApp(o) ==
  /\ checkout[o] = "new"
  /\ \E t \in Totals : db' = [db EXCEPT ![o] = NewOrder("pending_whatsapp", "manual", t)]
  /\ Goto(o, "finished")
  /\ UNCHANGED <<external, acked, hook, adminVars, emails, audit, failures>>

\* Slip: the customer is sent to the payment page before its reference is saved.
InitiateAndRedirect(o) ==
  /\ checkout[o] = "created"
  /\ charge' = [charge EXCEPT ![o] = "offered"]
  /\ Goto(o, "initiated")
  /\ UNCHANGED <<db, contested, issued, returned, acked, hook, adminVars, emails, audit, failures>>

\* initiatePayment: the provider opens a payment page ...
InitiatePayment(o) ==
  /\ checkout[o] = "created"
  /\ charge' = [charge EXCEPT ![o] = "open"]
  /\ Goto(o, "initiated")
  /\ UNCHANGED <<db, contested, issued, returned, acked, hook, adminVars, emails, audit, failures>>

\* ... or refuses, and the customer is told 502.
InitiateFails(o) ==
  /\ checkout[o] = "created"
  /\ Goto(o, "finished")
  /\ UNCHANGED <<db, external, acked, hook, adminVars, emails, audit, failures>>

\* order.save() of the provider's reference; the status path is clean.
SaveReference(o) ==
  /\ checkout[o] = "initiated"
  /\ db' = [db EXCEPT ![o].ref = CheckoutRef[db[o].provider]]
  /\ Goto(o, "saved")
  /\ UNCHANGED <<external, acked, hook, adminVars, emails, audit, failures>>

\* Slip: the redirect itself counts as the payment.
RespondPaid(o) ==
  /\ checkout[o] = "saved"
  /\ charge' = [charge EXCEPT ![o] = "offered"]
  /\ db' = [db EXCEPT ![o].status = "paid"]
  /\ Goto(o, "finished")
  /\ UNCHANGED <<contested, issued, returned, acked, hook, adminVars, emails, audit, failures>>

\* 201: only now does the customer learn the address of the payment page.
Respond(o) ==
  /\ checkout[o] = "saved"
  /\ charge' = [charge EXCEPT ![o] = "offered"]
  /\ Goto(o, "finished")
  /\ UNCHANGED <<db, contested, issued, returned, acked, hook, adminVars, emails, audit, failures>>

CheckoutDies(o) ==
  /\ failures < MaxFailures
  /\ checkout[o] \in {"created", "initiated", "saved"}
  /\ failures' = failures + 1
  /\ Goto(o, "finished")
  /\ UNCHANGED <<db, external, acked, hook, adminVars, emails, audit>>

----------------------------------------------------------------------------
(* The customer, at the provider.                                          *)

CustomerPays(o) ==
  /\ charge[o] = "offered"
  /\ charge' = [charge EXCEPT ![o] = "captured"]
  /\ UNCHANGED <<db, checkout, contested, issued, returned, acked, hook,
                 adminVars, emails, audit, failures>>

CustomerDisputes(o) ==
  /\ charge[o] = "captured" /\ ~contested[o]
  /\ contested' = [contested EXCEPT ![o] = TRUE]
  /\ UNCHANGED <<db, checkout, charge, issued, returned, acked, hook,
                 adminVars, emails, audit, failures>>

----------------------------------------------------------------------------
(* Webhooks: processPaymentEvent.                                          *)

\* Slip: a dispute is only looked for among the paid orders.
FindsPaid(e) == IF e.type = "payment.succeeded"
                THEN db[e.order].status = "pending"
                ELSE /\ db[e.order].ref = DisputeRef[db[e.order].provider]
                     /\ db[e.order].status = "paid"

\* Slip: a success is processed whatever the status of the order.
FindsAny(e) == IF e.type = "payment.succeeded"
               THEN db[e.order].status # "none"
               ELSE db[e.order].ref = DisputeRef[db[e.order].provider]

Finds(e) == IF e.type = "payment.succeeded"
            THEN db[e.order].status = "pending"
            ELSE db[e.order].ref = DisputeRef[db[e.order].provider]

\* Slip: 200 is answered first, to be quick, and the event processed afterwards.
HookFindAnswered(h, e) ==
  /\ hook[h] = Idle /\ Sent(e) /\ Finds(e)
  /\ hook' = [hook EXCEPT ![h] = [pc |-> "found", type |-> e.type, order |-> e.order,
                                  status |-> db[e.order].status, ref |-> db[e.order].ref]]
  /\ acked' = acked \cup {e}
  /\ UNCHANGED <<db, checkout, external, adminVars, emails, audit, failures>>

\* The order is found and will be changed: keep what was read of it.
HookFind(h, e) ==
  /\ hook[h] = Idle /\ Sent(e) /\ Finds(e)
  /\ hook' = [hook EXCEPT ![h] = [pc |-> "found", type |-> e.type, order |-> e.order,
                                  status |-> db[e.order].status, ref |-> db[e.order].ref]]
  /\ UNCHANGED <<db, checkout, external, acked, adminVars, emails, audit, failures>>

\* No such reference, or not pending any more: 200 without a change.
HookIgnore(h, e) ==
  /\ hook[h] = Idle /\ Sent(e) /\ ~Finds(e)
  /\ acked' = acked \cup {e}
  /\ UNCHANGED <<db, checkout, external, hook, adminVars, emails, audit, failures>>

\* Slip: 200 is answered as soon as the order is saved; the rest of the handler is lost.
HookSaveAnswered(h) ==
  LET j == hook[h]
      o == j.order
      paid == j.type = "payment.succeeded"
      status == IF paid THEN "paid" ELSE "disputed"
  IN
  /\ j.pc = "found"
  /\ db' = [db EXCEPT ![o].status = Saved(status, j.status, @),
                      ![o].writer = IF status = j.status THEN @ ELSE "webhook",
                      ![o].ref = IF paid THEN SuccessRef[db[o].provider] ELSE @,
                      ![o].disputed = @ \/ ~paid]
  /\ hook' = [hook EXCEPT ![h] = Idle]
  /\ acked' = acked \cup {[type |-> j.type, order |-> o]}
  /\ UNCHANGED <<checkout, external, adminVars, emails, audit, failures>>

\* order.save().  A success was read as "pending", so its status path is dirty.
HookSave(h) ==
  LET j == hook[h]
      o == j.order
      paid == j.type = "payment.succeeded"
      status == IF paid THEN "paid" ELSE "disputed"
      ref == IF paid THEN SuccessRef[db[o].provider] ELSE j.ref
  IN
  /\ j.pc = "found"
  /\ db' = [db EXCEPT ![o].status = Saved(status, j.status, @),
                      ![o].writer = IF status = j.status THEN @ ELSE "webhook",
                      ![o].ref = Saved(ref, j.ref, @),
                      ![o].disputed = @ \/ ~paid]
  /\ hook' = [hook EXCEPT ![h].pc = "saved"]
  /\ UNCHANGED <<checkout, external, acked, adminVars, emails, audit, failures>>

Answer(h) == /\ hook' = [hook EXCEPT ![h] = Idle]
             /\ acked' = acked \cup {[type |-> hook[h].type, order |-> hook[h].order]}

\* Queue the confirmation and answer 200 ...
HookEnqueue(h) ==
  /\ hook[h].pc = "saved" /\ hook[h].type = "payment.succeeded"
  /\ emails' = [emails EXCEPT ![hook[h].order] = @ + 1]
  /\ Answer(h)
  /\ UNCHANGED <<db, checkout, external, adminVars, audit, failures>>

\* ... or log the dispute and answer 200.
HookAudit(h) ==
  /\ hook[h].pc = "saved" /\ hook[h].type = "dispute.created"
  /\ audit' = audit \cup {[action |-> "order.dispute_flagged", order |-> hook[h].order]}
  /\ Answer(h)
  /\ UNCHANGED <<db, checkout, external, adminVars, emails, failures>>

\* The queue or the audit log is down: caught, and answered 200 all the same.
HookSwallows(h) ==
  /\ failures < MaxFailures /\ hook[h].pc = "saved"
  /\ failures' = failures + 1
  /\ Answer(h)
  /\ UNCHANGED <<db, checkout, external, adminVars, emails, audit>>

\* No answer at all: the provider will deliver again.
HookDies(h) ==
  /\ failures < MaxFailures /\ hook[h] # Idle
  /\ failures' = failures + 1
  /\ hook' = [hook EXCEPT ![h] = Idle]
  /\ UNCHANGED <<db, checkout, external, acked, adminVars, emails, audit>>

----------------------------------------------------------------------------
(* Administrators: updateStatus.                                           *)

UpdateFind(k, a, o, s) ==
  /\ update[k] = Idle /\ updates < MaxUpdates
  /\ db[o].status # "none"
  /\ updates' = updates + 1
  /\ update' = [update EXCEPT ![k] = [pc |-> "found", actor |-> a, order |-> o, to |-> s,
                                      from |-> db[o].status]]
  /\ UNCHANGED <<db, checkout, external, acked, hook, refund, emails, audit, failures>>

UpdateSave(k) ==
  LET j == update[k] IN
  /\ j.pc = "found"
  /\ db' = [db EXCEPT ![j.order].status = Saved(j.to, j.from, @),
                      ![j.order].writer = IF j.to = j.from THEN @ ELSE "admin"]
  /\ update' = [update EXCEPT ![k].pc = "saved"]
  /\ UNCHANGED <<checkout, external, acked, hook, refund, updates, emails, audit, failures>>

UpdateAudit(k) ==
  LET j == update[k] IN
  /\ j.pc = "saved"
  /\ audit' = audit \cup {[action |-> "order.status_changed", order |-> j.order,
                           actor |-> j.actor, from |-> j.from, to |-> j.to]}
  /\ update' = [update EXCEPT ![k] = Idle]
  /\ UNCHANGED <<db, checkout, external, acked, hook, refund, updates, emails, failures>>

UpdateDies(k) ==
  /\ failures < MaxFailures /\ update[k] # Idle
  /\ failures' = failures + 1
  /\ update' = [update EXCEPT ![k] = Idle]
  /\ UNCHANGED <<db, checkout, external, acked, hook, refund, updates, emails, audit>>

----------------------------------------------------------------------------
(* Administrators: issueRefund.                                            *)

\* Slip: the threshold is compared with the amount as it was sent.
RefundAmountAsSent(o, m) == m

\* amount || order.total
RefundAmount(o, m) == IF m = 0 THEN db[o].total ELSE m

\* Every check is made on one read of the order.
RefundCheck(k, a, o, m, b) ==
  /\ refund[k] = Idle
  /\ db[o].status \in Refundable
  /\ db[o].provider # "manual"
  /\ RefundAmount(o, m) >= Threshold => b \notin {NoAdmin, a}
  /\ refund' = [refund EXCEPT ![k] = [pc |-> "checked", actor |-> a, order |-> o, amount |-> m,
                                      approver |-> b, ref |-> db[o].ref,
                                      issuedBy |-> db[o].issuedBy, id |-> 0]]
  /\ UNCHANGED <<db, checkout, external, acked, hook, update, updates, emails, audit, failures>>

\* The provider pays back at most what is left of the charge, and all of it when
\* no amount is named.  The refund is known by the sum it brings `returned` to.
Payable(j) == LET left == db[j.order].total - returned[j.order]
              IN IF j.amount = 0 THEN left ELSE j.amount
RefundCall(k) ==
  LET j == refund[k]
      o == j.order
      sum == returned[o] + Payable(j)
  IN
  /\ j.pc = "checked"
  /\ charge[o] = "captured" /\ j.ref = RefundHandle[db[o].provider]
  /\ Payable(j) > 0 /\ sum <= db[o].total
  /\ returned' = [returned EXCEPT ![o] = sum]
  /\ issued' = [issued EXCEPT ![o] = @ \cup {sum}]
  /\ refund' = [refund EXCEPT ![k].pc = "called", ![k].id = sum]
  /\ UNCHANGED <<db, checkout, charge, contested, acked, hook, update, updates,
                 emails, audit, failures>>

\* Slip: result.success is not looked at.
RefundDeclinedUnnoticed(k) ==
  /\ refund[k].pc = "checked"
  /\ refund' = [refund EXCEPT ![k].pc = "called"]
  /\ UNCHANGED <<db, checkout, external, acked, hook, update, updates, emails, audit, failures>>

\* The provider may decline anything: 400, nothing has changed.
RefundDeclined(k) ==
  /\ refund[k].pc = "checked"
  /\ refund' = [refund EXCEPT ![k] = Idle]
  /\ UNCHANGED <<db, checkout, external, acked, hook, update, updates, emails, audit, failures>>

\* Slip: the audit entry is forgotten.
RefundSaveOnly(k) ==
  LET j == refund[k] IN
  /\ j.pc = "called"
  /\ db' = [db EXCEPT ![j.order].status = "refunded", ![j.order].writer = "refund",
                      ![j.order].refundRef = j.id,
                      ![j.order].issuedBy = Saved(j.actor, j.issuedBy, @)]
  /\ refund' = [refund EXCEPT ![k] = Idle]
  /\ UNCHANGED <<checkout, external, acked, hook, update, updates, emails, audit, failures>>

\* A refundable status was read and the reference is a new one: both are dirty.
RefundSave(k) ==
  LET j == refund[k] IN
  /\ j.pc = "called"
  /\ db' = [db EXCEPT ![j.order].status = "refunded", ![j.order].writer = "refund",
                      ![j.order].refundRef = j.id,
                      ![j.order].issuedBy = Saved(j.actor, j.issuedBy, @)]
  /\ refund' = [refund EXCEPT ![k].pc = "saved"]
  /\ UNCHANGED <<checkout, external, acked, hook, update, updates, emails, audit, failures>>

RefundAudit(k) ==
  LET j == refund[k] IN
  /\ j.pc = "saved"
  /\ audit' = audit \cup {[action |-> "order.refund_issued", order |-> j.order, actor |-> j.actor,
                           approvedBy |-> j.approver, refundReference |-> j.id,
                           amount |-> RefundAmount(j.order, j.amount)]}
  /\ refund' = [refund EXCEPT ![k] = Idle]
  /\ UNCHANGED <<db, checkout, external, acked, hook, update, updates, emails, failures>>

\* The process dies, the answer of the provider is lost, or a write fails.
RefundDies(k) ==
  /\ failures < MaxFailures /\ refund[k].pc \in {"called", "saved"}
  /\ failures' = failures + 1
  /\ refund' = [refund EXCEPT ![k] = Idle]
  /\ UNCHANGED <<db, checkout, external, acked, hook, update, updates, emails, audit>>

----------------------------------------------------------------------------
Checkout(o) == \/ PlaceOrder(o) \/ PlaceOrderWhatsApp(o) \/ InitiatePayment(o)
               \/ InitiateFails(o) \/ SaveReference(o) \/ Respond(o) \/ CheckoutDies(o)
Customer(o) == CustomerPays(o) \/ CustomerDisputes(o)
Receive(h, e) == HookFind(h, e) \/ HookIgnore(h, e)
Serve(h) == HookSave(h) \/ HookEnqueue(h) \/ HookAudit(h)
Update(k) == \/ \E a \in Admins, o \in Orders, s \in Targets : UpdateFind(k, a, o, s)
             \/ UpdateSave(k) \/ UpdateAudit(k) \/ UpdateDies(k)
Refund(k) == \/ \E a \in Admins, o \in Orders, m \in Amounts, b \in Approvers \cup {NoAdmin} :
                    RefundCheck(k, a, o, m, b)
             \/ RefundCall(k) \/ RefundDeclined(k) \/ RefundSave(k)
             \/ RefundAudit(k) \/ RefundDies(k)

Next == \/ \E o \in Orders : Checkout(o) \/ Customer(o)
        \/ \E h \in Hooks : \/ \E e \in Event : Receive(h, e)
                           \/ Serve(h) \/ HookSwallows(h) \/ HookDies(h)
        \/ \E k \in Tasks : Update(k) \/ Refund(k)

Spec == Init /\ [][Next]_vars

\* A provider goes on delivering an event until it is answered 200, and a request
\* that is being served is not suspended for ever.  Nobody must pay, dispute,
\* change a status or ask for a refund.
Fairness == /\ \A e \in Event : SF_vars(e \notin acked /\ \E h \in Hooks : Receive(h, e))
            /\ \A h \in Hooks : WF_vars(Serve(h))

FairSpec == Spec /\ Fairness

----------------------------------------------------------------------------
(* Types.                                                                  *)

Providers == Gateways \cup {"manual"}

OrderDoc == [status : Statuses, writer : {"checkout", "webhook", "admin", "refund"},
             provider : Providers, total : Totals, ref : Refs, disputed : BOOLEAN,
             refundRef : Nat, issuedBy : Admins \cup {NoAdmin}]
HookJob == [pc : {"found", "saved"}, type : {"payment.succeeded", "dispute.created"},
            order : Orders, status : Statuses, ref : Refs]
UpdateJob == [pc : {"found", "saved"}, actor : Admins, order : Orders,
              to : Statuses, from : Statuses]
RefundJob == [pc : {"checked", "called", "saved"}, actor : Admins, order : Orders,
              amount : Amounts, approver : Approvers \cup {NoAdmin}, ref : Refs,
              issuedBy : Admins \cup {NoAdmin}, id : Nat]
Entry == [action : {"order.dispute_flagged"}, order : Orders]
         \cup [action : {"order.status_changed"}, order : Orders, actor : Admins,
               from : Statuses, to : Statuses]
         \cup [action : {"order.refund_issued"}, order : Orders, actor : Admins,
               approvedBy : Approvers \cup {NoAdmin}, refundReference : Nat, amount : Nat]

\* Every variable keeps its type, an order that exists is a whole document, and
\* the provider never pays back more than the order's total.
TypeOK ==
  /\ db \in [Orders -> OrderDoc \cup {NoOrder}]
  /\ checkout \in [Orders -> {"new", "created", "initiated", "saved", "finished"}]
  /\ charge \in [Orders -> {"none", "open", "offered", "captured"}]
  /\ contested \in [Orders -> BOOLEAN]
  /\ issued \in [Orders -> SUBSET Nat]
  /\ returned \in [Orders -> Nat]
  /\ \A o \in Orders : returned[o] <= db[o].total
  /\ acked \subseteq Event
  /\ hook \in [Hooks -> HookJob \cup {Idle}]
  /\ update \in [Tasks -> UpdateJob \cup {Idle}]
  /\ refund \in [Tasks -> RefundJob \cup {Idle}]
  /\ emails \in [Orders -> Nat]
  /\ audit \subseteq Entry
  /\ updates \in Nat /\ failures \in Nat

----------------------------------------------------------------------------
(* Safety.                                                                 *)

\* A status that the program wrote is backed by a fact at the provider: "paid" by a
\* capture, "disputed" by a dispute, "refunded" by money that went back.  Only an
\* administrator's hand can make a status say something else.
StatusTruthful ==
  \A o \in Orders : db[o].writer # "admin" =>
    /\ db[o].status = "paid" => charge[o] = "captured"
    /\ db[o].status = "disputed" => contested[o]
    /\ db[o].status = "refunded" => returned[o] > 0

\* A success that was answered 200 is never delivered again, so by then the order
\* must have left the status checkout gave it.
AckedIsSettled ==
  \A e \in acked : e.type = "payment.succeeded" => db[e.order].writer # "checkout"

\* The same for disputes, for the providers that call the charge by the name checkout
\* stored: an answered dispute has left its reference on the order, even when
\* it overtook the webhook of the payment.
DisputeRecorded ==
  \A e \in acked :
    LET p == db[e.order].provider IN
    e.type = "dispute.created" /\ CheckoutRef[p] = DisputeRef[p] => db[e.order].disputed

\* Unless a request has died or the queue was down, a payment that a webhook settled is
\* confirmed to the customer, or the request that will do so is past its save.
SettledIsConfirmed ==
  failures = 0 =>
    \A o \in Orders : db[o].status = "paid" /\ db[o].writer = "webhook" =>
      \/ emails[o] > 0
      \/ \E h \in Hooks : /\ hook[h].pc = "saved" /\ hook[h].order = o
                         /\ hook[h].type = "payment.succeeded"

\* Deliveries of one success that overlap may each confirm it, but no later one does:
\* there are at most as many confirmations as requests served at once, as long as
\* no administrator makes the order pending again.
ConfirmationsBounded ==
  "pending" \notin Targets => \A o \in Orders : emails[o] <= Cardinality(Hooks)

\* Once an order carries the reference its provider's refund API wants, no later
\* save of checkout's own, older reference puts that back.
RefundHandleKept ==
  [][\A o \in Orders : db[o].provider \in Gateways /\ db[o].ref = RefundHandle[db[o].provider]
                         => db'[o].ref = db[o].ref]_vars

\* At every provider but Stripe an order that a webhook has settled holds the reference
\* its refund API wants, in whatever order checkout, deliveries and administrators saved
\* it; at Stripe it never does: what the success webhook stores is the checkout session's
\* id, and the API wants the payment intent (processPaymentEvent, issueRefund).
SettledRefunds ==
  \A o \in Orders : db[o].status = "paid" /\ db[o].writer = "webhook" =>
    (db[o].ref = RefundHandle[db[o].provider] <=> db[o].provider # "stripe")

\* No single request moves the threshold amount or more unless it names somebody other
\* than the administrator who makes it, whatever amount it gave and however the order
\* changed between the check and the call of the provider.  This is all that
\* issueRefund asks: the name is a text of the request, and need not be an
\* administrator's nor anybody's.
HighValueNamesAnother ==
  [][\A o \in Orders : returned'[o] >= returned[o] + Threshold =>
       \E k \in Tasks : /\ refund[k].pc = "checked" /\ refund'[k].pc = "called"
                        /\ refund[k].order = o
                        /\ refund[k].approver \notin {NoAdmin, refund[k].actor}]_vars

\* Each refund the provider has made is in the audit log or on its way there,
\* except for one per request that died.
Trailed(o, id) ==
  \/ \E e \in audit : /\ e.action = "order.refund_issued" /\ e.order = o
                      /\ e.refundReference = id
  \/ \E k \in Tasks : /\ refund[k].pc \in {"called", "saved"}
                      /\ refund[k].order = o /\ refund[k].id = id
Missing == {r \in UNION {{o} \X issued[o] : o \in Orders} : ~Trailed(r[1], r[2])}
RefundTrail == Cardinality(Missing) <= failures

----------------------------------------------------------------------------
(* Implementation of OrderLifecycle.                                       *)

Lifecycle == INSTANCE OrderLifecycle WITH
               label <- [o \in Orders |-> db[o].status],
               writer <- [o \in Orders |-> db[o].writer],
               captured <- [o \in Orders |-> charge[o] = "captured"]

\* Every handler, at whatever await it is interleaved, changes the status and the
\* money only as OrderLifecycle allows.
ImplementsLifecycle == Lifecycle!Spec

----------------------------------------------------------------------------
(* Liveness.                                                               *)

\* A customer who has paid is not left with a pending order (when no administrator
\* puts it back to pending).
ChargedSettles == \A o \in Orders : charge[o] = "captured" ~> db[o].status # "pending"

\* A dispute at a provider whose references match reaches the order.
DisputeReaches ==
  \A o \in Orders : contested[o] /\ CheckoutRef[db[o].provider] = DisputeRef[db[o].provider]
                     ~> db[o].disputed
=============================================================================
