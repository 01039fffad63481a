--------------------------- MODULE OrderLifecycle ---------------------------
(***************************************************************************)
(* What the shop promises about an order: its status, which actor wrote    *)
(* that status last, and the money behind it at the payment provider.  A   *)
(* status written by the program itself is always backed by a fact at the  *)
(* provider; only an administrator may write any status at any time.       *)
(*                                                                         *)
(* No request, webhook delivery or database round trip appears here: module *)
(* Orders has them all and implements this one.                            *)
(***************************************************************************)
EXTENDS Naturals

CONSTANTS Orders,   \* the orders
          Statuses  \* ORDER_STATUSES of models/Order.js

VARIABLES label,    \* label[o]: the stored status, "none" before the order exists
          writer,   \* writer[o]: who wrote label[o] last
          captured, \* captured[o]: the provider took the customer's money
          contested,\* contested[o]: the customer opened a dispute
          returned  \* returned[o]: how much the provider has paid back

vars == <<label, writer, captured, contested, returned>>

Write(o, s, w) == /\ label' = [label EXCEPT ![o] = s]
                  /\ writer' = [writer EXCEPT ![o] = w]

money == <<captured, contested, returned>>

Init == /\ label = [o \in Orders |-> "none"]
        /\ writer = [o \in Orders |-> "none"]
        /\ captured = [o \in Orders |-> FALSE]
        /\ contested = [o \in Orders |-> FALSE]
        /\ returned = [o \in Orders |-> 0]

\* Checkout puts an order on the books, never as paid.
Place(o) == /\ label[o] = "none"
            /\ \E s \in {"pending", "pending_whatsapp"} : Write(o, s, "checkout")
            /\ UNCHANGED money

\* The customer pays, once.
Capture(o) == /\ label[o] # "none" /\ ~captured[o]
              /\ captured' = [captured EXCEPT ![o] = TRUE]
              /\ UNCHANGED <<label, writer, contested, returned>>

Contest(o) == /\ captured[o] /\ ~contested[o]
              /\ contested' = [contested EXCEPT ![o] = TRUE]
              /\ UNCHANGED <<label, writer, captured, returned>>

\* Only captured money can be paid back.
Return(o) == /\ captured[o]
             /\ returned'[o] \in Nat /\ returned'[o] > returned[o]
             /\ returned' = [returned EXCEPT ![o] = returned'[o]]
             /\ UNCHANGED <<label, writer, captured, contested>>

\* The three statuses the program itself writes, each backed by the provider.
Settle(o) == captured[o] /\ Write(o, "paid", "webhook") /\ UNCHANGED money
Flag(o) == contested[o] /\ Write(o, "disputed", "webhook") /\ UNCHANGED money
MarkRefunded(o) == returned[o] > 0 /\ Write(o, "refunded", "refund") /\ UNCHANGED money

\* An administrator may write any status over any other, paid without a capture
\* included: so does updateStatus, whatever processPaymentEvent's comment says of the
\* webhook (OnlyWebhookPays in OrderClaims).
Override(o) == /\ label[o] # "none"
               /\ \E s \in Statuses : Write(o, s, "admin")
               /\ UNCHANGED money

Next == \E o \in Orders :
          \/ Place(o) \/ Capture(o) \/ Contest(o) \/ Return(o)
          \/ Settle(o) \/ Flag(o) \/ MarkRefunded(o) \/ Override(o)

Spec == Init /\ [][Next]_vars
=============================================================================
