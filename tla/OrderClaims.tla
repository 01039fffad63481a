---------------------------- MODULE OrderClaims ----------------------------
(***************************************************************************)
(* What comments and tests of the repository say about orders and the code *)
(* does not do.  Each is checked on its own, and TLC finds the behaviour   *)
(* that contradicts it.                                                    *)
(***************************************************************************)
EXTENDS Orders

\* services/paymentService.js:46: processPaymentEvent "is the ONLY path that ever moves an
\* order from "pending" to "paid"" (and controllers/checkoutController.js:98, README.md:53).
\* An administrator's PATCH does too, with nothing captured.
OnlyWebhookPays ==
  [][\A o \in Orders : db[o].status = "pending" /\ db'[o].status = "paid"
                        => db'[o].writer = "webhook"]_vars

\* services/paymentService.js:140: "Cannot refund an order in status ...".  Two requests
\* that both read "paid" both call the provider, the second after the first has
\* marked the order refunded.
RefundedOrderNotRefunded ==
  [][\A o \in Orders : returned'[o] # returned[o] => db[o].status # "refunded"]_vars
=============================================================================
