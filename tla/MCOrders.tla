------------------------------ MODULE MCOrders ------------------------------
(***************************************************************************)
(* Values of the constants of Orders for model checking.                   *)
(***************************************************************************)
EXTENDS OrderClaims, TLC

CONSTANTS o1, h1, h2, k1, k2, a1, x1

OneOrder == {o1}
OneHook == {h1}
TwoHooks == {h1, h2}
OneTask == {k1}
TwoTasks == {k1, k2}
OneAdmin == {a1}

\* What a refund may name as its approver: an administrator, or a name of nobody.
AnyName == {a1, x1}

NoAmounts == {}

AllGateways == {"stripe", "paystack", "flutterwave"}
OnlyPaystack == {"paystack"}

\* A total on either side of the threshold; a part, and the field left out.
Small == {1}
Large == {2}
Larger == {3}
PartOrAll == {0, 1}
Part == {1}
WholeOnly == {0}

\* What administrators ask for: a cancellation, a hand-made "paid", a reopening.
OnlyPaid == {"paid"}
CancelOrPay == {"cancelled", "paid"}

\* Webhook requests, administrators and their requests are alike.
Alike == Permutations(Hooks) \cup Permutations(Tasks) \cup Permutations(Admins)
=============================================================================
