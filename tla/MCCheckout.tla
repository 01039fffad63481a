----------------------------- MODULE MCCheckout -----------------------------
(***************************************************************************)
(* Values of the constants of Checkout for model checking.                 *)
(***************************************************************************)
EXTENDS Checkout, TLC

CONSTANTS s1, r1, r2, p1

OneSession == {s1}
OneRequest == {r1}
TwoRequests == {r1, r2}
OneProduct == {p1}
OneUnit == {1}

\* The VAT of 20 is one naira and a half; a second unit in the cart is not in stock.
Listed == [price |-> 20, stock |-> 1, active |-> TRUE]
Gone == [price |-> 60, stock |-> 1, active |-> FALSE]
ListedOrNot == {Listed, Gone}
Flat == {3}

\* More off than the cart is worth, for one use; a rounded percentage, for one as well.
Generous == [discountType |-> "fixed", discountValue |-> 50, minOrderValue |-> 20, maxUses |-> 1]
Percent == [discountType |-> "percentage", discountValue |-> 33, minOrderValue |-> 0, maxUses |-> 1]
OneUse == {Generous, Percent}

Alike == Permutations(Requests)
=============================================================================
