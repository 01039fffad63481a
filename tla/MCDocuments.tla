----------------------------- MODULE MCDocuments -----------------------------
(***************************************************************************)
(* Values of the constants of Documents for model checking.                *)
(***************************************************************************)
EXTENDS Documents, TLC

CONSTANTS u1, u2, u3, i1, i2, n1, n2, p1, p2, r1, r2

Users == {u1, u2, u3}
Things == {i1, i2}
TwoNames == {n1, n2}
TwoProviders == {p1, p2}
TwoRequests == {r1, r2}

\* Two who may promote, and one to be promoted.
Staff == {(u1 :> "super_admin") @@ (u2 :> "super_admin") @@ (u3 :> "customer")}

Promotions == {"store_manager", "super_admin"}

Together == {{"login", "profile", "active"}, {"role", "active"},
             {"address", "forget", "wishlist"}, {"reply", "settings"}}

Alike == Permutations({u1, u2}) \cup Permutations(Things) \cup Permutations(TwoProviders) \cup Permutations(TwoRequests)
=============================================================================
