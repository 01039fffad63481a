----------------------------- MODULE MCSessions -----------------------------
(***************************************************************************)
(* Values of the constants of Sessions for model checking.                 *)
(***************************************************************************)
EXTENDS SessionClaims, TLC

CONSTANTS u1, u2, s1, s2, s3, r1, r2

TwoUsers == {u1, u2}
Ids == {s1, s2, s3}
TwoRequests == {r1, r2}

Enrolled == [NewAccount("local", "super_admin") EXCEPT !.twoFactor = TRUE]
Some == {NoAccount, Enrolled}
Promotions == {"customer", "super_admin"}

Alike == Permutations(User) \cup Permutations(Sid) \cup Permutations(Request)
=============================================================================
