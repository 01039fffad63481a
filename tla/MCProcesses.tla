----------------------------- MODULE MCProcesses -----------------------------
(***************************************************************************)
(* Values of the constants of Processes for model checking.                *)
(***************************************************************************)
EXTENDS Processes

CONSTANTS r1, r2, m1, m2

TwoRequests == {r1, r2}
TwoMails == {m1, m2}
=============================================================================
