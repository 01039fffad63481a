---------------------------- MODULE MCReadCache -----------------------------
(***************************************************************************)
(* Values of the constants of ReadCache for model checking.                *)
(***************************************************************************)
EXTENDS ReadCache

CONSTANTS home, product, r1, r2, w1, w2

OnePage == {home}
OneReader == {r1}
TwoReaders == {r1, r2}
OneWriter == {w1}
TwoWriters == {w1, w2}
=============================================================================
