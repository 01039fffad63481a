----------------------------- MODULE FreshReads -----------------------------
(***************************************************************************)
(* What the catalogue cache promises its readers: once a write has been    *)
(* promised, a request that begins later is never served anything older.   *)
(* In between, old and new may both be served.  A request that could not   *)
(* learn the version of the cache is promised nothing.                     *)
(*                                                                         *)
(* There is no cache here: module ReadCache has one and implements this.   *)
(***************************************************************************)
EXTENDS Naturals

CONSTANTS Pages,   \* cached pages
          Readers  \* requests for them

VARIABLES saved,    \* saved[p]: revision of what the database holds for page p
          promised, \* promised[p]: the revision later readers are promised
          view      \* view[r]: what request r asked for, and what it got

vars == <<saved, promised, view>>

Nothing == [page |-> "none"]
Waiting(p, floor) == [page |-> p, floor |-> floor, served |-> FALSE]
Served(p, floor, rev) == [page |-> p, floor |-> floor, served |-> TRUE, rev |-> rev]
IsWaiting(r) == view[r] # Nothing /\ ~view[r].served

Init == /\ saved = [p \in Pages |-> 0]
        /\ promised = [p \in Pages |-> 0]
        /\ view = [r \in Readers |-> Nothing]

\* A write changes what some pages show.
Save == \E S \in SUBSET Pages :
          /\ saved' = [p \in Pages |-> IF p \in S THEN saved[p] + 1 ELSE saved[p]]
          /\ UNCHANGED <<promised, view>>

Promise == promised' = saved /\ UNCHANGED <<saved, view>>

Begin(r, p) == /\ view' = [view EXCEPT ![r] = Waiting(p, promised[p])]
               /\ UNCHANGED <<saved, promised>>

\* What is served is in the database or was, and is no older than was promised.
Serve(r) == /\ IsWaiting(r)
            /\ \E rev \in view[r].floor .. saved[view[r].page] :
                  view' = [view EXCEPT ![r] = Served(@.page, @.floor, rev)]
            /\ UNCHANGED <<saved, promised>>

ServeUnversioned(r) == /\ IsWaiting(r)
                       /\ \E rev \in 0 .. saved[view[r].page] :
                             view' = [view EXCEPT ![r] = Served(@.page, 0, rev)]
                       /\ UNCHANGED <<saved, promised>>

Leave(r) == view' = [view EXCEPT ![r] = Nothing] /\ UNCHANGED <<saved, promised>>

Next == \/ Save \/ Promise
        \/ \E r \in Readers : \/ \E p \in Pages : Begin(r, p)
                              \/ Serve(r) \/ ServeUnversioned(r) \/ Leave(r)

Spec == Init /\ [][Next]_vars
=============================================================================
