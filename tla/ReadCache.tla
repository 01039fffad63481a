----------------------------- MODULE ReadCache ------------------------------
(***************************************************************************)
(* The read-through cache of the catalogue.  One counter in Redis, the     *)
(* version, is part of every key; a write to the catalogue increments it   *)
(* after its save and so orphans all entries.  Each await of a request is  *)
(* a step boundary, and any call of Redis may fail: a reader falls back to *)
(* the database, a writer's increment is skipped.                          *)
(*                                                                         *)
(* Of what a page shows only the revision matters, the number of writes    *)
(* that have touched it.                                                   *)
(***************************************************************************)
EXTENDS Naturals, FiniteSets

CONSTANTS
  Pages,       \* cached pages: home sections, category listings, product pages
  Readers,     \* requests for them being served at once
  Writers,     \* administrators' requests that change the catalogue
  MaxWrites,   \* bound: writes
  MaxFailures  \* bound: Redis calls that fail and requests that die

ASSUME CacheAssumption == MaxWrites \in Nat /\ MaxFailures \in Nat

VARIABLES
  db,        \* db[p]: revision of what the database holds for page p
  version,   \* cache:version, 0 while it is not set
  entries,   \* the entries of the cache
  promise,   \* promise[v][p]: the revision of page p when v became the version
  reader,    \* reader[r]: a getOrSet
  writer,    \* writer[w]: "idle", or "saved" when the increment is still due
  writes,    \* writes so far
  failures   \* failures so far

vars == <<db, version, entries, promise, reader, writer, writes, failures>>

Idle == [pc |-> "idle"]
Entry == [version : Nat, page : Pages, rev : Nat]
At(v, p) == {e \in entries : e.version = v /\ e.page = p}

Init ==
  /\ db = [p \in Pages |-> 0]
  /\ version = 0
  /\ entries = {}
  /\ promise = [v \in {0} |-> [p \in Pages |-> 0]]
  /\ reader = [r \in Readers |-> Idle]
  /\ writer = [w \in Writers |-> "idle"]
  /\ writes = 0
  /\ failures = 0

cache == <<db, version, entries, promise, writer, writes>>
Fails == failures < MaxFailures /\ failures' = failures + 1

----------------------------------------------------------------------------
(* getOrSet.  known says whether the version could be read.                *)

Free(r) == reader[r].pc \in {"idle", "served"}
Asked(r, p, pc) == reader' = [reader EXCEPT ![r] =
  [pc |-> pc, page |-> p, floor |-> promise[version][p], version |-> 0, known |-> TRUE, rev |-> 0]]
Goes(r, pc) == reader' = [reader EXCEPT ![r].pc = pc]
Gets(r, rev) == reader' = [reader EXCEPT ![r].pc = "served", ![r].rev = rev, ![r].version = 0]

Start(r, p) == Free(r) /\ Asked(r, p, "started") /\ UNCHANGED <<cache, failures>>

\* Redis is not configured, or the listing is a search: straight to the database.
StartUncached(r, p) == Free(r) /\ Asked(r, p, "fallback") /\ UNCHANGED <<cache, failures>>

\* No connection: the database again.
ConnectFails(r) == reader[r].pc = "started" /\ Goes(r, "fallback") /\ Fails /\ UNCHANGED cache

\* Slip: an unset version counts as 1, which is what the first increment makes of it.
ReadVersionFromOne(r) ==
  /\ reader[r].pc = "started"
  /\ reader' = [reader EXCEPT ![r].pc = "keyed",
                              ![r].version = IF version = 0 THEN 1 ELSE version]
  /\ UNCHANGED <<cache, failures>>

\* getCacheVersion: the key is built from the version of this moment ...
ReadVersion(r) ==
  /\ reader[r].pc = "started"
  /\ reader' = [reader EXCEPT ![r].pc = "keyed", ![r].version = version]
  /\ UNCHANGED <<cache, failures>>

\* ... or from 0 if it cannot be read.
ReadVersionFails(r) ==
  /\ reader[r].pc = "started"
  /\ reader' = [reader EXCEPT ![r].pc = "keyed", ![r].known = FALSE]
  /\ Fails /\ UNCHANGED cache

Hit(r) ==
  /\ reader[r].pc = "keyed"
  /\ \E e \in At(reader[r].version, reader[r].page) : Gets(r, e.rev)
  /\ UNCHANGED <<cache, failures>>

Miss(r) ==
  /\ reader[r].pc = "keyed"
  /\ At(reader[r].version, reader[r].page) = {}
  /\ Goes(r, "missed")
  /\ UNCHANGED <<cache, failures>>

\* Slip: the error of the lookup is not caught.
LookupThrows(r) == reader[r].pc = "keyed" /\ Goes(r, "failed") /\ Fails /\ UNCHANGED cache

LookupFails(r) == reader[r].pc = "keyed" /\ Goes(r, "fallback") /\ Fails /\ UNCHANGED cache

Fetch(r) ==
  /\ reader[r].pc = "missed"
  /\ reader' = [reader EXCEPT ![r].pc = "fetched", ![r].rev = db[reader[r].page]]
  /\ UNCHANGED <<cache, failures>>

\* Slip: the key is built again when the answer is stored.
StoreCurrent(r) ==
  LET j == reader[r] IN
  /\ j.pc = "fetched"
  /\ entries' = (entries \ At(version, j.page))
                \cup {[version |-> version, page |-> j.page, rev |-> j.rev]}
  /\ Gets(r, j.rev)
  /\ UNCHANGED <<db, version, promise, writer, writes, failures>>

\* Slip: an entry that another fill has stored meanwhile is not replaced but joined.
StoreBeside(r) ==
  LET j == reader[r] IN
  /\ j.pc = "fetched"
  /\ entries' = entries \cup {[version |-> j.version, page |-> j.page, rev |-> j.rev]}
  /\ Gets(r, j.rev)
  /\ UNCHANGED <<db, version, promise, writer, writes, failures>>

\* The answer is stored under the key of the lookup, whatever has happened since.
Store(r) ==
  LET j == reader[r] IN
  /\ j.pc = "fetched"
  /\ entries' = (entries \ At(j.version, j.page))
                \cup {[version |-> j.version, page |-> j.page, rev |-> j.rev]}
  /\ Gets(r, j.rev)
  /\ UNCHANGED <<db, version, promise, writer, writes, failures>>

StoreFails(r) == reader[r].pc = "fetched" /\ Goes(r, "fallback") /\ Fails /\ UNCHANGED cache

\* The catch: the query once more, for this request alone.
Fallback(r) ==
  /\ reader[r].pc = "fallback"
  /\ Gets(r, db[reader[r].page])
  /\ UNCHANGED <<cache, failures>>

ReaderDies(r) ==
  /\ ~Free(r)
  /\ reader' = [reader EXCEPT ![r] = Idle]
  /\ Fails /\ UNCHANGED cache

\* Slip: the entries are stored without a time to live.
ExpireNever(v, p) == FALSE /\ UNCHANGED vars

\* The time to live of an entry is over.
Expire(v, p) ==
  /\ At(v, p) # {}
  /\ entries' = entries \ At(v, p)
  /\ UNCHANGED <<db, version, promise, reader, writer, writes, failures>>

----------------------------------------------------------------------------
(* Writes to the catalogue: products and categories.                       *)

\* A product shows on several pages.
Save(w, S) ==
  /\ writer[w] = "idle" /\ writes < MaxWrites /\ S # {}
  /\ db' = [p \in Pages |-> IF p \in S THEN db[p] + 1 ELSE db[p]]
  /\ writer' = [writer EXCEPT ![w] = "saved"]
  /\ writes' = writes + 1
  /\ UNCHANGED <<version, entries, promise, reader, failures>>

\* bumpCacheVersion, after the save and its audit entry.
Bump(w) ==
  /\ writer[w] = "saved"
  /\ version' = version + 1
  /\ promise' = [v \in 0..version' |-> IF v = version' THEN db ELSE promise[v]]
  /\ writer' = [writer EXCEPT ![w] = "idle"]
  /\ UNCHANGED <<db, entries, reader, writes, failures>>

\* The increment fails and the administrator is told of success all the same.
BumpSwallowed(w) ==
  /\ writer[w] = "saved"
  /\ writer' = [writer EXCEPT ![w] = "idle"]
  /\ Fails
  /\ UNCHANGED <<db, version, entries, promise, reader, writes>>

\* The audit entry fails or the request dies: there is no increment.
WriteDies(w) ==
  /\ writer[w] = "saved"
  /\ writer' = [writer EXCEPT ![w] = "idle"]
  /\ Fails
  /\ UNCHANGED <<db, version, entries, promise, reader, writes>>

----------------------------------------------------------------------------
Read(r) == \/ ReadVersion(r) \/ Hit(r) \/ Miss(r) \/ Fetch(r) \/ Store(r) \/ Fallback(r)
ReadFails(r) == \/ ConnectFails(r) \/ ReadVersionFails(r) \/ LookupFails(r)
                \/ StoreFails(r) \/ ReaderDies(r)
Ask(r, p) == Start(r, p) \/ StartUncached(r, p)
Write(w) == (\E S \in SUBSET Pages : Save(w, S)) \/ Bump(w) \/ BumpSwallowed(w) \/ WriteDies(w)

Next == \/ \E r \in Readers : (\E p \in Pages : Ask(r, p)) \/ Read(r) \/ ReadFails(r)
        \/ \E w \in Writers : Write(w)
        \/ \E v \in 0..version, p \in Pages : Expire(v, p)

Spec == Init /\ [][Next]_vars

\* A request that has begun is served, and Redis drops what has expired.  Nobody
\* must read or write, and an increment may be late for ever.
Fairness == /\ \A r \in Readers : WF_vars(Read(r))
            /\ \A v \in 0..MaxWrites, p \in Pages : WF_vars(Expire(v, p))

FairSpec == Spec /\ Fairness

----------------------------------------------------------------------------
(* Properties.                                                             *)

ReaderJob == [pc : {"started", "keyed", "missed", "fetched", "fallback", "served"},
              page : Pages, floor : Nat, version : Nat, known : BOOLEAN, rev : Nat]

\* Every variable keeps its type and a key has one entry.
TypeOK ==
  /\ db \in [Pages -> Nat]
  /\ version \in Nat
  /\ entries \subseteq Entry
  /\ \A d, e \in entries : d.version = e.version /\ d.page = e.page => d = e
  /\ promise \in [0..version -> [Pages -> Nat]]
  /\ reader \in [Readers -> ReaderJob \cup {Idle}]
  /\ writer \in [Writers -> {"idle", "saved"}]
  /\ writes \in Nat /\ failures \in Nat

\* A request that could read the version is never served a revision older than the one
\* the last increment before it began had seen, however fills, writes and failures
\* of other requests fall between its calls.
FreshServed ==
  \A r \in Readers : reader[r].pc = "served" /\ reader[r].known => reader[r].rev >= reader[r].floor

View(r) ==
  LET j == reader[r] IN
  IF j.pc = "idle" THEN [page |-> "none"]
  ELSE IF j.pc = "served"
    THEN [page |-> j.page, floor |-> IF j.known THEN j.floor ELSE 0, served |-> TRUE, rev |-> j.rev]
    ELSE [page |-> j.page, floor |-> j.floor, served |-> FALSE]

Contract == INSTANCE FreshReads WITH
              saved <- db,
              promised <- promise[version],
              view <- [r \in Readers |-> View(r)]

\* Seen from outside, the cache with its fills, orphans, failures and expiry only ever
\* does what FreshReads allows.
ImplementsFreshReads == Contract!Spec

\* Whatever increments were lost, once the writes have ended what the current keys
\* hold ends up being what the database holds.
StaleEnds == <>[](\A e \in entries : e.version = version => e.rev = db[e.page])

\* Without Redis the page still works: a request that does not die is served.
Answered == \A r \in Readers : reader[r].pc = "started" ~> Free(r)
=============================================================================
