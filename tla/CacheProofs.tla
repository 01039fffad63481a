---------------------------- MODULE CacheProofs -----------------------------
(***************************************************************************)
(* Proofs about ReadCache, for any sets of pages, readers and writers and  *)
(* any bounds.                                                             *)
(*                                                                         *)
(* What was promised when a version became current bounds from below all   *)
(* that is ever stored under it (EntryInv), because a fill reads the       *)
(* version before the database.  A reader that holds a version holds one   *)
(* that was current after it began (ReaderInv).  Together they bound what  *)
(* it is served.                                                           *)
(***************************************************************************)
EXTENDS ReadCache, FiniteSetTheorems, TLAPS

\* Promises only grow, and the database keeps them.
PromiseInv ==
  \A p \in Pages :
    /\ promise[version][p] <= db[p]
    /\ \A v \in 0..version : promise[v][p] <= promise[version][p]

EntryInv(e) == /\ e.version \in 0..version
               /\ promise[e.version][e.page] <= e.rev /\ e.rev <= db[e.page]

ReaderInv(r) ==
  LET j == reader[r] IN
  reader[r] # Idle =>
    /\ j.floor <= promise[version][j.page]
    /\ j.version \in 0..version
    /\ j.known /\ j.pc \in {"keyed", "missed", "fetched"} => j.floor <= promise[j.version][j.page]
    /\ j.pc = "fetched" => promise[j.version][j.page] <= j.rev
    /\ j.pc \in {"fetched", "served"} => j.rev <= db[j.page]
    /\ j.known /\ j.pc = "served" => j.floor <= j.rev

IInv ==
  /\ TypeOK
  /\ PromiseInv
  /\ \A e \in entries : EntryInv(e)
  /\ \A r \in Readers : ReaderInv(r)

LEMMA InitIInv == Init => IInv
<1> SUFFICES ASSUME Init PROVE IInv
  OBVIOUS
<1>1. TypeOK
  BY DEF Init, TypeOK
<1>2. PromiseInv
  BY DEF Init, PromiseInv
<1>3. QED
  BY <1>1, <1>2 DEF Init, IInv, ReaderInv

----------------------------------------------------------------------------
(* Readers.                                                                *)

\* A request that is not idle is a whole job.
LEMMA ReaderIsJob ==
  ASSUME TypeOK, NEW r \in Readers, reader[r].pc # "idle"
  PROVE  reader[r] \in ReaderJob /\ reader[r] # Idle
BY DEF TypeOK, Idle

\* A step that only changes one request preserves the invariant if the request is left
\* idle or with a job that satisfies it.
LEMMA OneReader ==
  ASSUME IInv, NEW r \in Readers, NEW job,
         reader' = [reader EXCEPT ![r] = job],
         UNCHANGED cache, failures' \in Nat,
         job = Idle \/ (job \in ReaderJob /\ ReaderInv(r)')
  PROVE  IInv'
<1>1. TypeOK'
  BY DEF IInv, TypeOK, cache
<1>2. PromiseInv'
  BY DEF IInv, PromiseInv, cache
<1>3. \A e \in entries' : EntryInv(e)'
  BY DEF IInv, EntryInv, cache
<1>4. ASSUME NEW q \in Readers PROVE ReaderInv(q)'
  <2>1. CASE q # r
    BY <2>1 DEF IInv, ReaderInv, cache, TypeOK
  <2>2. CASE q = r
    BY <2>2 DEF IInv, TypeOK, ReaderInv
  <2>3. QED
    BY <2>1, <2>2
<1>5. QED
  BY <1>1, <1>2, <1>3, <1>4 DEF IInv

LEMMA FailsNat == TypeOK /\ Fails => failures' \in Nat
BY DEF TypeOK, Fails

LEMMA AskStep ==
  ASSUME IInv, NEW r \in Readers, NEW p \in Pages, Ask(r, p)
  PROVE  IInv'
<1>1. PICK pc \in {"started", "fallback"} : Asked(r, p, pc) /\ UNCHANGED <<cache, failures>>
  BY DEF Ask, Start, StartUncached
<1> DEFINE job == [pc |-> pc, page |-> p, floor |-> promise[version][p], version |-> 0,
                   known |-> TRUE, rev |-> 0]
<1>2. reader' = [reader EXCEPT ![r] = job]
  BY <1>1 DEF Asked
<1>3. TypeOK /\ PromiseInv /\ promise[version][p] \in Nat /\ version \in Nat
  BY DEF IInv, TypeOK
<1>4. job \in ReaderJob
  BY <1>3 DEF ReaderJob
<1>5. reader'[r] = job
  BY <1>2, <1>3 DEF TypeOK
<1>6. ReaderInv(r)'
  BY <1>1, <1>3, <1>5 DEF ReaderInv, cache
<1>7. failures' \in Nat /\ entries' = entries /\ UNCHANGED cache
  BY <1>1, <1>3 DEF TypeOK, cache
<1>8. QED
  BY <1>2, <1>4, <1>6, <1>7, OneReader

\* A request that is served becomes such a job.
LEMMA GetsStep ==
  ASSUME IInv, NEW r \in Readers, reader[r] \in ReaderJob, NEW rev \in Nat, Gets(r, rev),
         UNCHANGED cache, failures' \in Nat,
         rev <= db[reader[r].page], reader[r].known => reader[r].floor <= rev
  PROVE  IInv'
<1> DEFINE job == [reader[r] EXCEPT !.pc = "served", !.rev = rev, !.version = 0]
<1>1. TypeOK /\ ReaderInv(r) /\ reader[r] # Idle
  BY DEF IInv, Idle, ReaderJob
<1>2. reader' = [reader EXCEPT ![r] = job]
  BY <1>1 DEF TypeOK, Gets
<1>3. job \in ReaderJob /\ reader'[r] = job
  BY <1>1, <1>2 DEF ReaderJob, TypeOK
<1>4. job.page = reader[r].page /\ job.floor = reader[r].floor /\ job.version = 0
      /\ job.known = reader[r].known /\ job.rev = rev /\ job.pc = "served"
  BY DEF ReaderJob
<1>5. reader[r].floor <= promise[version][reader[r].page] /\ 0 \in 0..version
  BY <1>1 DEF ReaderInv, TypeOK
<1> HIDE DEF job
<1>6. ReaderInv(r)'
  BY <1>1, <1>3, <1>4, <1>5 DEF ReaderInv, cache
<1>7. QED
  BY <1>1, <1>2, <1>3, <1>6, OneReader DEF cache

\* A step that only moves a request on, to a pc that claims no more than it holds.
LEMMA GoesStep ==
  ASSUME IInv, NEW r \in Readers, reader[r] \in ReaderJob,
         NEW pc \in {"missed", "fallback"}, Goes(r, pc), UNCHANGED cache, failures' \in Nat,
         pc = "missed" => reader[r].pc = "keyed"
  PROVE  IInv'
<1> DEFINE job == [reader[r] EXCEPT !.pc = pc]
<1>1. TypeOK /\ ReaderInv(r) /\ reader[r] # Idle
  BY DEF IInv, Idle, ReaderJob
<1>2. reader' = [reader EXCEPT ![r] = job]
  BY <1>1 DEF TypeOK, Goes
<1>3. job \in ReaderJob /\ reader'[r] = job
  BY <1>1, <1>2 DEF ReaderJob, TypeOK
<1>4. job.page = reader[r].page /\ job.floor = reader[r].floor /\ job.version = reader[r].version
      /\ job.known = reader[r].known /\ job.rev = reader[r].rev /\ job.pc = pc
  BY DEF ReaderJob
<1> HIDE DEF job
<1>5. ReaderInv(r)'
  BY <1>1, <1>3, <1>4 DEF ReaderInv, cache
<1>6. QED
  BY <1>2, <1>3, <1>5, OneReader DEF cache

\* The version a request reads is the one that is current.
LEMMA ReadVersionStep ==
  ASSUME IInv, NEW r \in Readers, reader[r] \in ReaderJob,
         NEW ver, NEW known \in BOOLEAN, ver \in 0..version, known => ver = version,
         reader' = [reader EXCEPT ![r] = [reader[r] EXCEPT !.pc = "keyed", !.version = ver,
                                                           !.known = known]],
         UNCHANGED cache, failures' \in Nat
  PROVE  IInv'
<1> DEFINE job == [reader[r] EXCEPT !.pc = "keyed", !.version = ver, !.known = known]
<1>1. TypeOK /\ ReaderInv(r) /\ reader[r] # Idle
  BY DEF IInv, Idle, ReaderJob
<1>2. version \in Nat /\ ver \in Nat /\ ver \in 0..version
  BY <1>1 DEF TypeOK
<1>3. job \in ReaderJob /\ reader'[r] = job
  BY <1>1, <1>2 DEF ReaderJob, TypeOK
<1>4. job.page = reader[r].page /\ job.floor = reader[r].floor /\ job.version = ver
      /\ job.known = known /\ job.rev = reader[r].rev /\ job.pc = "keyed"
  BY DEF ReaderJob
<1> HIDE DEF job
<1>5. ReaderInv(r)'
  BY <1>1, <1>2, <1>3, <1>4 DEF ReaderInv, cache
<1>6. QED
  BY <1>3, <1>5, OneReader DEF cache, job

\* The revision is read after the version was.
LEMMA FetchStep ==
  ASSUME IInv, NEW r \in Readers, Fetch(r)
  PROVE  IInv'
<1> DEFINE job == [reader[r] EXCEPT !.pc = "fetched", !.rev = db[reader[r].page]]
<1>1. TypeOK /\ PromiseInv /\ ReaderInv(r)
  BY DEF IInv
<1>2. reader[r] \in ReaderJob /\ reader[r] # Idle
  BY <1>1, ReaderIsJob DEF Fetch
<1>3. reader[r].page \in Pages /\ db[reader[r].page] \in Nat /\ version \in Nat
      /\ reader[r].version \in 0..version
  BY <1>1, <1>2 DEF ReaderJob, TypeOK, ReaderInv
<1>4. reader' = [reader EXCEPT ![r] = job] /\ failures' \in Nat /\ UNCHANGED cache
  BY <1>1 DEF Fetch, TypeOK
<1>5. job \in ReaderJob /\ reader'[r] = job
  BY <1>1, <1>2, <1>3, <1>4 DEF ReaderJob, TypeOK
<1>6. job.page = reader[r].page /\ job.floor = reader[r].floor
      /\ job.version = reader[r].version /\ job.known = reader[r].known
      /\ job.rev = db[reader[r].page] /\ job.pc = "fetched"
  BY <1>2 DEF ReaderJob
<1>7. promise[reader[r].version][reader[r].page] \in Nat
      /\ promise[version][reader[r].page] \in Nat
      /\ promise[reader[r].version][reader[r].page] <= promise[version][reader[r].page]
      /\ promise[version][reader[r].page] <= db[reader[r].page]
  BY <1>1, <1>3 DEF PromiseInv, TypeOK
<1>8. reader[r].pc = "missed"
  BY DEF Fetch
<1> HIDE DEF job
<1>9. ReaderInv(r)'
  BY <1>1, <1>2, <1>3, <1>4, <1>5, <1>6, <1>7, <1>8 DEF ReaderInv, cache
<1>10. QED
  BY <1>4, <1>5, <1>9, OneReader DEF cache

\* What is stored was read after the version it is stored under.
LEMMA StoreStep ==
  ASSUME IInv, NEW r \in Readers, Store(r)
  PROVE  IInv'
<1> DEFINE j == reader[r]
           new == [version |-> reader[r].version, page |-> reader[r].page, rev |-> reader[r].rev]
           job == [reader[r] EXCEPT !.pc = "served", !.rev = reader[r].rev, !.version = 0]
<1>1. TypeOK /\ PromiseInv /\ ReaderInv(r) /\ j.pc = "fetched"
  BY DEF IInv, Store
<1>2. reader[r] \in ReaderJob /\ reader[r] # Idle
  BY <1>1, ReaderIsJob
<1>3. /\ j.page \in Pages /\ j.rev \in Nat /\ j.version \in 0..version /\ j.version \in Nat
      /\ promise[j.version][j.page] <= j.rev /\ j.rev <= db[j.page]
      /\ j.known => j.floor <= promise[j.version][j.page]
      /\ promise[j.version][j.page] \in Nat /\ j.floor \in Nat
      /\ j.floor <= promise[version][j.page]
  BY <1>1, <1>2 DEF ReaderJob, TypeOK, ReaderInv
<1>4. /\ entries' = (entries \ At(j.version, j.page)) \cup {new}
      /\ reader' = [reader EXCEPT ![r] = job]
      /\ UNCHANGED <<db, version, promise, writer, writes, failures>>
  BY <1>1, <1>2 DEF Store, Gets, TypeOK
<1>5. job \in ReaderJob /\ reader'[r] = job
  BY <1>1, <1>2, <1>4 DEF ReaderJob, TypeOK
<1>6. job.page = j.page /\ job.floor = j.floor /\ job.version = 0
      /\ job.known = j.known /\ job.rev = j.rev /\ job.pc = "served"
  BY <1>2 DEF ReaderJob
<1>7. new \in Entry /\ new.version = j.version /\ new.page = j.page /\ new.rev = j.rev
  BY <1>3 DEF Entry
<1> HIDE DEF job, new, j
<1>8. TypeOK'
  <2>1. entries' \subseteq Entry
    BY <1>1, <1>4, <1>7 DEF TypeOK
  <2>2. \A d, e \in entries' : d.version = e.version /\ d.page = e.page => d = e
    BY <1>1, <1>4, <1>7 DEF TypeOK, At
  <2>3. reader' \in [Readers -> ReaderJob \cup {Idle}]
    BY <1>1, <1>4, <1>5 DEF TypeOK
  <2>4. QED
    BY <1>1, <1>4, <2>1, <2>2, <2>3 DEF TypeOK
<1>9. PromiseInv'
  BY <1>1, <1>4 DEF PromiseInv
<1>10. \A e \in entries' : EntryInv(e)'
  BY <1>3, <1>4, <1>7 DEF IInv, EntryInv
<1>11. ASSUME NEW q \in Readers PROVE ReaderInv(q)'
  <2>1. CASE q # r
    BY <2>1, <1>1, <1>4 DEF IInv, ReaderInv, TypeOK
  <2>2. CASE q = r
    BY <2>2, <1>1, <1>3, <1>4, <1>5, <1>6 DEF ReaderInv, TypeOK
  <2>3. QED
    BY <2>1, <2>2
<1>12. QED
  BY <1>8, <1>9, <1>10, <1>11 DEF IInv

\* The other calls of getOrSet, and the calls that fail.
LEMMA ReadStep ==
  ASSUME IInv, NEW r \in Readers, Read(r)
  PROVE  IInv'
<1>1. TypeOK /\ ReaderInv(r) /\ PromiseInv
  BY DEF IInv
<1>2. reader[r].pc # "idle"
  BY DEF Read, ReadVersion, Hit, Miss, Fetch, Store, Fallback
<1>3. reader[r] \in ReaderJob /\ reader[r] # Idle
  BY <1>1, <1>2, ReaderIsJob
<1>4. failures \in Nat /\ version \in Nat
  BY <1>1 DEF TypeOK
<1>5. CASE ReadVersion(r)
  <2>1. reader' = [reader EXCEPT ![r] = [reader[r] EXCEPT !.pc = "keyed", !.version = version,
                                                          !.known = reader[r].known]]
    BY <1>1, <1>3, <1>5 DEF ReadVersion, TypeOK, ReaderJob
  <2>2. reader[r].known \in BOOLEAN /\ UNCHANGED <<cache, failures>>
    BY <1>3, <1>5 DEF ReaderJob, ReadVersion
  <2>3. version \in 0..version
    BY <1>4
  <2>4. QED
    BY <1>3, <1>4, <2>1, <2>2, <2>3, ReadVersionStep
<1>6. CASE Hit(r)
  <2>1. PICK e \in At(reader[r].version, reader[r].page) : Gets(r, e.rev)
    BY <1>6 DEF Hit
  <2>2. e \in Entry /\ EntryInv(e) /\ e.version = reader[r].version /\ e.page = reader[r].page
    BY <1>1 DEF TypeOK, At, IInv
  <2>3. e.rev \in Nat /\ e.rev <= db[reader[r].page]
        /\ promise[reader[r].version][reader[r].page] <= e.rev
    BY <2>2 DEF Entry, EntryInv
  <2>4. reader[r].known => reader[r].floor <= promise[reader[r].version][reader[r].page]
    BY <1>1, <1>3, <1>6 DEF Hit, ReaderInv
  <2>5. reader[r].page \in Pages /\ reader[r].version \in 0..version /\ reader[r].floor \in Nat
    BY <1>1, <1>3 DEF ReaderJob, ReaderInv
  <2>6. promise[reader[r].version][reader[r].page] \in Nat
    BY <1>1, <2>5 DEF TypeOK
  <2>7. reader[r].known => reader[r].floor <= e.rev
    BY <2>3, <2>4, <2>5, <2>6
  <2>8. QED
    BY <1>3, <1>4, <1>6, <2>1, <2>3, <2>7, GetsStep DEF Hit
<1>7. CASE Miss(r)
  BY <1>3, <1>4, <1>7, GoesStep DEF Miss
<1>8. CASE Fetch(r)
  BY <1>8, FetchStep
<1>9. CASE Store(r)
  BY <1>9, StoreStep
<1>10. CASE Fallback(r)
  <2>1. reader[r].page \in Pages /\ reader[r].floor \in Nat
        /\ reader[r].floor <= promise[version][reader[r].page]
    BY <1>1, <1>3 DEF ReaderJob, ReaderInv
  <2>2. promise[version][reader[r].page] \in Nat /\ db[reader[r].page] \in Nat
        /\ promise[version][reader[r].page] <= db[reader[r].page]
    BY <1>1, <1>4, <2>1 DEF TypeOK, PromiseInv
  <2>3. QED
    BY <1>3, <1>4, <1>10, <2>1, <2>2, GetsStep DEF Fallback
<1>11. QED
  BY <1>5, <1>6, <1>7, <1>8, <1>9, <1>10 DEF Read

LEMMA ReadFailsStep ==
  ASSUME IInv, NEW r \in Readers, ReadFails(r)
  PROVE  IInv'
<1>1. TypeOK /\ failures' \in Nat /\ UNCHANGED cache
  BY FailsNat DEF IInv, ReadFails, ConnectFails, ReadVersionFails, LookupFails, StoreFails,
                  ReaderDies
<1>2. reader[r].pc # "idle"
  BY DEF ReadFails, ConnectFails, ReadVersionFails, LookupFails, StoreFails, ReaderDies, Free
<1>3. reader[r] \in ReaderJob /\ reader[r] # Idle
  BY <1>1, <1>2, ReaderIsJob
<1>4. CASE ReadVersionFails(r)
  <2>1. reader[r].pc = "started"
        /\ reader' = [reader EXCEPT ![r].pc = "keyed", ![r].known = FALSE]
    BY <1>4 DEF ReadVersionFails
  <2>2. reader' = [reader EXCEPT ![r] = [reader[r] EXCEPT !.pc = "keyed",
                                           !.version = reader[r].version, !.known = FALSE]]
    BY <1>1, <1>3, <2>1 DEF TypeOK, ReaderJob
  <2>3. reader[r].version \in 0..version
    BY <1>1, <1>3 DEF IInv, ReaderInv
  <2>4. QED
    BY <1>1, <1>3, <2>2, <2>3, ReadVersionStep
<1>5. CASE ReaderDies(r)
  BY <1>1, <1>5, OneReader DEF ReaderDies
<1>6. CASE ConnectFails(r) \/ LookupFails(r) \/ StoreFails(r)
  BY <1>1, <1>3, <1>6, GoesStep DEF ConnectFails, LookupFails, StoreFails
<1>7. QED
  BY <1>4, <1>5, <1>6 DEF ReadFails

----------------------------------------------------------------------------
(* Expiry and writers.                                                     *)

\* Fewer entries, and nothing else changed.
LEMMA ExpireStep ==
  ASSUME IInv, NEW v, NEW p, Expire(v, p)
  PROVE  IInv'
<1>1. entries' \subseteq entries /\ UNCHANGED <<db, version, promise, reader, writer, writes, failures>>
  BY DEF Expire
<1>2. TypeOK'
  BY <1>1 DEF IInv, TypeOK
<1>3. PromiseInv' /\ \A r \in Readers : ReaderInv(r)'
  BY <1>1 DEF IInv, PromiseInv, ReaderInv
<1>4. QED
  BY <1>1, <1>2, <1>3 DEF IInv, EntryInv

\* The database only grows.
LEMMA SaveStep ==
  ASSUME IInv, NEW w \in Writers, NEW S \in SUBSET Pages, Save(w, S)
  PROVE  IInv'
<1>1. TypeOK /\ PromiseInv
  BY DEF IInv
<1>2. \A p \in Pages : db[p] \in Nat /\ db'[p] \in Nat /\ db[p] <= db'[p]
  BY <1>1 DEF Save, TypeOK
<1>3. TypeOK'
  BY <1>1 DEF Save, TypeOK
<1>4. version \in Nat /\ UNCHANGED <<version, entries, promise, reader>>
  BY <1>1 DEF Save, TypeOK
<1>5. \A p \in Pages : promise[version][p] \in Nat
  BY <1>1, <1>4 DEF TypeOK
<1>6. PromiseInv'
  BY <1>1, <1>2, <1>4, <1>5 DEF PromiseInv
<1>7. ASSUME NEW e \in entries PROVE EntryInv(e)'
  <2>1. e \in Entry /\ EntryInv(e)
    BY <1>1 DEF IInv, TypeOK
  <2>2. e.page \in Pages /\ e.rev \in Nat
    BY <2>1 DEF Entry
  <2>3. QED
    BY <1>2, <1>4, <2>1, <2>2 DEF EntryInv
<1>8. ASSUME NEW r \in Readers, reader[r] # Idle PROVE ReaderInv(r)'
  <2>1. reader[r] \in ReaderJob /\ ReaderInv(r)
    BY <1>1, <1>8 DEF IInv, TypeOK
  <2>2. reader[r].page \in Pages /\ reader[r].rev \in Nat
    BY <2>1 DEF ReaderJob
  <2>3. reader[r].rev <= db[reader[r].page] => reader[r].rev <= db'[reader[r].page]
    BY <1>2, <2>2
  <2>4. QED
    BY <1>4, <2>1, <2>3 DEF ReaderInv
<1>9. \A r \in Readers : ReaderInv(r)'
  BY <1>4, <1>8 DEF ReaderInv
<1>10. QED
  BY <1>3, <1>4, <1>6, <1>7, <1>9 DEF IInv

\* The new version is promised what the database holds; the promises of the old ones stay.
LEMMA BumpStep ==
  ASSUME IInv, NEW w \in Writers, Bump(w)
  PROVE  IInv'
<1>1. TypeOK /\ PromiseInv
  BY DEF IInv
<1>2. /\ version \in Nat /\ version' = version + 1 /\ version' \in Nat
      /\ 0..version \subseteq 0..version' /\ version' \in 0..version' /\ version' \notin 0..version
      /\ UNCHANGED <<db, entries, reader, writes, failures>>
  BY <1>1 DEF Bump, TypeOK
<1>3. \A v \in 0..version : promise'[v] = promise[v]
  BY <1>1, <1>2 DEF Bump
<1>4. promise'[version'] = db
  BY <1>2 DEF Bump
<1>5. \A v \in 0..version' : v \in 0..version \/ v = version'
  BY <1>2
<1>6. \A p \in Pages : /\ db[p] \in Nat /\ promise[version][p] \in Nat
                       /\ promise[version][p] <= db[p]
                       /\ \A v \in 0..version : /\ promise[v][p] \in Nat
                                                /\ promise[v][p] <= promise[version][p]
  BY <1>1, <1>2 DEF TypeOK, PromiseInv
<1>7. TypeOK'
  <2>1. promise' \in [0..version' -> [Pages -> Nat]]
    BY <1>1, <1>2, <1>5 DEF Bump, TypeOK
  <2>2. writer' \in [Writers -> {"idle", "saved"}]
    BY <1>1 DEF Bump, TypeOK
  <2>3. QED
    BY <1>1, <1>2, <2>1, <2>2 DEF TypeOK
<1>8. PromiseInv'
  BY <1>2, <1>3, <1>4, <1>5, <1>6 DEF PromiseInv
<1>9. \A e \in entries' : EntryInv(e)'
  BY <1>1, <1>2, <1>3 DEF IInv, EntryInv
<1>10. ASSUME NEW r \in Readers, reader[r] # Idle PROVE ReaderInv(r)'
  <2>1. reader[r] \in ReaderJob /\ ReaderInv(r)
    BY <1>1, <1>10 DEF IInv, TypeOK
  <2>2. reader[r].page \in Pages /\ reader[r].floor \in Nat
        /\ reader[r].version \in 0..version
        /\ reader[r].floor <= promise[version][reader[r].page]
    BY <1>10, <2>1 DEF ReaderJob, ReaderInv
  <2>3. reader[r].floor <= db[reader[r].page]
    BY <1>6, <2>2
  <2>4. QED
    BY <1>2, <1>3, <1>4, <2>1, <2>2, <2>3 DEF ReaderInv
<1>11. \A r \in Readers : ReaderInv(r)'
  BY <1>2, <1>10 DEF ReaderInv
<1>12. QED
  BY <1>7, <1>8, <1>9, <1>11 DEF IInv

\* A write without its increment changes nothing a reader sees.
LEMMA NoBumpStep ==
  ASSUME IInv, NEW w \in Writers, BumpSwallowed(w) \/ WriteDies(w)
  PROVE  IInv'
<1>1. TypeOK'
  <2>1. TypeOK /\ failures' \in Nat /\ writer' = [writer EXCEPT ![w] = "idle"]
        /\ UNCHANGED <<db, version, entries, promise, reader, writes>>
    BY FailsNat DEF IInv, BumpSwallowed, WriteDies
  <2>2. QED
    BY <2>1 DEF TypeOK
<1>2. UNCHANGED <<db, version, entries, promise, reader>>
  BY DEF BumpSwallowed, WriteDies
<1>3. QED
  BY <1>1, <1>2 DEF IInv, PromiseInv, EntryInv, ReaderInv

----------------------------------------------------------------------------
(* The invariant holds.                                                    *)

LEMMA NextIInv == IInv /\ [Next]_vars => IInv'
<1> SUFFICES ASSUME IInv, [Next]_vars PROVE IInv'
  OBVIOUS
<1>1. CASE \E r \in Readers : (\E p \in Pages : Ask(r, p)) \/ Read(r) \/ ReadFails(r)
  BY <1>1, AskStep, ReadStep, ReadFailsStep
<1>2. CASE \E w \in Writers : Write(w)
  BY <1>2, SaveStep, BumpStep, NoBumpStep DEF Write
<1>3. CASE \E v \in 0..version, p \in Pages : Expire(v, p)
  BY <1>3, ExpireStep
<1>4. CASE UNCHANGED vars
  BY <1>4 DEF vars, IInv, TypeOK, PromiseInv, EntryInv, ReaderInv
<1>5. QED
  BY <1>1, <1>2, <1>3, <1>4 DEF Next

LEMMA SpecIInv == Spec => []IInv
BY InitIInv, NextIInv, PTL DEF Spec

\* Every variable of the cache keeps its type, and a key of Redis has one entry.
THEOREM CacheTypes == Spec => []TypeOK
<1>1. IInv => TypeOK
  BY DEF IInv
<1>2. QED
  BY <1>1, SpecIInv, PTL

\* Whatever the number of requests and whatever fails, getOrSet serves nothing older than
\* what the last bumpCacheVersion before the request had seen.
THEOREM CacheFresh == Spec => []FreshServed
<1>1. IInv => FreshServed
  <2> SUFFICES ASSUME IInv, NEW r \in Readers, reader[r].pc = "served", reader[r].known
               PROVE  reader[r].rev >= reader[r].floor
    BY DEF FreshServed
  <2>1. reader[r] \in ReaderJob /\ reader[r] # Idle
    BY ReaderIsJob DEF IInv
  <2>2. reader[r].floor <= reader[r].rev /\ reader[r].floor \in Nat /\ reader[r].rev \in Nat
    BY <2>1 DEF IInv, ReaderInv, ReaderJob
  <2>3. QED
    BY <2>2
<1>2. QED
  BY <1>1, SpecIInv, PTL

----------------------------------------------------------------------------
(* The refinement.                                                         *)

Views == [r \in Readers |-> View(r)]

\* What a request in flight and a request that was served look like from outside.
LEMMA ViewOfJob ==
  ASSUME NEW r \in Readers, reader[r] \in ReaderJob
  PROVE  /\ reader[r].pc # "served" =>
              View(r) = [page |-> reader[r].page, floor |-> reader[r].floor, served |-> FALSE]
         /\ reader[r].pc = "served" =>
              View(r) = [page |-> reader[r].page,
                         floor |-> IF reader[r].known THEN reader[r].floor ELSE 0,
                         served |-> TRUE, rev |-> reader[r].rev]
BY DEF View, ReaderJob

LEMMA OneView ==
  ASSUME TypeOK, NEW r \in Readers, NEW job, reader' = [reader EXCEPT ![r] = job]
  PROVE  Views' = [Views EXCEPT ![r] = View(r)']
<1>1. \A q \in Readers : q # r => reader'[q] = reader[q]
  BY DEF TypeOK
<1>2. \A q \in Readers : q # r => View(q)' = View(q)
  BY <1>1 DEF View
<1>3. QED
  BY <1>2 DEF Views

\* A request that moves on without an answer is not seen to.
LEMMA UnseenStep ==
  ASSUME TypeOK, TypeOK', NEW r \in Readers, NEW job,
         reader[r] \in ReaderJob, reader[r].pc # "served",
         reader' = [reader EXCEPT ![r] = job], job \in ReaderJob, job.pc # "served",
         job.page = reader[r].page, job.floor = reader[r].floor
  PROVE  Views' = Views
<1>1. reader'[r] = job
  BY DEF TypeOK
<1>2. View(r)' = [page |-> job.page, floor |-> job.floor, served |-> FALSE]
  BY <1>1 DEF View, ReaderJob
<1>3. View(r)' = View(r)
  BY <1>2, ViewOfJob
<1>4. QED
  BY <1>3, OneView DEF Views

\* An answer within the bounds of the request is one the contract allows.
LEMMA ServedStep ==
  ASSUME IInv, IInv', NEW r \in Readers, reader[r] \in ReaderJob, reader[r].pc # "served",
         NEW rev \in Nat, Gets(r, rev), UNCHANGED <<db, version, promise>>
  PROVE  Contract!Serve(r) \/ Contract!ServeUnversioned(r)
<1> DEFINE j == reader[r]
           job == [reader[r] EXCEPT !.pc = "served", !.rev = rev, !.version = 0]
<1>1. TypeOK /\ TypeOK' /\ ReaderInv(r)'
  BY DEF IInv
<1>2. reader' = [reader EXCEPT ![r] = job]
  BY <1>1 DEF TypeOK, Gets
<1>3. reader'[r] = job
  BY <1>1, <1>2 DEF TypeOK
<1>4. job \in ReaderJob /\ job.page = j.page /\ job.floor = j.floor /\ job.known = j.known
      /\ job.rev = rev /\ job.pc = "served" /\ job # Idle
  BY DEF ReaderJob, Idle
<1>5. rev <= db[j.page] /\ (j.known => j.floor <= rev) /\ j.floor \in Nat /\ db[j.page] \in Nat
      /\ j.known \in BOOLEAN
  BY <1>1, <1>3, <1>4 DEF ReaderInv, ReaderJob, TypeOK
<1>6. View(r) = [page |-> j.page, floor |-> j.floor, served |-> FALSE]
  BY ViewOfJob
<1>7. View(r)' = [page |-> j.page, floor |-> IF j.known THEN j.floor ELSE 0,
                  served |-> TRUE, rev |-> rev]
  BY <1>3, <1>4 DEF View
<1>8. Views' = [Views EXCEPT ![r] = View(r)'] /\ Views[r] = View(r)
  BY <1>1, <1>2, OneView DEF Views
<1>9. View(r) # [page |-> "none"] /\ ~View(r).served
      /\ View(r).floor = j.floor /\ View(r).page = j.page
  BY <1>6
<1> HIDE DEF job, j
<1>10. CASE j.known
  <2>1. Views' = [Views EXCEPT ![r] = [page |-> @.page, floor |-> @.floor, served |-> TRUE,
                                       rev |-> rev]]
    BY <1>7, <1>8, <1>9, <1>10
  <2>2. rev \in Views[r].floor .. db[Views[r].page]
    BY <1>5, <1>8, <1>9, <1>10
  <2>3. Contract!Serve(r)
    BY <1>8, <1>9, <2>1, <2>2
       DEF Contract!Serve, Contract!IsWaiting, Contract!Nothing, Contract!Served, Views
  <2>4. QED
    BY <2>3
<1>11. CASE ~j.known
  <2>1. Views' = [Views EXCEPT ![r] = [page |-> @.page, floor |-> 0, served |-> TRUE,
                                       rev |-> rev]]
    BY <1>7, <1>8, <1>9, <1>11
  <2>2. rev \in 0 .. db[Views[r].page]
    BY <1>5, <1>8, <1>9
  <2>3. Contract!ServeUnversioned(r)
    BY <1>8, <1>9, <2>1, <2>2
       DEF Contract!ServeUnversioned, Contract!IsWaiting, Contract!Nothing, Contract!Served, Views
  <2>4. QED
    BY <2>3
<1>12. QED
  BY <1>10, <1>11

LEMMA AskImplements ==
  ASSUME TypeOK, NEW r \in Readers, NEW p \in Pages, Ask(r, p)
  PROVE  Contract!Begin(r, p)
<1>1. PICK pc \in {"started", "fallback"} : Asked(r, p, pc) /\ UNCHANGED <<cache, failures>>
  BY DEF Ask, Start, StartUncached
<1> DEFINE job == [pc |-> pc, page |-> p, floor |-> promise[version][p], version |-> 0,
                   known |-> TRUE, rev |-> 0]
<1>2. reader' = [reader EXCEPT ![r] = job] /\ UNCHANGED <<db, version, promise>>
  BY <1>1 DEF Asked, cache
<1>3. reader'[r] = job
  BY <1>2 DEF TypeOK
<1>4. View(r)' = [page |-> p, floor |-> promise[version][p], served |-> FALSE]
  BY <1>3 DEF View
<1>5. Views' = [Views EXCEPT ![r] = View(r)']
  BY <1>2, OneView
<1>6. QED
  BY <1>2, <1>4, <1>5 DEF Contract!Begin, Contract!Waiting, Views

LEMMA ReadImplements ==
  ASSUME IInv, IInv', NEW r \in Readers, Read(r)
  PROVE  \/ Contract!Serve(r) \/ Contract!ServeUnversioned(r)
         \/ UNCHANGED <<db, promise[version], Views>>
<1>1. TypeOK /\ TypeOK' /\ reader[r] \in ReaderJob /\ reader[r].pc # "served"
  <2>1. reader[r].pc # "idle" /\ reader[r].pc # "served"
    BY DEF Read, ReadVersion, Hit, Miss, Fetch, Store, Fallback
  <2>2. QED
    BY <2>1, ReaderIsJob DEF IInv
<1>2. UNCHANGED <<db, version, promise>>
  BY DEF Read, ReadVersion, Hit, Miss, Fetch, Store, Fallback, cache
<1>3. CASE ReadVersion(r)
  <2> DEFINE job == [reader[r] EXCEPT !.pc = "keyed", !.version = version]
  <2>1. reader' = [reader EXCEPT ![r] = job] /\ job \in ReaderJob
    BY <1>1, <1>3 DEF ReadVersion, TypeOK, ReaderJob
  <2>2. job.pc = "keyed" /\ job.page = reader[r].page /\ job.floor = reader[r].floor
    BY <1>1 DEF ReaderJob
  <2>3. QED
    BY <1>1, <1>2, <2>1, <2>2, UnseenStep
<1>4. CASE Miss(r)
  <2> DEFINE job == [reader[r] EXCEPT !.pc = "missed"]
  <2>1. reader' = [reader EXCEPT ![r] = job] /\ job \in ReaderJob
    BY <1>1, <1>4 DEF Miss, Goes, TypeOK, ReaderJob
  <2>2. job.pc = "missed" /\ job.page = reader[r].page /\ job.floor = reader[r].floor
    BY <1>1 DEF ReaderJob
  <2>3. QED
    BY <1>1, <1>2, <2>1, <2>2, UnseenStep
<1>5. CASE Fetch(r)
  <2> DEFINE job == [reader[r] EXCEPT !.pc = "fetched", !.rev = db[reader[r].page]]
  <2>1. reader[r].page \in Pages /\ db[reader[r].page] \in Nat
    BY <1>1 DEF ReaderJob, TypeOK
  <2>2. reader' = [reader EXCEPT ![r] = job] /\ job \in ReaderJob
    BY <1>1, <1>5, <2>1 DEF Fetch, TypeOK, ReaderJob
  <2>3. job.pc = "fetched" /\ job.page = reader[r].page /\ job.floor = reader[r].floor
    BY <1>1 DEF ReaderJob
  <2>4. QED
    BY <1>1, <1>2, <2>2, <2>3, UnseenStep
<1>6. CASE Hit(r) \/ Store(r) \/ Fallback(r)
  <2>1. PICK rev : Gets(r, rev) /\ rev \in Nat
    <3>1. CASE Hit(r)
      BY <1>1, <3>1 DEF Hit, At, TypeOK, Entry
    <3>2. CASE Store(r)
      BY <1>1, <3>2 DEF Store, ReaderJob
    <3>3. CASE Fallback(r)
      BY <1>1, <3>3 DEF Fallback, ReaderJob, TypeOK
    <3>4. QED
      BY <1>6, <3>1, <3>2, <3>3
  <2>2. QED
    BY <1>1, <1>2, <2>1, ServedStep
<1>7. QED
  BY <1>3, <1>4, <1>5, <1>6 DEF Read

LEMMA ReadFailsImplements ==
  ASSUME IInv, IInv', NEW r \in Readers, ReadFails(r)
  PROVE  Contract!Leave(r) \/ UNCHANGED <<db, promise[version], Views>>
<1>1. TypeOK /\ TypeOK' /\ reader[r] \in ReaderJob /\ reader[r].pc # "served"
  <2>1. reader[r].pc # "idle" /\ reader[r].pc # "served"
    BY DEF ReadFails, ConnectFails, ReadVersionFails, LookupFails, StoreFails, ReaderDies, Free
  <2>2. QED
    BY <2>1, ReaderIsJob DEF IInv
<1>2. UNCHANGED <<db, version, promise>>
  BY DEF ReadFails, ConnectFails, ReadVersionFails, LookupFails, StoreFails, ReaderDies, cache
<1>3. CASE ReadVersionFails(r)
  <2> DEFINE job == [reader[r] EXCEPT !.pc = "keyed", !.known = FALSE]
  <2>1. reader' = [reader EXCEPT ![r] = job] /\ job \in ReaderJob
    BY <1>1, <1>3 DEF ReadVersionFails, TypeOK, ReaderJob
  <2>2. job.pc = "keyed" /\ job.page = reader[r].page /\ job.floor = reader[r].floor
    BY <1>1 DEF ReaderJob
  <2>3. QED
    BY <1>1, <1>2, <2>1, <2>2, UnseenStep
<1>4. CASE ConnectFails(r) \/ LookupFails(r) \/ StoreFails(r)
  <2> DEFINE job == [reader[r] EXCEPT !.pc = "fallback"]
  <2>1. reader' = [reader EXCEPT ![r] = job] /\ job \in ReaderJob
    BY <1>1, <1>4 DEF ConnectFails, LookupFails, StoreFails, Goes, TypeOK, ReaderJob
  <2>2. job.pc = "fallback" /\ job.page = reader[r].page /\ job.floor = reader[r].floor
    BY <1>1 DEF ReaderJob
  <2>3. QED
    BY <1>1, <1>2, <2>1, <2>2, UnseenStep
<1>5. CASE ReaderDies(r)
  <2>1. reader' = [reader EXCEPT ![r] = Idle]
    BY <1>5 DEF ReaderDies
  <2>2. View(r)' = [page |-> "none"]
    BY <1>1, <2>1 DEF View, Idle, TypeOK
  <2>3. Views' = [Views EXCEPT ![r] = View(r)']
    BY <1>1, <2>1, OneView
  <2>4. QED
    BY <1>2, <2>2, <2>3 DEF Contract!Leave, Contract!Nothing, Views
<1>6. QED
  BY <1>3, <1>4, <1>5 DEF ReadFails

LEMMA WriteImplements ==
  ASSUME TypeOK, NEW w \in Writers, Write(w)
  PROVE  Contract!Save \/ Contract!Promise \/ UNCHANGED <<db, promise[version], Views>>
<1>1. Views' = Views
  BY DEF Write, Save, Bump, BumpSwallowed, WriteDies, Views, View
<1>2. CASE \E S \in SUBSET Pages : Save(w, S)
  BY <1>1, <1>2 DEF Save, Contract!Save, Views
<1>3. CASE Bump(w)
  <2>1. version' \in 0..version'
    BY <1>3 DEF Bump, TypeOK
  <2>2. promise'[version'] = db
    BY <1>3, <2>1 DEF Bump
  <2>3. QED
    BY <1>1, <1>3, <2>2 DEF Bump, Contract!Promise, Views
<1>4. CASE BumpSwallowed(w) \/ WriteDies(w)
  BY <1>1, <1>4 DEF BumpSwallowed, WriteDies
<1>5. QED
  BY <1>2, <1>3, <1>4 DEF Write

\* The cache of config/cache.js, for any number of pages, requests, administrators and
\* failures, is an implementation of the contract of FreshReads.
THEOREM CacheImplements == Spec => ImplementsFreshReads
<1>1. Init => Contract!Init
  <2> SUFFICES ASSUME Init PROVE Contract!Init
    OBVIOUS
  <2>1. promise[version] = [p \in Pages |-> 0]
    BY DEF Init
  <2>2. \A r \in Readers : View(r) = [page |-> "none"]
    BY DEF Init, View, Idle
  <2>3. QED
    BY <2>1, <2>2 DEF Init, Contract!Init, Contract!Nothing
<1>2. IInv /\ IInv' /\ [Next]_vars => [Contract!Next]_(Contract!vars)
  <2> SUFFICES ASSUME IInv, IInv', [Next]_vars PROVE [Contract!Next]_(Contract!vars)
    OBVIOUS
  <2>1. TypeOK
    BY DEF IInv
  <2>2. ASSUME NEW r \in Readers, NEW p \in Pages, Ask(r, p) PROVE Contract!Next
    BY <2>1, <2>2, AskImplements DEF Contract!Next
  <2>3. ASSUME NEW r \in Readers, Read(r) PROVE [Contract!Next]_(Contract!vars)
    BY <2>3, ReadImplements DEF Contract!Next, Contract!vars, Views
  <2>4. ASSUME NEW r \in Readers, ReadFails(r) PROVE [Contract!Next]_(Contract!vars)
    BY <2>4, ReadFailsImplements DEF Contract!Next, Contract!vars, Views
  <2>5. ASSUME NEW w \in Writers, Write(w) PROVE [Contract!Next]_(Contract!vars)
    BY <2>1, <2>5, WriteImplements DEF Contract!Next, Contract!vars, Views
  <2>6. ASSUME NEW v, NEW p, Expire(v, p) PROVE UNCHANGED Contract!vars
    BY <2>6 DEF Expire, Contract!vars, View
  <2>7. CASE UNCHANGED vars
    BY <2>7 DEF vars, Contract!vars, View
  <2>8. QED
    BY <2>2, <2>3, <2>4, <2>5, <2>6, <2>7 DEF Next
<1>3. QED
  BY <1>1, <1>2, SpecIInv, PTL DEF Spec, ImplementsFreshReads, Contract!Spec

----------------------------------------------------------------------------
(* How stale the cache can be.                                             *)

\* The writes whose increment is still due.
Due == {w \in Writers : writer[w] = "saved"}

\* An entry of the current version lags behind the database by no more writes than have
\* their increment still due or have failed to make it.
StalenessBounded ==
  \A e \in entries : e.version = version => db[e.page] <= e.rev + Cardinality(Due) + failures

LagInv == /\ IsFiniteSet(Due)
          /\ \A p \in Pages : db[p] <= promise[version][p] + Cardinality(Due) + failures

\* The steps that matter to the lag.
LEMMA LagCases ==
  ASSUME TypeOK, [Next]_vars
  PROVE  \/ UNCHANGED <<db, version, promise, writer>> /\ failures' \in {failures, failures + 1}
         \/ \E w \in Writers : \/ \E S \in SUBSET Pages : Save(w, S)
                               \/ Bump(w) \/ BumpSwallowed(w) \/ WriteDies(w)
<1>1. CASE \E r \in Readers, p \in Pages : Ask(r, p)
  BY <1>1 DEF Ask, Start, StartUncached, cache
<1>2. CASE \E r \in Readers : Read(r)
  BY <1>2 DEF Read, ReadVersion, Hit, Miss, Fetch, Store, Fallback, cache
<1>3. CASE \E r \in Readers : ReadFails(r)
  BY <1>3 DEF ReadFails, ConnectFails, ReadVersionFails, LookupFails, StoreFails, ReaderDies,
     Fails, cache
<1>4. CASE \E v \in 0..version, p \in Pages : Expire(v, p)
  BY <1>4 DEF Expire
<1>5. CASE UNCHANGED vars
  BY <1>5 DEF vars
<1>6. QED
  BY <1>1, <1>2, <1>3, <1>4, <1>5 DEF Next, Write

\* A page's revision, and what it was when the version became current, are numbers.
LEMMA LagTypes ==
  ASSUME TypeOK, LagInv, NEW p \in Pages
  PROVE  /\ db[p] \in Nat /\ promise[version][p] \in Nat /\ failures \in Nat
         /\ Cardinality(Due) \in Nat
<1>1. version \in 0..version
  BY DEF TypeOK
<1>2. QED
  BY <1>1, FS_CardinalityType DEF TypeOK, LagInv

LEMMA LagStep ==
  ASSUME IInv, LagInv, [Next]_vars
  PROVE  LagInv'
<1>1. TypeOK /\ TypeOK'
  BY NextIInv DEF IInv
<1>2. CASE UNCHANGED <<db, version, promise, writer>> /\ failures' \in {failures, failures + 1}
  <2>1. Due' = Due
    BY <1>2 DEF Due
  <2>2. ASSUME NEW p \in Pages
        PROVE  db'[p] <= promise'[version'][p] + Cardinality(Due)' + failures'
    BY <1>1, <1>2, <2>1, LagTypes DEF LagInv
  <2>3. QED
    BY <2>1, <2>2 DEF LagInv
<1>3. ASSUME NEW w \in Writers, NEW S \in SUBSET Pages, Save(w, S) PROVE LagInv'
  <2>1. /\ w \notin Due /\ UNCHANGED <<version, promise, failures>>
        /\ \A p \in Pages : db'[p] \in {db[p], db[p] + 1}
        /\ writer' = [writer EXCEPT ![w] = "saved"]
    BY <1>3 DEF Save, Due
  <2>2. Due' = Due \cup {w}
    BY <1>1, <2>1 DEF Due, TypeOK
  <2>3. IsFiniteSet(Due') /\ Cardinality(Due') = Cardinality(Due) + 1
    BY <2>1, <2>2, FS_AddElement DEF LagInv
  <2>4. ASSUME NEW p \in Pages
        PROVE  db'[p] <= promise'[version'][p] + Cardinality(Due') + failures'
    <3>1. db[p] <= promise[version][p] + Cardinality(Due) + failures
      BY DEF LagInv
    <3>2. QED
      BY <1>1, <2>1, <2>3, <3>1, LagTypes
  <2>5. QED
    BY <2>3, <2>4 DEF LagInv
<1>4. ASSUME NEW w \in Writers, Bump(w) PROVE LagInv'
  <2>1. /\ db' = db /\ writer' = [writer EXCEPT ![w] = "idle"] /\ failures' = failures
        /\ version' = version + 1 /\ version' \in 0..version'
    BY <1>1, <1>4 DEF Bump, TypeOK
  <2>2. promise'[version'] = db
    BY <1>4, <2>1 DEF Bump
  <2>3. Due' \subseteq Due
    BY <1>1, <2>1 DEF Due, TypeOK
  <2>4. IsFiniteSet(Due') /\ Cardinality(Due') \in Nat
    BY <2>3, FS_Subset, FS_CardinalityType DEF LagInv
  <2>5. \A p \in Pages : db'[p] <= promise'[version'][p] + Cardinality(Due') + failures'
    BY <1>1, <2>1, <2>2, <2>4 DEF TypeOK
  <2>6. QED
    BY <2>4, <2>5 DEF LagInv
<1>5. ASSUME NEW w \in Writers, BumpSwallowed(w) \/ WriteDies(w) PROVE LagInv'
  <2>1. /\ w \in Due /\ UNCHANGED <<db, version, promise>> /\ failures' = failures + 1
        /\ writer' = [writer EXCEPT ![w] = "idle"]
    BY <1>5 DEF BumpSwallowed, WriteDies, Fails, Due
  <2>2. Due' = Due \ {w}
    BY <1>1, <2>1 DEF Due, TypeOK
  <2>3. IsFiniteSet(Due') /\ Cardinality(Due') = Cardinality(Due) - 1
    BY <2>1, <2>2, FS_RemoveElement DEF LagInv
  <2>4. ASSUME NEW p \in Pages
        PROVE  db'[p] <= promise'[version'][p] + Cardinality(Due') + failures'
    <3>1. db[p] <= promise[version][p] + Cardinality(Due) + failures
      BY DEF LagInv
    <3>2. QED
      BY <1>1, <2>1, <2>3, <3>1, LagTypes
  <2>5. QED
    BY <2>3, <2>4 DEF LagInv
<1>6. QED
  BY <1>1, <1>2, <1>3, <1>4, <1>5, LagCases

\* What the catalogue shows from the cache is behind the database only by writes that are
\* not finished or whose increment was lost: with neither, a hit is what is stored
\* (getOrSet, bumpCacheVersion).
THEOREM LagBounded == Spec => []StalenessBounded
<1>1. Init => LagInv
  <2> SUFFICES ASSUME Init PROVE LagInv
    OBVIOUS
  <2>1. Due = {}
    BY DEF Init, Due
  <2>2. IsFiniteSet(Due) /\ Cardinality(Due) = 0
    BY <2>1, FS_EmptySet
  <2>3. QED
    BY <2>2 DEF Init, LagInv
<1>2. IInv /\ LagInv /\ [Next]_vars => LagInv'
  BY LagStep
<1>3. IInv /\ LagInv => StalenessBounded
  <2> SUFFICES ASSUME IInv, LagInv, NEW e \in entries, e.version = version
               PROVE  db[e.page] <= e.rev + Cardinality(Due) + failures
    BY DEF StalenessBounded
  <2>1. e.page \in Pages /\ e.rev \in Nat /\ promise[version][e.page] <= e.rev
    BY DEF IInv, TypeOK, Entry, EntryInv
  <2>2. db[e.page] <= promise[version][e.page] + Cardinality(Due) + failures
    BY <2>1 DEF LagInv
  <2>3. QED
    BY <2>1, <2>2, LagTypes DEF IInv
<1>4. QED
  BY <1>1, <1>2, <1>3, SpecIInv, PTL DEF Spec

----------------------------------------------------------------------------
(* What liveness rests on.                                                 *)

\* The calls a request can still come to, in the order in which it makes them.
Call == [started |-> 1, keyed |-> 2, missed |-> 3, fetched |-> 4, fallback |-> 5]

\* A request is for one page and one promise, and each call leads to a later one, to the
\* answer or to the end of the request: none is repeated.
ReadersForward ==
  [][\A r \in Readers :
       ~Free(r) /\ reader'[r] # reader[r] =>
         \/ reader'[r].pc \in {"idle", "served"}
         \/ /\ reader'[r].page = reader[r].page /\ reader'[r].floor = reader[r].floor
            /\ Call[reader[r].pc] < Call[reader'[r].pc]]_vars

\* A page costs a bounded number of calls whatever Redis does, so that a request is held up
\* by a call that does not end and by nothing else (getOrSet).
THEOREM ReadersComeForward == Spec => ReadersForward
<1> DEFINE Onward(r) == \/ reader'[r].pc \in {"idle", "served"}
                        \/ /\ reader'[r].page = reader[r].page /\ reader'[r].floor = reader[r].floor
                           /\ Call[reader[r].pc] < Call[reader'[r].pc]
<1>1. IInv /\ [Next]_vars => \A r \in Readers : ~Free(r) /\ reader'[r] # reader[r] => Onward(r)
  <2> SUFFICES ASSUME TypeOK, [Next]_vars, NEW r \in Readers, ~Free(r), reader'[r] # reader[r]
               PROVE  Onward(r)
    BY DEF IInv
  <2>1. reader[r] \in ReaderJob /\ reader \in [Readers -> ReaderJob \cup {Idle}]
    BY ReaderIsJob DEF Free, TypeOK
  <2>2. ASSUME NEW q \in Readers, NEW p \in Pages, Ask(q, p) PROVE FALSE
    BY <2>1, <2>2 DEF Ask, Start, StartUncached, Asked
  <2>3. ASSUME NEW q \in Readers, Read(q) PROVE Onward(r)
    <3>1. q = r
      BY <2>1, <2>3 DEF Read, ReadVersion, Hit, Miss, Fetch, Store, Fallback, Gets, Goes
    <3>2. CASE ReadVersion(q)
      BY <2>1, <3>1, <3>2 DEF ReadVersion, Call, ReaderJob
    <3>3. CASE Miss(q)
      BY <2>1, <3>1, <3>3 DEF Miss, Goes, Call, ReaderJob
    <3>4. CASE Fetch(q)
      BY <2>1, <3>1, <3>4 DEF Fetch, Call, ReaderJob
    <3>5. CASE Hit(q) \/ Store(q) \/ Fallback(q)
      <4>1. PICK rev : Gets(q, rev)
        BY <3>5 DEF Hit, Store, Fallback
      <4>2. reader'[r].pc = "served"
        BY <2>1, <3>1, <4>1 DEF Gets, ReaderJob
      <4>3. QED
        BY <4>2
    <3>6. QED
      BY <2>3, <3>2, <3>3, <3>4, <3>5 DEF Read
  <2>4. ASSUME NEW q \in Readers, ReadFails(q) PROVE Onward(r)
    <3>1. q = r
      BY <2>1, <2>4 DEF ReadFails, ConnectFails, ReadVersionFails, LookupFails, StoreFails,
                        ReaderDies, Goes
    <3>2. CASE ReadVersionFails(q)
      BY <2>1, <3>1, <3>2 DEF ReadVersionFails, Call, ReaderJob
    <3>3. CASE ConnectFails(q) \/ LookupFails(q) \/ StoreFails(q)
      BY <2>1, <3>1, <3>3 DEF ConnectFails, LookupFails, StoreFails, Goes, Call, ReaderJob
    <3>4. CASE ReaderDies(q)
      BY <2>1, <3>1, <3>4 DEF ReaderDies, Idle
    <3>5. QED
      BY <2>4, <3>2, <3>3, <3>4 DEF ReadFails
  <2>5. CASE UNCHANGED reader
    BY <2>5
  <2>6. UNCHANGED reader \/ \E q \in Readers : (\E p \in Pages : Ask(q, p)) \/ Read(q) \/ ReadFails(q)
    BY DEF Next, vars, Write, Save, Bump, BumpSwallowed, WriteDies, Expire
  <2>7. QED
    BY <2>2, <2>3, <2>4, <2>5, <2>6
<1>2. QED
  BY <1>1, SpecIInv, PTL DEF Spec, ReadersForward
=============================================================================
