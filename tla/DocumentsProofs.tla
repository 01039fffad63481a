-------------------------- MODULE DocumentsProofs ---------------------------
(***************************************************************************)
(* Proofs about Documents, for any users, requests, roles and limits.      *)
(***************************************************************************)
EXTENDS Documents, FiniteSetTheorems, TLAPS

Sends(p, stored, read, made) == IF made[p] # read[p] THEN made[p] ELSE stored[p]

\* What a save leaves of the document, field by field.
LEMMA SentFields ==
  ASSUME NEW stored \in UserDoc, NEW read \in UserDoc, NEW made \in UserDoc
  PROVE  /\ Sent(stored, read, made) \in UserDoc
         /\ Sent(stored, read, made).role = Sends("role", stored, read, made)
         /\ Sent(stored, read, made).active = Sends("active", stored, read, made)
         /\ Sent(stored, read, made).name = Sends("name", stored, read, made)
         /\ Sent(stored, read, made).attempts = Sends("attempts", stored, read, made)
         /\ Sent(stored, read, made).lockedUntil = Sends("lockedUntil", stored, read, made)
         /\ Sent(stored, read, made).addresses = stored.addresses
         /\ Sent(stored, read, made).wishlist = stored.wishlist
         /\ Sent(stored, read, made).version = stored.version
<1> DEFINE sent == Sent(stored, read, made)
<1>1. DOMAIN stored = {"role", "active", "name", "attempts", "lockedUntil", "addresses",
                       "wishlist", "version"}
  BY DEF UserDoc
<1>2. /\ sent.role = Sends("role", stored, read, made)
      /\ sent.active = Sends("active", stored, read, made)
      /\ sent.name = Sends("name", stored, read, made)
      /\ sent.attempts = Sends("attempts", stored, read, made)
      /\ sent.lockedUntil = Sends("lockedUntil", stored, read, made)
      /\ sent.addresses = stored.addresses
      /\ sent.wishlist = stored.wishlist
      /\ sent.version = stored.version
  BY <1>1 DEF Sent, Scalars, Sends
<1>3. sent \in UserDoc
  BY <1>1, <1>2 DEF Sent, UserDoc, Sends
<1>4. QED
  BY <1>2, <1>3

\* A document with other arrays and a new version.
LEMMA ArrayDocs ==
  ASSUME NEW e \in UserDoc, NEW addresses \in SUBSET Item, NEW wishlist \in [Item -> Nat]
  PROVE  /\ WithAddresses(e, addresses) \in UserDoc
         /\ WithAddresses(e, addresses).version = e.version + 1
         /\ WithAddresses(e, addresses).addresses = addresses
         /\ WithAddresses(e, addresses).wishlist = e.wishlist
         /\ WithWishlist(e, wishlist) \in UserDoc
         /\ WithWishlist(e, wishlist).version = e.version + 1
         /\ WithWishlist(e, wishlist).wishlist = wishlist
         /\ WithWishlist(e, wishlist).addresses = e.addresses
<1>1. e.version + 1 \in Nat
  BY DEF UserDoc
<1>2. QED
  BY <1>1 DEF UserDoc, WithAddresses, WithWishlist

LEMMA MinutesPositive ==
  ASSUME NEW n \in Nat
  PROVE  LockoutMinutes(n) \in Nat \ {0}
BY DocumentsAssumption DEF LockoutMinutes

LEMMA MadeDocs ==
  ASSUME NEW d \in UserDoc, NEW n \in Nat, n = now
  PROVE  /\ Failed(d) \in UserDoc
         /\ Failed(d).attempts = d.attempts + 1 /\ Failed(d).role = d.role
         /\ Failed(d).lockedUntil = IF d.attempts + 1 >= Threshold
                                    THEN now + LockoutMinutes(d.attempts + 1) ELSE d.lockedUntil
         /\ Succeeded(d) \in UserDoc
         /\ Succeeded(d).attempts = 0 /\ Succeeded(d).lockedUntil = 0 /\ Succeeded(d).role = d.role
<1>1. d.attempts + 1 \in Nat
  BY DEF UserDoc
<1>2. LockoutMinutes(d.attempts + 1) \in Nat
  BY <1>1, MinutesPositive
<1>3. (IF d.attempts + 1 >= Threshold THEN now + LockoutMinutes(d.attempts + 1) ELSE d.lockedUntil) \in Nat
  BY <1>2 DEF UserDoc
<1>4. QED
  BY <1>1, <1>3 DEF Failed, Succeeded, UserDoc

----------------------------------------------------------------------------
(***************************************************************************)
(* What every request knows of the documents it has read.                  *)
(***************************************************************************)
Arrays(d) == <<d.addresses, d.wishlist>>

\* d is what a request has read, e what is stored now.
ReadBefore(d, e) ==
  /\ d.version <= e.version
  /\ d.version = e.version => d.addresses = e.addresses /\ d.wishlist = e.wishlist

JobOK(j, docs, time, asked) ==
  /\ j.pc \in {"idle", "find", "approve", "save", "audit", "create"}
  /\ j.pc # "idle" => j.op \in asked /\ j.op \in Operations
  /\ j.pc = "find" => j.user \in User /\ j.actor \in User
  /\ j.pc = "approve" => j.op = "role" /\ j.actor \in User
  /\ j.pc \in {"approve", "save"} /\ j.op \in UserOperations
       => /\ j.user \in User /\ j.read \in UserDoc
          /\ ReadBefore(j.read, docs[j.user])
          /\ j.op = "login" => j.read.lockedUntil <= time
  /\ j.pc = "save" /\ j.op = "role"
       => j.role \in Roles /\ (NeedsSecond(j, j.role) => j.seconded)
  /\ j.pc = "save" /\ j.op = "reply" => j.was \in Ticket
  /\ j.pc \in {"save", "create"} /\ j.op = "settings" => j.pc = "create" \/ j.was \in Form
  /\ j.pc = "create" => j.op = "settings"

Rest ==
  /\ ticket \in Ticket /\ settings \in Settings /\ form \in Form
  /\ entries \in Nat /\ changes \in Nat
  /\ wrong \in [User -> Nat]
  /\ now \in 0..MaxTime /\ begun \in 0..MaxBegun /\ failures \in 0..MaxFailures

Types ==
  /\ user \in [User -> UserDoc]
  /\ Rest
  /\ request = [r \in Request |-> request[r]]

Base == Types /\ \A r \in Request : JobOK(request[r], user, now, offered)

\* Whatever is saved: no version goes back, and arrays change with the version only.
Onward ==
  /\ user' \in [User -> UserDoc]
  /\ \A u \in User : ReadBefore(user[u], user'[u])
  /\ now <= now' /\ offered' = offered

LEMMA ReadOn ==
  ASSUME NEW d \in UserDoc, NEW e \in UserDoc, NEW f \in UserDoc, ReadBefore(d, e), ReadBefore(e, f)
  PROVE  ReadBefore(d, f)
BY DEF ReadBefore, UserDoc

LEMMA JobKept ==
  ASSUME Base, Onward, NEW r \in Request, now' \in Nat
  PROVE  JobOK(request'[r], user', now', offered') \/ request'[r] # request[r]
<1> SUFFICES ASSUME request'[r] = request[r] PROVE JobOK(request'[r], user', now', offered')
  OBVIOUS
<1> DEFINE j == request[r]
<1>1. JobOK(j, user, now, offered)
  BY DEF Base
<1>2. CASE j.pc \in {"approve", "save"} /\ j.op \in UserOperations
  <2>1. j.user \in User /\ j.read \in UserDoc /\ ReadBefore(j.read, user[j.user])
    BY <1>1, <1>2 DEF JobOK
  <2>2. ReadBefore(j.read, user'[j.user])
    BY <2>1, ReadOn DEF Onward, Base, Types
  <2>3. j.op = "login" => j.read.lockedUntil <= now'
    BY <1>1, <1>2, <2>1, DocumentsAssumption DEF JobOK, Onward, Base, Types, Rest, UserDoc
  <2> HIDE DEF j
  <2>4. JobOK(j, user', now', offered')
    BY <1>1, <2>1, <2>2, <2>3 DEF JobOK, Onward
  <2>5. QED
    BY <2>4 DEF j, JobOK, Onward
<1>3. CASE ~(j.pc \in {"approve", "save"} /\ j.op \in UserOperations)
  BY <1>1, <1>3 DEF JobOK, Onward
<1>4. QED
  BY <1>2, <1>3

LEMMA JobStep ==
  ASSUME Base, Onward, now' \in Nat, NEW r \in Request, NEW j, Step(r, j), JobOK(j, user', now', offered')
  PROVE  /\ request' = [q \in Request |-> request'[q]]
         /\ \A q \in Request : JobOK(request'[q], user', now', offered')
<1>1. request = [q \in Request |-> request[q]]
  BY DEF Base, Types
<1>2. request' = [q \in Request |-> IF q = r THEN j ELSE request[q]]
  BY <1>1 DEF Step
<1>3. ASSUME NEW q \in Request PROVE JobOK(request'[q], user', now', offered')
  <2>1. CASE q = r
    BY <1>2, <2>1
  <2>2. CASE q # r
    BY <1>2, <2>2, JobKept
  <2>3. QED
    BY <2>1, <2>2
<1>4. QED
  BY <1>2, <1>3

LEMMA BaseStep ==
  ASSUME Base, Onward, Rest', NEW r \in Request, NEW j, Step(r, j), JobOK(j, user', now', offered')
  PROVE  Base'
<1>1. now' \in Nat
  BY DocumentsAssumption DEF Rest
<1>2. QED
  BY <1>1, JobStep DEF Base, Types, Onward

LEMMA QuietOnward ==
  ASSUME Base, UNCHANGED <<user, now, offered>>
  PROVE  Onward
BY DocumentsAssumption DEF Onward, Base, Types, Rest, ReadBefore, UserDoc

LEMMA SaveOnward ==
  ASSUME Base, UNCHANGED <<now, offered>>, NEW u \in User, NEW d \in UserDoc,
         user' = [user EXCEPT ![u] = d], ReadBefore(user[u], d)
  PROVE  Onward
<1>1. \A v \in User : user[v] \in UserDoc /\ ReadBefore(user[v], user[v])
  BY DEF Base, Types, ReadBefore, UserDoc
<1>2. QED
  BY <1>1, DocumentsAssumption DEF Onward, Base, Types, Rest

\* Saving scalars leaves version and arrays as they are stored.
LEMMA ScalarsOnward ==
  ASSUME Base, UNCHANGED <<now, offered>>, NEW u \in User, NEW read \in UserDoc, NEW made \in UserDoc,
         SaveScalars(u, read, made)
  PROVE  Onward
<1> DEFINE sent == Sent(user[u], read, made)
<1>1. user[u] \in UserDoc
  BY DEF Base, Types
<1>2. sent \in UserDoc /\ ReadBefore(user[u], sent)
  BY <1>1, SentFields DEF ReadBefore, UserDoc
<1>3. user' = [user EXCEPT ![u] = sent]
  BY DEF SaveScalars
<1> HIDE DEF sent
<1>4. QED
  BY <1>2, <1>3, SaveOnward

LEMMA BlankOK == JobOK(Blank, user', now', offered') /\ JobOK(Blank, user, now, offered)
BY DEF JobOK, Blank

LEMMA SavingFacts ==
  ASSUME Base, NEW r \in Request, NEW op \in UserOperations, Saving(r, op)
  PROVE  /\ request[r].user \in User /\ request[r].read \in UserDoc
         /\ ReadBefore(request[r].read, user[request[r].user])
         /\ request[r].op = op /\ request[r].pc = "save" /\ op \in offered
BY DEF Base, JobOK, Saving, Busy, Idle

LEMMA InitBase == Init => Base
<1> SUFFICES ASSUME Init PROVE Base
  OBVIOUS
<1>1. PICK roles \in Staffing : user = [u \in User |-> NewUser(roles[u])]
  BY DEF Init
<1>2. ASSUME NEW u \in User PROVE NewUser(roles[u]) \in UserDoc
  <2>1. roles[u] \in Roles
    BY <1>1, DocumentsAssumption
  <2>2. (CHOOSE n \in Names : TRUE) \in Names
    BY DocumentsAssumption
  <2>3. [i \in Item |-> 0] \in [Item -> Nat]
    OBVIOUS
  <2>4. QED
    BY <2>1, <2>2, <2>3 DEF NewUser, UserDoc
<1>3. user \in [User -> UserDoc]
  BY <1>1, <1>2
<1>4. Rest
  BY DocumentsAssumption DEF Init, Rest, Ticket, Statuses, Settings, Form, Defaults
<1>5. request = [r \in Request |-> request[r]] /\ \A r \in Request : request[r] = Blank
  BY DEF Init
<1>6. QED
  BY <1>3, <1>4, <1>5, BlankOK DEF Base, Types

(***************************************************************************)
(* A request begins and reads.                                             *)
(***************************************************************************)
LEMMA BeginBase ==
  ASSUME Base, NEW r \in Request, NEW a \in User, NEW op \in Operations, NEW u \in User,
         Begin(r, a, op, u)
  PROVE  Base'
<1> DEFINE j == [pc |-> "find", op |-> op, actor |-> a, user |-> u]
<1>1. /\ Step(r, j) /\ op \in offered /\ begun < MaxBegun /\ begun' = begun + 1
      /\ UNCHANGED <<documents, offered, now, failures, history>>
  BY DEF Begin
<1>2. j.pc = "find" /\ j.op = op /\ j.actor = a /\ j.user = u
  OBVIOUS
<1> HIDE DEF j
<1>3. Rest' /\ Onward
  BY <1>1, QuietOnward, DocumentsAssumption DEF Base, Types, Rest, documents, history
<1>4. JobOK(j, user', now', offered')
  BY <1>1, <1>2 DEF JobOK
<1>5. QED
  BY <1>1, <1>3, <1>4, BaseStep

LEMMA FindBase ==
  ASSUME Base, NEW r \in Request, Find(r)
  PROVE  Base'
<1> DEFINE old == request[r]
           j == [pc |-> IF old.op = "role" THEN "approve" ELSE "save", op |-> old.op,
                 actor |-> old.actor, user |-> old.user, read |-> user[old.user]]
<1>1. /\ old.pc = "find" /\ old.op \in UserOperations
      /\ old.op = "login" => user[old.user].lockedUntil <= now
      /\ Step(r, j)
      /\ UNCHANGED <<documents, offered, now, begun, failures, wrong, changes, form, mixed>>
  BY DEF Find
<1>2. /\ j.pc = (IF old.op = "role" THEN "approve" ELSE "save") /\ j.op = old.op
      /\ j.actor = old.actor /\ j.user = old.user /\ j.read = user[old.user]
  OBVIOUS
<1>3. old.user \in User /\ old.actor \in User /\ old.op \in offered /\ old.op \in Operations
  BY <1>1 DEF Base, JobOK
<1> HIDE DEF j
<1>4. Onward
  BY <1>1, QuietOnward DEF documents
<1>9. Rest'
  BY <1>1 DEF Base, Types, Rest, documents
<1>5. j.read \in UserDoc /\ ReadBefore(j.read, user[old.user])
  BY <1>2, <1>3 DEF Base, Types, ReadBefore, UserDoc
<1>6. user' = user /\ now' = now /\ offered' = offered
  BY <1>1 DEF documents
<1>7. JobOK(j, user', now', offered')
  BY <1>1, <1>2, <1>3, <1>5, <1>6 DEF JobOK, UserOperations
<1>8. QED
  BY <1>1, <1>4, <1>7, <1>9, BaseStep

\* A request that ends, or only changes itself, and saves nothing.
LEMMA IdleBase ==
  ASSUME Base, NEW r \in Request,
         FindLocked(r) \/ Refuse(r) \/ VersionError(r) \/ CreateFails(r) \/ Dies(r)
  PROVE  Base'
<1>1. Step(r, Blank) /\ UNCHANGED <<documents, offered, now, begun, history>>
  BY DEF FindLocked, Refuse, VersionError, CreateFails, Dies, Edited, documents, history
<1>2. failures' \in 0..MaxFailures
  BY DocumentsAssumption
     DEF FindLocked, Refuse, VersionError, CreateFails, Dies, Edited, Base, Types, Rest
<1>3. Rest'
  BY <1>1, <1>2 DEF Base, Types, Rest, documents, history
<1>4. Onward
  BY <1>1, QuietOnward DEF documents
<1>5. QED
  BY <1>1, <1>3, <1>4, BlankOK, BaseStep

(***************************************************************************)
(* Logging in and the administration of users.                             *)
(***************************************************************************)
LEMMA PasswordBase ==
  ASSUME Base, NEW r \in Request, WrongPassword(r) \/ RightPassword(r)
  PROVE  Base' /\ Onward
<1> DEFINE old == request[r]
<1>1. /\ Step(r, Blank) /\ UNCHANGED <<ticket, settings, entries, offered, now, begun, failures,
                                       changes, form>>
      /\ Saving(r, "login")
  BY DEF WrongPassword, RightPassword
<1>2. old.user \in User /\ old.read \in UserDoc
  BY <1>1, SavingFacts DEF UserOperations
<1>3. now \in Nat
  BY DocumentsAssumption DEF Base, Types, Rest
<1>4. Onward
  BY <1>1, <1>2, <1>3, MadeDocs, ScalarsOnward DEF WrongPassword, RightPassword
<1>5. wrong' \in [User -> Nat]
  BY <1>2 DEF WrongPassword, RightPassword, Base, Types, Rest
<1>6. Rest'
  BY <1>1, <1>5 DEF Base, Types, Rest
<1>7. QED
  BY <1>1, <1>4, <1>6, BlankOK, BaseStep

LEMMA ApproveBase ==
  ASSUME Base, NEW r \in Request, NEW role \in Granted, NEW approver \in User, Approve(r, role, approver)
  PROVE  Base'
<1> DEFINE old == request[r]
           seconded == approver # old.actor /\ user[approver].role = "super_admin"
           j == [pc |-> "save", op |-> "role", actor |-> old.actor, user |-> old.user,
                 read |-> old.read, role |-> role, seconded |-> seconded]
<1>1. /\ old.pc = "approve"
      /\ NeedsSecond(old, role) => seconded
      /\ Step(r, j) /\ UNCHANGED <<documents, offered, now, begun, failures, history>>
  BY DEF Approve, IsSecond
<1>2. /\ j.pc = "save" /\ j.op = "role" /\ j.user = old.user /\ j.read = old.read
      /\ j.role = role /\ (j.seconded <=> seconded)
  OBVIOUS
<1>3. JobOK(old, user, now, offered)
  BY DEF Base
<1> HIDE DEF j, seconded
<1>4. Onward
  BY <1>1, QuietOnward DEF documents
<1>5. Rest'
  BY <1>1 DEF Base, Types, Rest, documents, history
<1>6. NeedsSecond(j, j.role) => j.seconded
  <2>1. NeedsSecond(j, j.role) => NeedsSecond(old, role)
    BY <1>2 DEF NeedsSecond
  <2>2. QED
    BY <1>1, <1>2, <2>1
<1>7. role \in Roles
  BY DocumentsAssumption
<1>8. user' = user /\ now' = now /\ offered' = offered
  BY <1>1 DEF documents
<1>9. JobOK(j, user', now', offered')
  BY <1>1, <1>2, <1>3, <1>6, <1>7, <1>8 DEF JobOK, Operations, UserOperations
<1>10. QED
  BY <1>1, <1>4, <1>5, <1>9, BaseStep

\* What is saved is next entered in the audit log.
LEMMA AuditOK ==
  ASSUME Base, NEW r \in Request, request[r].pc # "idle", offered' = offered, ThenAudit(r)
  PROVE  /\ \E j : Step(r, j) /\ j.pc = "audit" /\ JobOK(j, user', now', offered')
         /\ changes' \in Nat
<1> DEFINE j == [pc |-> "audit", op |-> request[r].op]
<1>1. Step(r, j) /\ j.pc = "audit" /\ j.op = request[r].op
  BY DEF ThenAudit
<1>2. request[r].op \in offered /\ request[r].op \in Operations
  BY DEF Base, JobOK
<1> HIDE DEF j
<1>3. JobOK(j, user', now', offered')
  BY <1>1, <1>2 DEF JobOK
<1>4. changes' \in Nat
  BY DEF ThenAudit, Base, Types, Rest
<1>5. QED
  BY <1>1, <1>3, <1>4

LEMMA AdminBase ==
  ASSUME Base, NEW r \in Request, SaveRole(r) \/ SaveActive(r)
  PROVE  Base' /\ Onward
<1> DEFINE old == request[r]
<1>1. /\ ThenAudit(r)
      /\ UNCHANGED <<ticket, settings, entries, offered, now, begun, failures, wrong, form>>
      /\ Saving(r, "role") \/ Saving(r, "active")
  BY DEF SaveRole, SaveActive
<1>2. old.user \in User /\ old.read \in UserDoc /\ old.pc = "save"
  BY <1>1, SavingFacts DEF UserOperations
<1>3. PICK made \in UserDoc : SaveScalars(old.user, old.read, made)
  <2>1. CASE SaveRole(r)
    <3>1. old.role \in Roles
      BY <2>1 DEF SaveRole, Saving, Busy, Base, JobOK
    <3>2. [old.read EXCEPT !.role = old.role] \in UserDoc
      BY <1>2, <3>1 DEF UserDoc
    <3>3. QED
      BY <2>1, <3>2 DEF SaveRole
  <2>2. CASE SaveActive(r)
    <3>1. [old.read EXCEPT !.active = ~@] \in UserDoc
      BY <1>2 DEF UserDoc
    <3>2. QED
      BY <2>2, <3>1 DEF SaveActive
  <2>3. QED
    BY <2>1, <2>2
<1>4. Onward
  BY <1>1, <1>2, <1>3, ScalarsOnward
<1>5. PICK j : Step(r, j) /\ JobOK(j, user', now', offered')
  BY <1>1, <1>2, AuditOK
<1>6. Rest'
  BY <1>1, <1>2, AuditOK DEF Base, Types, Rest
<1>7. QED
  BY <1>4, <1>5, <1>6, BaseStep

LEMMA AuditBase ==
  ASSUME Base, NEW r \in Request, Audit(r)
  PROVE  Base'
<1>1. /\ Step(r, Blank) /\ entries' = entries + 1
      /\ UNCHANGED <<user, ticket, settings, offered, now, begun, failures, history>>
  BY DEF Audit
<1>2. Onward
  BY <1>1, QuietOnward
<1>3. Rest'
  BY <1>1 DEF Base, Types, Rest, history
<1>4. QED
  BY <1>1, <1>2, <1>3, BlankOK, BaseStep

(***************************************************************************)
(* The account.                                                            *)
(***************************************************************************)
Account(r) ==
  \/ \E name \in Names : SaveProfile(r, name)
  \/ \E i \in Item : AddAddress(r, i) \/ DeleteAddress(r, i)
                     \/ AddToWishlist(r, i) \/ RemoveFromWishlist(r, i)

LEMMA AccountOnward ==
  ASSUME Base, NEW r \in Request, Account(r)
  PROVE  Onward
<1> DEFINE old == request[r]
           u == old.user
<1>1. UNCHANGED <<offered, now>>
  BY DEF Account, SaveProfile, AddAddress, DeleteAddress, AddToWishlist, RemoveFromWishlist, Edited
<1>2. /\ u \in User /\ old.read \in UserDoc /\ user[u] \in UserDoc
      /\ user[u].version \in Nat /\ user[u].addresses \in SUBSET Item
      /\ user[u].wishlist \in [Item -> Nat]
      /\ old.read.addresses \in SUBSET Item /\ old.read.wishlist \in [Item -> Nat]
  <2>1. u \in User /\ old.read \in UserDoc
    BY SavingFacts DEF Account, SaveProfile, AddAddress, DeleteAddress, AddToWishlist,
                       RemoveFromWishlist, UserOperations
  <2>2. QED
    BY <2>1 DEF UserDoc, Base, Types
<1>4. CASE \E name \in Names : SaveProfile(r, name)
  <2>1. PICK name \in Names : SaveScalars(u, old.read, [old.read EXCEPT !.name = name])
    BY <1>4 DEF SaveProfile
  <2>2. [old.read EXCEPT !.name = name] \in UserDoc
    BY <1>2 DEF UserDoc
  <2>3. QED
    BY <1>1, <1>2, <2>1, <2>2, ScalarsOnward
<1>5. CASE user' = user
  BY <1>1, <1>5, QuietOnward
<1>6. ASSUME NEW d \in UserDoc, user' = [user EXCEPT ![u] = d], d.version = user[u].version + 1
      PROVE  Onward
  <2>1. ReadBefore(user[u], d)
    BY <1>2, <1>6 DEF ReadBefore
  <2>2. QED
    BY <1>1, <1>2, <1>6, <2>1, SaveOnward
<1>8. ASSUME NEW addresses \in SUBSET Item,
             user' = [user EXCEPT ![u] = WithAddresses(user[u], addresses)]
      PROVE  Onward
  BY <1>2, <1>6, <1>8, ArrayDocs
<1>9. ASSUME NEW wishlist \in [Item -> Nat],
             user' = [user EXCEPT ![u] = WithWishlist(user[u], wishlist)]
      PROVE  Onward
  BY <1>2, <1>6, <1>9, ArrayDocs
<1>10. CASE \E i \in Item : AddAddress(r, i) \/ DeleteAddress(r, i)
  <2>1. PICK i \in Item : AddAddress(r, i) \/ DeleteAddress(r, i)
    BY <1>10
  <2>2. /\ user[u].addresses \cup {i} \in SUBSET Item
        /\ old.read.addresses \ {i} \in SUBSET Item
    BY <1>2
  <2>3. CASE AddAddress(r, i)
    <3>1. user' = [user EXCEPT ![u] = WithAddresses(user[u], user[u].addresses \cup {i})]
      BY <1>2, <2>3 DEF AddAddress, Base, Types
    <3>2. QED
      BY <1>8, <2>2, <3>1
  <2>4. CASE DeleteAddress(r, i)
    <3>1. \/ user' = user
          \/ user' = [user EXCEPT ![u] = WithAddresses(user[u], old.read.addresses \ {i})]
      BY <1>2, <2>4 DEF DeleteAddress, Base, Types
    <3>2. QED
      BY <1>5, <1>8, <2>2, <3>1
  <2>5. QED
    BY <2>1, <2>3, <2>4
<1>11. CASE \E i \in Item : AddToWishlist(r, i) \/ RemoveFromWishlist(r, i)
  <2>1. PICK i \in Item : AddToWishlist(r, i) \/ RemoveFromWishlist(r, i)
    BY <1>11
  <2>2. /\ Pushed(user[u].wishlist, i) \in [Item -> Nat]
        /\ [old.read.wishlist EXCEPT ![i] = 0] \in [Item -> Nat]
    BY <1>2 DEF Pushed
  <2>3. CASE AddToWishlist(r, i)
    <3>1. user' = [user EXCEPT ![u] = WithWishlist(user[u], Pushed(user[u].wishlist, i))]
      BY <2>3 DEF AddToWishlist
    <3>2. QED
      BY <1>9, <2>2, <3>1
  <2>4. CASE RemoveFromWishlist(r, i)
    <3>1. user' = [user EXCEPT ![u] = WithWishlist(user[u], [old.read.wishlist EXCEPT ![i] = 0])]
      BY <2>4 DEF RemoveFromWishlist
    <3>2. QED
      BY <1>9, <2>2, <3>1
  <2>5. QED
    BY <2>1, <2>3, <2>4
<1>12. QED
  BY <1>4, <1>10, <1>11 DEF Account

LEMMA AccountBase ==
  ASSUME Base, NEW r \in Request, Account(r)
  PROVE  Base'
<1>1. /\ Step(r, Blank)
      /\ UNCHANGED <<ticket, settings, entries, offered, now, begun, failures, history>>
  BY DEF Account, SaveProfile, AddAddress, DeleteAddress, AddToWishlist, RemoveFromWishlist, Edited
<1>2. Rest'
  BY <1>1 DEF Base, Types, Rest, history
<1>3. QED
  BY <1>1, <1>2, AccountOnward, BlankOK, BaseStep

(***************************************************************************)
(* The ticket and the settings.                                            *)
(***************************************************************************)
LEMMA FindTicketBase ==
  ASSUME Base, NEW r \in Request, FindTicket(r)
  PROVE  Base'
<1> DEFINE j == [pc |-> "save", op |-> "reply", was |-> ticket]
<1>1. /\ Step(r, j) /\ Busy(r, "reply")
      /\ UNCHANGED <<documents, offered, now, begun, failures, history>>
  BY DEF FindTicket
<1>2. j.pc = "save" /\ j.op = "reply" /\ j.was = ticket
  OBVIOUS
<1> HIDE DEF j
<1>3. "reply" \in offered
  BY <1>1 DEF Base, JobOK, Busy, Idle
<1>4. Rest' /\ Onward
  BY <1>1, QuietOnward DEF Base, Types, Rest, documents, history
<1>5. JobOK(j, user', now', offered')
  BY <1>1, <1>2, <1>3 DEF JobOK, Operations, UserOperations, Base, Types, Rest
<1>6. QED
  BY <1>1, <1>4, <1>5, BaseStep

LEMMA ReplyBase ==
  ASSUME Base, NEW r \in Request, NEW status, Reply(r, status)
  PROVE  Base'
<1>1. /\ Step(r, Blank)
      /\ UNCHANGED <<user, settings, entries, offered, now, begun, failures, history>>
  BY DEF Reply
<1>2. ticket' \in Ticket
  <2>1. ticket.status \in Statuses /\ ticket.messages + 1 \in Nat
    BY DEF Base, Types, Rest, Ticket
  <2>2. Valid(status) => \E s \in Statuses : ticket' = [status |-> s, messages |-> ticket.messages + 1]
    BY <2>1 DEF Reply, Valid
  <2>3. ~Valid(status) => ticket' = ticket
    BY DEF Reply
  <2>4. QED
    BY <2>1, <2>2, <2>3 DEF Ticket, Base, Types, Rest
<1>3. Rest'
  BY <1>1, <1>2 DEF Base, Types, Rest, history
<1>4. QED
  BY <1>1, <1>3, QuietOnward, BlankOK, BaseStep

LEMMA FormTypes ==
  /\ Defaults \in Form
  /\ \A d \in Settings : d.form \in Form
  /\ \A was, wanted \in Form : settings \in Settings => Switched(was, wanted) \in Form
BY DEF Defaults, Form, Settings, Switched

LEMMA SettingsJobs ==
  ASSUME Base, NEW r \in Request, Busy(r, "settings") \/ request[r].pc = "create"
  PROVE  "settings" \in offered /\ (Saving(r, "settings") => request[r].was \in Form)
BY DEF Base, JobOK, Busy, Idle, Saving

LEMMA FindSettingsBase ==
  ASSUME Base, NEW r \in Request, FindSettings(r)
  PROVE  Base'
<1>1. /\ Busy(r, "settings") /\ UNCHANGED <<documents, offered, now, begun, failures>>
      /\ UNCHANGED <<wrong, changes, form>>
  BY DEF FindSettings
<1>2. Rest' /\ Onward
  BY <1>1, QuietOnward DEF Base, Types, Rest, documents
<1>3. PICK j : /\ Step(r, j) /\ j.op = "settings"
               /\ (j.pc = "save" /\ j.was = settings.form) \/ j.pc = "create"
  <2>1. CASE settings.exists
    BY <2>1 DEF FindSettings
  <2>2. CASE ~settings.exists
    BY <2>2 DEF FindSettings
  <2>3. QED
    BY <2>1, <2>2
<1>4. settings.form \in Form
  BY FormTypes DEF Base, Types, Rest
<1>5. JobOK(j, user', now', offered')
  BY <1>1, <1>3, <1>4, SettingsJobs DEF JobOK, Operations, UserOperations
<1>6. QED
  BY <1>2, <1>3, <1>5, BaseStep

LEMMA CreateSettingsBase ==
  ASSUME Base, NEW r \in Request, CreateSettings(r)
  PROVE  Base'
<1> DEFINE j == [pc |-> "save", op |-> "settings", was |-> Defaults]
<1>1. /\ Step(r, j) /\ request[r].pc = "create" /\ settings' = [exists |-> TRUE, form |-> Defaults]
      /\ UNCHANGED <<user, ticket, entries, offered, now, begun, failures, history>>
  BY DEF CreateSettings
<1>2. j.pc = "save" /\ j.op = "settings" /\ j.was = Defaults
  OBVIOUS
<1> HIDE DEF j
<1>3. Rest' /\ Onward
  BY <1>1, FormTypes, QuietOnward DEF Base, Types, Rest, history, Settings
<1>4. JobOK(j, user', now', offered')
  BY <1>1, <1>2, FormTypes, SettingsJobs DEF JobOK, Operations, UserOperations
<1>5. QED
  BY <1>1, <1>3, <1>4, BaseStep

LEMMA SaveSettingsBase ==
  ASSUME Base, NEW r \in Request, NEW wanted \in Form, SaveSettings(r, wanted)
  PROVE  Base'
<1>1. /\ Saving(r, "settings") /\ ThenAudit(r) /\ form' = wanted
      /\ settings' = [settings EXCEPT !.form = Switched(request[r].was, wanted)]
      /\ UNCHANGED <<user, ticket, entries, offered, now, begun, failures, wrong>>
  BY DEF SaveSettings
<1>2. request[r].was \in Form /\ request[r].pc # "idle"
  BY <1>1, SettingsJobs DEF Saving, Busy
<1>3. settings' \in Settings
  BY <1>1, <1>2, FormTypes DEF Base, Types, Rest, Settings
<1>4. PICK j : Step(r, j) /\ JobOK(j, user', now', offered')
  BY <1>1, <1>2, AuditOK
<1>5. Rest'
  BY <1>1, <1>2, <1>3, AuditOK DEF Base, Types, Rest
<1>6. QED
  BY <1>1, <1>4, <1>5, QuietOnward, BaseStep

LEMMA TickBase ==
  ASSUME Base, Tick
  PROVE  Base'
<1>1. /\ now' = now + 1 /\ now < MaxTime /\ now \in Nat
      /\ UNCHANGED <<documents, request, offered, begun, failures, history>>
  BY DocumentsAssumption DEF Tick, Base, Types, Rest
<1>2. Rest'
  BY <1>1, DocumentsAssumption DEF Base, Types, Rest, documents, history
<1>3. Onward
  BY <1>1, DocumentsAssumption DEF Onward, documents, Base, Types, ReadBefore, UserDoc
<1>4. ASSUME NEW r \in Request PROVE JobOK(request'[r], user', now', offered')
  BY <1>1, <1>3, JobKept
<1>5. QED
  BY <1>1, <1>2, <1>4 DEF Base, Types, documents

LEMMA NextBase == Base /\ [Next]_vars => Base'
<1> SUFFICES ASSUME Base, [Next]_vars PROVE Base'
  OBVIOUS
<1>1. CASE UNCHANGED vars
  BY <1>1 DEF vars, Base, Types, Rest
<1>2. CASE Tick
  BY <1>2, TickBase
<1>3. ASSUME NEW r \in Request, \E a \in User, op \in Operations, u \in User : Begin(r, a, op, u)
      PROVE  Base'
  BY <1>3, BeginBase
<1>4. ASSUME NEW r \in Request, Serve(r) PROVE Base'
  <2>1. CASE \/ Find(r) \/ FindLocked(r) \/ Refuse(r) \/ VersionError(r) \/ CreateFails(r) \/ Dies(r)
             \/ WrongPassword(r) \/ RightPassword(r) \/ SaveRole(r) \/ SaveActive(r) \/ Audit(r)
    BY <2>1, FindBase, IdleBase, PasswordBase, AdminBase, AuditBase
  <2>2. CASE \E role \in Granted, approver \in User : Approve(r, role, approver)
    BY <2>2, ApproveBase
  <2>3. CASE Account(r)
    BY <2>3, AccountBase
  <2>4. CASE \/ FindTicket(r) \/ (\E status \in Statuses \cup {"", "other"} : Reply(r, status))
             \/ FindSettings(r) \/ CreateSettings(r) \/ \E wanted \in Form : SaveSettings(r, wanted)
    BY <2>4, FindTicketBase, ReplyBase, FindSettingsBase, CreateSettingsBase, SaveSettingsBase
  <2>5. QED
    BY <1>4, <2>1, <2>2, <2>3, <2>4 DEF Serve, Account
<1>5. QED
  BY <1>1, <1>2, <1>3, <1>4 DEF Next

LEMMA SpecBase == Spec => []Base
BY InitBase, NextBase, PTL DEF Spec

(***************************************************************************)
(* Every document keeps its type, whatever is interleaved.                 *)
(***************************************************************************)
THEOREM DocumentTypes == Spec => []TypeOK
<1>1. Base => TypeOK
  BY DEF Base, Types, Rest, TypeOK, JobOK, Idle
<1>2. QED
  BY <1>1, SpecBase, PTL

----------------------------------------------------------------------------
(***************************************************************************)
(* What a step does to the document of one user.                           *)
(***************************************************************************)
SavesUser(r) ==
  WrongPassword(r) \/ RightPassword(r) \/ SaveRole(r) \/ SaveActive(r) \/ Account(r)

LEMMA WhoSaves ==
  ASSUME [Next]_vars
  PROVE  user' = user \/ \E r \in Request : SavesUser(r)
<1>1. CASE UNCHANGED vars
  BY <1>1 DEF vars
<1>2. CASE Tick
  BY <1>2 DEF Tick, documents
<1>3. ASSUME NEW r \in Request, \E a \in User, op \in Operations, u \in User : Begin(r, a, op, u)
      PROVE  user' = user
  BY <1>3 DEF Begin, documents
<1>4. ASSUME NEW r \in Request, Serve(r) PROVE user' = user \/ SavesUser(r)
  <2>1. CASE FindTicket(r) \/ FindSettings(r) \/ CreateSettings(r) \/ CreateFails(r) \/ Dies(r)
             \/ Find(r) \/ FindLocked(r) \/ Refuse(r) \/ Audit(r) \/ VersionError(r)
    BY <2>1 DEF FindTicket, FindSettings, CreateSettings, CreateFails, Dies, Find, FindLocked, Refuse,
                Audit, VersionError, documents
  <2>2. CASE \/ \E status \in Statuses \cup {"", "other"} : Reply(r, status)
             \/ \E wanted \in Form : SaveSettings(r, wanted)
             \/ \E role \in Granted, approver \in User : Approve(r, role, approver)
    BY <2>2 DEF Reply, SaveSettings, Approve, documents
  <2>3. QED
    BY <1>4, <2>1, <2>2 DEF Serve, SavesUser, Account
<1>5. QED
  BY <1>1, <1>2, <1>3, <1>4 DEF Next

LEMMA ScalarsAt ==
  ASSUME Base, NEW u \in User, NEW read, NEW made, SaveScalars(u, read, made), NEW v \in User
  PROVE  user'[v] = IF v = u THEN Sent(user[u], read, made) ELSE user[v]
BY DEF SaveScalars, Base, Types

\* The fields that only logins and changes of roles touch.
SameGuards(d, e) == e.role = d.role /\ e.attempts = d.attempts /\ e.lockedUntil = d.lockedUntil

LEMMA ArrayGuards ==
  ASSUME NEW d \in UserDoc, NEW addresses, NEW wishlist
  PROVE  SameGuards(d, WithAddresses(d, addresses)) /\ SameGuards(d, WithWishlist(d, wishlist))
BY DEF SameGuards, WithAddresses, WithWishlist, UserDoc

LEMMA OthersGuards ==
  ASSUME Base, NEW r \in Request, SaveActive(r) \/ Account(r), NEW v \in User
  PROVE  SameGuards(user[v], user'[v])
<1> DEFINE u == request[r].user
           read == request[r].read
<1>1. u \in User /\ read \in UserDoc
  BY SavingFacts DEF SaveActive, Account, SaveProfile, AddAddress, DeleteAddress, AddToWishlist,
                     RemoveFromWishlist, UserOperations
<1>2. user[u] \in UserDoc /\ user[v] \in UserDoc
  BY <1>1 DEF Base, Types
<1>3. SameGuards(user[v], user[v])
  BY DEF SameGuards
<1> HIDE DEF u, read
<1>4. ASSUME NEW made \in UserDoc, SameGuards(read, made), SaveScalars(u, read, made)
      PROVE  SameGuards(user[v], user'[v])
  <2>1. user'[v] = IF v = u THEN Sent(user[u], read, made) ELSE user[v]
    BY <1>1, <1>4, ScalarsAt
  <2>2. SameGuards(user[u], Sent(user[u], read, made))
    BY <1>1, <1>2, <1>4, SentFields DEF SameGuards, Sends
  <2>3. QED
    BY <1>3, <2>1, <2>2
<1>5. ASSUME NEW d, SameGuards(user[u], d), user' = [user EXCEPT ![u] = d]
      PROVE  SameGuards(user[v], user'[v])
  BY <1>1, <1>3, <1>5 DEF Base, Types
<1>6. CASE SaveActive(r)
  <2>1. SaveScalars(u, read, [read EXCEPT !.active = ~@])
    BY <1>6 DEF SaveActive, u, read
  <2>2. [read EXCEPT !.active = ~@] \in UserDoc /\ SameGuards(read, [read EXCEPT !.active = ~@])
    BY <1>1 DEF UserDoc, SameGuards
  <2>3. QED
    BY <1>4, <2>1, <2>2
<1>7. CASE \E name \in Names : SaveProfile(r, name)
  <2>1. PICK name \in Names : SaveScalars(u, read, [read EXCEPT !.name = name])
    BY <1>7 DEF SaveProfile, u, read
  <2>2. [read EXCEPT !.name = name] \in UserDoc /\ SameGuards(read, [read EXCEPT !.name = name])
    BY <1>1 DEF UserDoc, SameGuards
  <2>3. QED
    BY <1>4, <2>1, <2>2
<1>8. CASE \E i \in Item : AddAddress(r, i) \/ DeleteAddress(r, i)
                           \/ AddToWishlist(r, i) \/ RemoveFromWishlist(r, i)
  <2>1. PICK d : user' = user \/ (user' = [user EXCEPT ![u] = d] /\ SameGuards(user[u], d))
    <3>1. PICK i \in Item : AddAddress(r, i) \/ DeleteAddress(r, i)
                            \/ AddToWishlist(r, i) \/ RemoveFromWishlist(r, i)
      BY <1>8
    <3>2. \/ user' = user
          \/ \E addresses : user' = [user EXCEPT ![u] = WithAddresses(@, addresses)]
          \/ \E wishlist : user' = [user EXCEPT ![u] = WithWishlist(@, wishlist)]
      BY <3>1 DEF AddAddress, DeleteAddress, AddToWishlist, RemoveFromWishlist, u
    <3>3. QED
      BY <1>2, <3>2, ArrayGuards
  <2>2. QED
    BY <1>3, <1>5, <2>1
<1>9. QED
  BY <1>6, <1>7, <1>8 DEF Account

\* A login changes no role, a change of a role no lock and no counter.
LEMMA LoginRole ==
  ASSUME Base, NEW r \in Request, WrongPassword(r) \/ RightPassword(r), NEW v \in User
  PROVE  user'[v].role = user[v].role /\ (v # request[r].user => user'[v] = user[v])
<1> DEFINE u == request[r].user
           read == request[r].read
<1>1. u \in User /\ read \in UserDoc /\ user[u] \in UserDoc /\ now \in Nat
  BY SavingFacts, DocumentsAssumption
     DEF WrongPassword, RightPassword, UserOperations, Base, Types, Rest
<1>2. PICK made \in UserDoc : made.role = read.role /\ SaveScalars(u, read, made)
  BY <1>1, MadeDocs DEF WrongPassword, RightPassword
<1>3. Sent(user[u], read, made).role = user[u].role
  BY <1>1, <1>2, SentFields DEF Sends
<1>4. QED
  BY <1>1, <1>2, <1>3, ScalarsAt

LEMMA RoleGuards ==
  ASSUME Base, NEW r \in Request, SaveRole(r), NEW v \in User
  PROVE  /\ user'[v].attempts = user[v].attempts /\ user'[v].lockedUntil = user[v].lockedUntil
         /\ user'[v].role # user[v].role => v = request[r].user /\ Saving(r, "role")
                                            /\ user'[v].role = request[r].role
                                            /\ request[r].read.role # request[r].role
<1> DEFINE u == request[r].user
           read == request[r].read
           made == [read EXCEPT !.role = request[r].role]
<1>1. u \in User /\ read \in UserDoc /\ user[u] \in UserDoc /\ request[r].role \in Roles
      /\ Saving(r, "role")
  BY SavingFacts DEF SaveRole, UserOperations, Base, Types, JobOK, Saving, Busy, Idle
<1>2. made \in UserDoc /\ made.role = request[r].role
      /\ made.attempts = read.attempts /\ made.lockedUntil = read.lockedUntil
  BY <1>1 DEF UserDoc
<1>3. SaveScalars(u, read, made)
  BY DEF SaveRole
<1> HIDE DEF made
<1>4. user'[v] = IF v = u THEN Sent(user[u], read, made) ELSE user[v]
  BY <1>1, <1>3, ScalarsAt
<1>5. QED
  BY <1>1, <1>2, <1>4, SentFields DEF Sends

(***************************************************************************)
(* Nobody becomes super_admin without a second approver.                   *)
(***************************************************************************)
THEOREM EscalationHolds == Spec => EscalationApproved
<1>1. ASSUME Base, [Next]_vars, NEW u \in User,
             user'[u].role = "super_admin", user[u].role # "super_admin"
      PROVE  \E r \in Request : Saving(r, "role") /\ request[r].user = u /\ request[r].seconded
  <2>1. PICK r \in Request : SavesUser(r)
    BY <1>1, WhoSaves
  <2>2. SaveRole(r)
    BY <1>1, <2>1, LoginRole, OthersGuards DEF SavesUser, SameGuards
  <2>3. /\ u = request[r].user /\ Saving(r, "role") /\ request[r].role = "super_admin"
        /\ request[r].read.role # "super_admin"
    BY <1>1, <2>2, RoleGuards
  <2>4. request[r].seconded
    BY <1>1, <2>3 DEF Base, JobOK, Saving, Busy, NeedsSecond
  <2>5. QED
    BY <2>3, <2>4
<1>2. Base /\ [Next]_vars => \A u \in User :
        user'[u].role = "super_admin" /\ user[u].role # "super_admin"
          => \E r \in Request : Saving(r, "role") /\ request[r].user = u /\ request[r].seconded
  BY <1>1
<1>3. QED
  BY <1>2, SpecBase, PTL DEF Spec, EscalationApproved

(***************************************************************************)
(* A lock in force is changed only by a login that had not seen it.        *)
(***************************************************************************)
THEOREM LockHolds == Spec => LockStands
<1>1. ASSUME Base, [Next]_vars, NEW u \in User,
             user[u].lockedUntil > now, user'[u].lockedUntil # user[u].lockedUntil
      PROVE  \E r \in Request : /\ Saving(r, "login") /\ request[r].user = u
                                /\ request[r].read.lockedUntil # user[u].lockedUntil
  <2>1. PICK r \in Request : SavesUser(r)
    BY <1>1, WhoSaves
  <2>2. WrongPassword(r) \/ RightPassword(r)
    BY <1>1, <2>1, RoleGuards, OthersGuards DEF SavesUser, SameGuards
  <2>3. u = request[r].user /\ Saving(r, "login")
    BY <1>1, <2>2, LoginRole DEF WrongPassword, RightPassword
  <2>4. /\ request[r].read \in UserDoc /\ request[r].read.lockedUntil <= now
        /\ user[u] \in UserDoc /\ now \in Nat
    BY <1>1, <2>3, DocumentsAssumption
       DEF Base, Types, Rest, JobOK, Saving, Busy, UserOperations
  <2>5. request[r].read.lockedUntil # user[u].lockedUntil
    BY <1>1, <2>4 DEF UserDoc
  <2>6. QED
    BY <2>3, <2>5
<1>2. Base /\ [Next]_vars => \A u \in User :
        user[u].lockedUntil > now /\ user'[u].lockedUntil # user[u].lockedUntil
          => \E r \in Request : /\ Saving(r, "login") /\ request[r].user = u
                                /\ request[r].read.lockedUntil # user[u].lockedUntil
  BY <1>1
<1>3. QED
  BY <1>2, SpecBase, PTL DEF Spec, LockStands

(***************************************************************************)
(* A save changes one address or one product of a wishlist at most.        *)
(***************************************************************************)
Touched(d, e) == {i \in Item : e.wishlist[i] # d.wishlist[i]}

LEMMA ScalarArrays ==
  ASSUME Base, NEW u \in User, NEW read \in UserDoc, NEW made \in UserDoc, SaveScalars(u, read, made),
         NEW v \in User
  PROVE  user'[v].addresses = user[v].addresses /\ user'[v].wishlist = user[v].wishlist
<1>1. user[u] \in UserDoc
  BY DEF Base, Types
<1>2. user'[v] = IF v = u THEN Sent(user[u], read, made) ELSE user[v]
  BY ScalarsAt
<1>3. QED
  BY <1>1, <1>2, SentFields

LEMMA SaveArrays ==
  ASSUME Base, NEW r \in Request, SavesUser(r), NEW v \in User
  PROVE  \/ user'[v].addresses = user[v].addresses /\ user'[v].wishlist = user[v].wishlist
         \/ \E i \in Item : /\ user'[v].addresses \in {user[v].addresses \cup {i}, user[v].addresses \ {i}}
                            /\ user'[v].wishlist = user[v].wishlist
         \/ \E i \in Item : /\ user'[v].addresses = user[v].addresses
                            /\ Touched(user[v], user'[v]) \subseteq {i}
<1> DEFINE u == request[r].user
           read == request[r].read
<1>1. u \in User /\ read \in UserDoc /\ ReadBefore(read, user[u])
  BY SavingFacts DEF SavesUser, WrongPassword, RightPassword, SaveRole, SaveActive, Account, SaveProfile,
       AddAddress, DeleteAddress, AddToWishlist, RemoveFromWishlist, UserOperations
<1>2. user[u] \in UserDoc /\ user[v] \in UserDoc /\ now \in Nat
  BY <1>1, DocumentsAssumption DEF Base, Types, Rest
<1>3. CASE WrongPassword(r) \/ RightPassword(r)
  BY <1>1, <1>2, <1>3, MadeDocs, ScalarArrays DEF WrongPassword, RightPassword
<1>4. CASE SaveRole(r)
  <2>1. request[r].role \in Roles
    BY <1>4 DEF SaveRole, Saving, Busy, Base, JobOK
  <2>2. [read EXCEPT !.role = request[r].role] \in UserDoc
    BY <1>1, <2>1 DEF UserDoc
  <2>3. QED
    BY <1>1, <1>4, <2>2, ScalarArrays DEF SaveRole
<1>5. CASE SaveActive(r)
  <2>1. [read EXCEPT !.active = ~@] \in UserDoc
    BY <1>1 DEF UserDoc
  <2>2. QED
    BY <1>1, <1>5, <2>1, ScalarArrays DEF SaveActive
<1>6. CASE \E name \in Names : SaveProfile(r, name)
  <2>1. PICK name \in Names : SaveScalars(u, read, [read EXCEPT !.name = name])
    BY <1>6 DEF SaveProfile
  <2>2. [read EXCEPT !.name = name] \in UserDoc
    BY <1>1 DEF UserDoc
  <2>3. QED
    BY <1>1, <2>1, <2>2, ScalarArrays
<1>7. ASSUME NEW i \in Item, AddAddress(r, i) PROVE user'[v].wishlist = user[v].wishlist
        /\ (user'[v].addresses = user[v].addresses \/ user'[v].addresses = user[v].addresses \cup {i})
  <2>1. user' = [user EXCEPT ![u] = WithAddresses(user[u], user[u].addresses \cup {i})]
    BY <1>7 DEF AddAddress
  <2>2. user[u].addresses \cup {i} \in SUBSET Item /\ user[u].wishlist \in [Item -> Nat]
    BY <1>2 DEF UserDoc
  <2>3. QED
    BY <1>1, <1>2, <2>1, <2>2, ArrayDocs DEF Base, Types
<1>8. ASSUME NEW i \in Item, DeleteAddress(r, i) PROVE user'[v].wishlist = user[v].wishlist
        /\ (user'[v].addresses = user[v].addresses \/ user'[v].addresses = user[v].addresses \ {i})
  <2>1. CASE i \notin read.addresses
    BY <1>8, <2>1 DEF DeleteAddress
  <2>2. CASE i \in read.addresses
    <3>1. user' = [user EXCEPT ![u] = WithAddresses(user[u], read.addresses \ {i})]
          /\ user[u].version = read.version
      BY <1>8, <2>2 DEF DeleteAddress, Current
    <3>2. user[u].addresses = read.addresses
      BY <1>1, <3>1 DEF ReadBefore
    <3>3. read.addresses \ {i} \in SUBSET Item /\ user[u].wishlist \in [Item -> Nat]
      BY <1>1, <1>2 DEF UserDoc
    <3>4. QED
      BY <1>1, <1>2, <3>1, <3>2, <3>3, ArrayDocs DEF Base, Types
  <2>3. QED
    BY <2>1, <2>2
<1>9. ASSUME NEW wishlist \in [Item -> Nat], NEW i \in Item,
             wishlist = [user[u].wishlist EXCEPT ![i] = wishlist[i]],
             user' = [user EXCEPT ![u] = WithWishlist(user[u], wishlist)]
      PROVE  user'[v].addresses = user[v].addresses /\ Touched(user[v], user'[v]) \subseteq {i}
  <2>1. user[u].addresses \in SUBSET Item /\ user[u].wishlist \in [Item -> Nat]
    BY <1>2 DEF UserDoc
  <2>2. user'[v] = IF v = u THEN WithWishlist(user[u], wishlist) ELSE user[v]
    BY <1>1, <1>9 DEF Base, Types
  <2>3. CASE v # u
    BY <2>2, <2>3 DEF Touched
  <2>4. CASE v = u
    <3> DEFINE d == user[u]
    <3>4. d \in UserDoc /\ d.addresses \in SUBSET Item
      BY <1>2, <2>1
    <3> HIDE DEF d
    <3>5. WithWishlist(d, wishlist).addresses = d.addresses /\ WithWishlist(d, wishlist).wishlist = wishlist
      BY <3>4, ArrayDocs
    <3>1. user'[v].addresses = user[v].addresses /\ user'[v].wishlist = wishlist
      BY <2>2, <2>4, <3>5 DEF d
    <3>2. \A j \in Item : j # i => wishlist[j] = user[v].wishlist[j]
      BY <1>9, <2>1, <2>4
    <3>3. QED
      BY <3>1, <3>2 DEF Touched
  <2>5. QED
    BY <2>3, <2>4
<1>10. ASSUME NEW i \in Item, AddToWishlist(r, i) \/ RemoveFromWishlist(r, i)
       PROVE  user'[v].addresses = user[v].addresses /\ Touched(user[v], user'[v]) \subseteq {i}
  <2>1. read.wishlist \in [Item -> Nat] /\ user[u].wishlist \in [Item -> Nat]
    BY <1>1, <1>2 DEF UserDoc
  <2>2. CASE AddToWishlist(r, i)
    <3> DEFINE w == Pushed(user[u].wishlist, i)
    <3>1. user' = [user EXCEPT ![u] = WithWishlist(user[u], w)]
      BY <2>2 DEF AddToWishlist
    <3>2. w \in [Item -> Nat] /\ w = [user[u].wishlist EXCEPT ![i] = w[i]]
      BY <2>1 DEF Pushed
    <3> HIDE DEF w
    <3>3. QED
      BY <1>9, <3>1, <3>2
  <2>3. CASE RemoveFromWishlist(r, i)
    <3> DEFINE w == [read.wishlist EXCEPT ![i] = 0]
    <3>1. user' = [user EXCEPT ![u] = WithWishlist(user[u], w)] /\ user[u].version = read.version
      BY <2>3 DEF RemoveFromWishlist, Current
    <3>2. user[u].wishlist = read.wishlist
      BY <1>1, <3>1 DEF ReadBefore
    <3>3. w \in [Item -> Nat] /\ w = [user[u].wishlist EXCEPT ![i] = w[i]]
      BY <2>1, <3>2
    <3> HIDE DEF w
    <3>4. QED
      BY <1>9, <3>1, <3>3
  <2>4. QED
    BY <1>10, <2>2, <2>3
<1>11. QED
  BY <1>3, <1>4, <1>5, <1>6, <1>7, <1>8, <1>10 DEF SavesUser, Account

THEOREM EditsHold == Spec => EditsKept
<1>1. ASSUME Base, [Next]_vars, NEW u \in User
      PROVE  /\ AtMostOne(user[u].addresses \ user'[u].addresses)
             /\ AtMostOne(user'[u].addresses \ user[u].addresses)
             /\ AtMostOne({i \in Item : user'[u].wishlist[i] # user[u].wishlist[i]})
  <2>1. CASE user' = user
    BY <2>1 DEF AtMostOne
  <2>2. CASE \E r \in Request : SavesUser(r)
    <3>1. \/ user'[u].addresses = user[u].addresses /\ user'[u].wishlist = user[u].wishlist
          \/ \E i \in Item : /\ user'[u].addresses \in {user[u].addresses \cup {i}, user[u].addresses \ {i}}
                             /\ user'[u].wishlist = user[u].wishlist
          \/ \E i \in Item : /\ user'[u].addresses = user[u].addresses
                             /\ Touched(user[u], user'[u]) \subseteq {i}
      BY <1>1, <2>2, SaveArrays
    <3>2. CASE user'[u].addresses = user[u].addresses /\ user'[u].wishlist = user[u].wishlist
      BY <3>2 DEF AtMostOne
    <3>3. CASE \E i \in Item : /\ user'[u].addresses \in {user[u].addresses \cup {i}, user[u].addresses \ {i}}
                               /\ user'[u].wishlist = user[u].wishlist
      BY <3>3 DEF AtMostOne
    <3>4. CASE \E i \in Item : /\ user'[u].addresses = user[u].addresses
                               /\ Touched(user[u], user'[u]) \subseteq {i}
      BY <3>4 DEF AtMostOne, Touched
    <3>5. QED
      BY <3>1, <3>2, <3>3, <3>4
  <2>3. QED
    BY <1>1, <2>1, <2>2, WhoSaves
<1>2. Base /\ [Next]_vars => \A u \in User :
        /\ AtMostOne(user[u].addresses \ user'[u].addresses)
        /\ AtMostOne(user'[u].addresses \ user[u].addresses)
        /\ AtMostOne({i \in Item : user'[u].wishlist[i] # user[u].wishlist[i]})
  BY <1>1
<1>3. QED
  BY <1>2, SpecBase, PTL DEF Spec, EditsKept

----------------------------------------------------------------------------
(***************************************************************************)
(* The audit log.                                                          *)
(***************************************************************************)
Auditing == {r \in Request : request[r].pc = "audit"}

LEMMA AuditingStep ==
  ASSUME Base, NEW r \in Request, NEW j, Step(r, j)
  PROVE  /\ j.pc = "audit" => Auditing' = Auditing \cup {r}
         /\ j.pc # "audit" => Auditing' = Auditing \ {r}
<1>1. request = [q \in Request |-> request[q]]
  BY DEF Base, Types
<1>2. \A q \in Request : request'[q] = IF q = r THEN j ELSE request[q]
  BY <1>1 DEF Step
<1>3. QED
  BY <1>2 DEF Auditing

LEMMA AuditingFinite ==
  /\ IsFiniteSet(Auditing) /\ Cardinality(Auditing) \in Nat
  /\ \A r \in Request : r \in Auditing => Cardinality(Auditing \ {r}) = Cardinality(Auditing) - 1
  /\ \A r \in Request : r \notin Auditing => /\ Cardinality(Auditing \cup {r}) = Cardinality(Auditing) + 1
                                             /\ Auditing \ {r} = Auditing
<1>1. IsFiniteSet(Auditing)
  BY DocumentsAssumption, FS_Subset DEF Auditing
<1>2. QED
  BY <1>1, FS_CardinalityType, FS_AddElement, FS_RemoveElement

LEMMA AuditCases ==
  ASSUME [Next]_vars
  PROVE  \/ UNCHANGED <<request, changes, entries, failures>>
         \/ \E r \in Request :
              \/ \E j : /\ Step(r, j) /\ request[r].pc # "audit" /\ j.pc # "audit"
                        /\ UNCHANGED <<changes, entries, failures>>
              \/ ThenAudit(r) /\ request[r].pc = "save" /\ UNCHANGED <<entries, failures>>
              \/ Audit(r)
              \/ Dies(r)
<1> DEFINE Quiet(r) == \E j : /\ Step(r, j) /\ request[r].pc # "audit" /\ j.pc # "audit"
                              /\ UNCHANGED <<changes, entries, failures>>
<1>1. CASE UNCHANGED vars
  BY <1>1 DEF vars
<1>2. CASE Tick
  BY <1>2 DEF Tick, documents, history
<1>3. ASSUME NEW r \in Request, \E a \in User, op \in Operations, u \in User : Begin(r, a, op, u)
      PROVE  Quiet(r)
  <2>1. PICK a \in User, op \in Operations, u \in User : Begin(r, a, op, u)
    BY <1>3
  <2>2. QED
    BY <2>1 DEF Begin, Idle, documents, history
<1>4. ASSUME NEW r \in Request, Serve(r)
      PROVE  Quiet(r) \/ (ThenAudit(r) /\ request[r].pc = "save" /\ UNCHANGED <<entries, failures>>)
             \/ Audit(r) \/ Dies(r)
  <2>1. Blank.pc # "audit"
    BY DEF Blank
  <2>2. CASE Find(r)
    BY <2>2 DEF Find, documents
  <2>3. CASE FindLocked(r) \/ Refuse(r) \/ VersionError(r) \/ CreateFails(r)
             \/ WrongPassword(r) \/ RightPassword(r) \/ Account(r)
    <3>1. Step(r, Blank) /\ request[r].pc # "audit" /\ UNCHANGED <<changes, entries, failures>>
      BY <2>3 DEF FindLocked, Refuse, VersionError, CreateFails, WrongPassword, RightPassword, Account,
           SaveProfile, AddAddress, DeleteAddress, AddToWishlist, RemoveFromWishlist, Edited, Saving,
           Busy, documents, history
    <3>2. QED
      BY <2>1, <3>1
  <2>4. CASE \E role \in Granted, approver \in User : Approve(r, role, approver)
    BY <2>4 DEF Approve, documents, history
  <2>5. CASE \E status \in Statuses \cup {"", "other"} : Reply(r, status)
    <3>1. Step(r, Blank) /\ request[r].pc # "audit" /\ UNCHANGED <<changes, entries, failures>>
      BY <2>5 DEF Reply, Saving, history
    <3>2. QED
      BY <2>1, <3>1
  <2>6. CASE FindTicket(r)
    BY <2>6 DEF FindTicket, documents, history
  <2>7. CASE FindSettings(r)
    <3>1. CASE settings.exists
      BY <2>7, <3>1 DEF FindSettings, documents
    <3>2. CASE ~settings.exists
      BY <2>7, <3>2 DEF FindSettings, documents
    <3>3. QED
      BY <3>1, <3>2
  <2>8. CASE CreateSettings(r)
    BY <2>8 DEF CreateSettings, history
  <2>9. CASE SaveRole(r) \/ SaveActive(r) \/ \E wanted \in Form : SaveSettings(r, wanted)
    BY <2>9 DEF SaveRole, SaveActive, SaveSettings, Saving
  <2>10. QED
    BY <1>4, <2>2, <2>3, <2>4, <2>5, <2>6, <2>7, <2>8, <2>9 DEF Serve, Account
<1>5. QED
  BY <1>1, <1>2, <1>3, <1>4 DEF Next

LEMMA AuditNext == Base /\ AuditTrail /\ [Next]_vars => AuditTrail'
<1> SUFFICES ASSUME Base, AuditTrail, [Next]_vars PROVE AuditTrail'
  OBVIOUS
<1> DEFINE n == Cardinality(Auditing)
           m == Cardinality(Auditing')
<1>1. /\ changes \in Nat /\ entries \in Nat /\ failures \in Nat /\ n \in Nat
      /\ changes - entries - n >= 0 /\ changes - entries - n <= failures
  BY AuditingFinite, DocumentsAssumption DEF Base, Types, Rest, AuditTrail, Auditing
<1>2. AuditTrail' <=> changes' - entries' - m \in 0..failures'
  BY DEF AuditTrail, Auditing
<1>3. CASE UNCHANGED <<request, changes, entries, failures>>
  <2>1. m = n
    BY <1>3 DEF Auditing
  <2> HIDE DEF m, n
  <2>2. QED
    BY <1>1, <1>2, <1>3, <2>1
<1>4. ASSUME NEW r \in Request, NEW j, Step(r, j), request[r].pc # "audit", j.pc # "audit",
             UNCHANGED <<changes, entries, failures>>
      PROVE  AuditTrail'
  <2>1. r \notin Auditing
    BY <1>4 DEF Auditing
  <2>2. m = n
    BY <1>4, <2>1, AuditingStep, AuditingFinite
  <2> HIDE DEF m, n
  <2>3. QED
    BY <1>1, <1>2, <1>4, <2>2
<1>5. ASSUME NEW r \in Request, ThenAudit(r), request[r].pc = "save", UNCHANGED <<entries, failures>>
      PROVE  AuditTrail'
  <2>1. PICK j : Step(r, j) /\ j.pc = "audit"
    BY <1>5 DEF ThenAudit
  <2>2. r \notin Auditing
    BY <1>5 DEF Auditing
  <2>3. m = n + 1
    BY <2>1, <2>2, AuditingStep, AuditingFinite
  <2>4. changes' = changes + 1
    BY <1>5 DEF ThenAudit
  <2> HIDE DEF m, n
  <2>5. QED
    BY <1>1, <1>2, <1>5, <2>3, <2>4
<1>6. ASSUME NEW r \in Request, Audit(r) PROVE AuditTrail'
  <2>1. /\ Step(r, Blank) /\ Blank.pc # "audit" /\ entries' = entries + 1
        /\ changes' = changes /\ failures' = failures /\ r \in Auditing
    BY <1>6 DEF Audit, Blank, history, Auditing
  <2>2. m = n - 1
    BY <2>1, AuditingStep, AuditingFinite
  <2> HIDE DEF m, n
  <2>3. QED
    BY <1>1, <1>2, <2>1, <2>2
<1>7. ASSUME NEW r \in Request, Dies(r) PROVE AuditTrail'
  <2>1. /\ Step(r, Blank) /\ Blank.pc # "audit" /\ failures' = failures + 1
        /\ changes' = changes /\ entries' = entries
    BY <1>7 DEF Dies, Blank, history, documents
  <2>2. m = n \/ m = n - 1
    BY <2>1, AuditingStep, AuditingFinite
  <2> HIDE DEF m, n
  <2>3. QED
    BY <1>1, <1>2, <2>1, <2>2
<1>8. QED
  BY <1>3, <1>4, <1>5, <1>6, <1>7, AuditCases

(***************************************************************************)
(* Every change that has to be is in the audit log, or about to be, or its *)
(* request failed.                                                         *)
(***************************************************************************)
THEOREM AuditHolds == Spec => []AuditTrail
<1>1. Init => AuditTrail
  <2> SUFFICES ASSUME Init PROVE AuditTrail
    OBVIOUS
  <2>1. {r \in Request : request[r].pc = "audit"} = {}
    BY DEF Init, Blank
  <2>2. Cardinality({r \in Request : request[r].pc = "audit"}) = 0
    BY <2>1, FS_EmptySet
  <2>3. changes = 0 /\ entries = 0 /\ failures = 0
    BY DEF Init
  <2>4. QED
    BY <2>2, <2>3 DEF AuditTrail
<1>2. QED
  BY <1>1, AuditNext, SpecBase, PTL DEF Spec

----------------------------------------------------------------------------
(***************************************************************************)
(* The settings: until two updates overlap there is one at most that has   *)
(* read them, and what it has read is what is stored.                      *)
(***************************************************************************)
Updating(j) == j.pc = "save" /\ j.op = "settings"

SettingsInv ==
  /\ ~settings.exists => /\ settings.form = Defaults /\ form = Defaults
                         /\ \A r \in Request : ~Updating(request[r])
  /\ ~mixed => /\ settings.form = form
               /\ \A r \in Request : Updating(request[r]) => request[r].was = settings.form
               /\ \A q, r \in Request : Updating(request[q]) /\ Updating(request[r]) => q = r

LEMMA SwitchedAlone ==
  ASSUME NEW wanted \in Form, settings.form \in Form
  PROVE  Switched(settings.form, wanted) = wanted
BY DEF Switched, Form

LEMMA SettingsCases ==
  ASSUME [Next]_vars
  PROVE  \/ UNCHANGED <<request, settings, form, mixed>>
         \/ \E r \in Request :
              \/ \E j : Step(r, j) /\ ~Updating(j) /\ UNCHANGED <<settings, form, mixed>>
              \/ FindSettings(r) \/ CreateSettings(r) \/ \E wanted \in Form : SaveSettings(r, wanted)
<1> DEFINE Quiet(r) == \E j : Step(r, j) /\ ~Updating(j) /\ UNCHANGED <<settings, form, mixed>>
<1>1. CASE UNCHANGED vars
  BY <1>1 DEF vars
<1>2. CASE Tick
  BY <1>2 DEF Tick, documents, history
<1>3. ASSUME NEW r \in Request, \E a \in User, op \in Operations, u \in User : Begin(r, a, op, u)
      PROVE  Quiet(r)
  <2>1. PICK a \in User, op \in Operations, u \in User : Begin(r, a, op, u)
    BY <1>3
  <2>2. QED
    BY <2>1 DEF Begin, documents, history, Updating
<1>4. ASSUME NEW r \in Request, Serve(r)
      PROVE  Quiet(r) \/ FindSettings(r) \/ CreateSettings(r) \/ \E wanted \in Form : SaveSettings(r, wanted)
  <2>1. ~Updating(Blank)
    BY DEF Blank, Updating
  <2>2. CASE Find(r)
    <3> DEFINE old == request[r]
               j == [pc |-> IF old.op = "role" THEN "approve" ELSE "save", op |-> old.op,
                     actor |-> old.actor, user |-> old.user, read |-> user[old.user]]
    <3>1. Step(r, j) /\ old.op \in UserOperations /\ UNCHANGED <<settings, form, mixed>>
      BY <2>2 DEF Find, documents
    <3>2. ~Updating(j)
      BY <3>1 DEF Updating, UserOperations
    <3> HIDE DEF j
    <3>3. QED
      BY <3>1, <3>2
  <2>3. CASE FindLocked(r) \/ Refuse(r) \/ VersionError(r) \/ CreateFails(r) \/ Dies(r) \/ Audit(r)
             \/ WrongPassword(r) \/ RightPassword(r) \/ Account(r)
             \/ \E status \in Statuses \cup {"", "other"} : Reply(r, status)
    <3>1. Step(r, Blank) /\ UNCHANGED <<settings, form, mixed>>
      BY <2>3 DEF FindLocked, Refuse, VersionError, CreateFails, Dies, Audit, WrongPassword,
           RightPassword, Account, SaveProfile, AddAddress, DeleteAddress, AddToWishlist,
           RemoveFromWishlist, Reply, Edited, documents, history
    <3>2. QED
      BY <2>1, <3>1
  <2>4. CASE \E role \in Granted, approver \in User : Approve(r, role, approver)
    BY <2>4 DEF Approve, documents, history, Updating
  <2>5. CASE FindTicket(r)
    BY <2>5 DEF FindTicket, documents, history, Updating
  <2>6. CASE SaveRole(r) \/ SaveActive(r)
    BY <2>6 DEF SaveRole, SaveActive, ThenAudit, Updating
  <2>7. QED
    BY <1>4, <2>2, <2>3, <2>4, <2>5, <2>6 DEF Serve, Account
<1>5. QED
  BY <1>1, <1>2, <1>3, <1>4 DEF Next

LEMMA StepAt ==
  ASSUME Base, NEW r \in Request, NEW j, Step(r, j), NEW q \in Request
  PROVE  request'[q] = IF q = r THEN j ELSE request[q]
BY DEF Step, Base, Types

LEMMA SettingsNext == Base /\ SettingsInv /\ [Next]_vars => SettingsInv'
<1> SUFFICES ASSUME Base, SettingsInv, [Next]_vars PROVE SettingsInv'
  OBVIOUS
<1>1. CASE UNCHANGED <<request, settings, form, mixed>>
  BY <1>1 DEF SettingsInv
<1>2. ASSUME NEW r \in Request, NEW j, Step(r, j), ~Updating(j), UNCHANGED <<settings, form, mixed>>
      PROVE  SettingsInv'
  <2>1. \A q \in Request : Updating(request'[q]) => request'[q] = request[q]
    BY <1>2, StepAt
  <2>2. QED
    BY <1>2, <2>1 DEF SettingsInv
<1>3. ASSUME NEW r \in Request, FindSettings(r) PROVE SettingsInv'
  <2>1. /\ settings' = settings /\ form' = form /\ request[r].pc = "find"
        /\ mixed' = (mixed \/ \E q \in Request \ {r} : Saving(q, "settings"))
    BY <1>3 DEF FindSettings, documents
  <2>2. PICK j : /\ Step(r, j)
                 /\ Updating(j) => j.was = settings.form /\ settings.exists
    <3>1. CASE settings.exists
      BY <1>3, <3>1 DEF FindSettings
    <3>2. CASE ~settings.exists
      BY <1>3, <3>2 DEF FindSettings, Updating
    <3>3. QED
      BY <3>1, <3>2
  <2>3. \A q \in Request : request'[q] = IF q = r THEN j ELSE request[q]
    BY <2>2, StepAt
  <2>4. ~mixed' => ~mixed /\ \A q \in Request \ {r} : ~Updating(request[q])
    BY <2>1 DEF Saving, Busy, Idle, Updating
  <2>5. QED
    BY <2>1, <2>2, <2>3, <2>4 DEF SettingsInv
<1>4. ASSUME NEW r \in Request, CreateSettings(r) PROVE SettingsInv'
  <2>1. /\ settings' = [exists |-> TRUE, form |-> Defaults] /\ form' = form /\ mixed' = mixed
        /\ ~settings.exists
    BY <1>4 DEF CreateSettings, history
  <2>2. PICK j : Step(r, j) /\ j.was = Defaults
    BY <1>4 DEF CreateSettings
  <2>3. \A q \in Request : request'[q] = IF q = r THEN j ELSE request[q]
    BY <2>2, StepAt
  <2>4. settings'.exists /\ settings'.form = Defaults /\ form' = Defaults
    BY <2>1 DEF SettingsInv
  <2>5. \A q \in Request : Updating(request'[q]) => q = r
    BY <2>1, <2>3 DEF SettingsInv
  <2>6. QED
    BY <2>2, <2>3, <2>4, <2>5 DEF SettingsInv
<1>5. ASSUME NEW r \in Request, NEW wanted \in Form, SaveSettings(r, wanted) PROVE SettingsInv'
  <2>1. /\ Updating(request[r]) /\ ThenAudit(r) /\ form' = wanted /\ mixed' = mixed
        /\ settings' = [settings EXCEPT !.form = Switched(request[r].was, wanted)]
    BY <1>5 DEF SaveSettings, Saving, Busy, Updating
  <2>2. PICK j : Step(r, j) /\ ~Updating(j)
    BY <2>1 DEF ThenAudit, Updating
  <2>3. \A q \in Request : Updating(request'[q]) => request'[q] = request[q] /\ q # r
    BY <2>2, StepAt
  <2>4. settings \in Settings /\ settings.form \in Form
    BY FormTypes DEF Base, Types, Rest
  <2>5. settings'.exists = settings.exists /\ settings'.form = Switched(request[r].was, wanted)
    BY <2>1, <2>4 DEF Settings
  <2>6. settings.exists
    BY <2>1 DEF SettingsInv
  <2>7. ~mixed => settings'.form = form'
    BY <2>1, <2>4, <2>5, SwitchedAlone DEF SettingsInv
  <2>8. ~mixed => \A q \in Request : ~Updating(request'[q])
    BY <2>1, <2>3 DEF SettingsInv
  <2>9. QED
    BY <2>1, <2>5, <2>6, <2>7, <2>8 DEF SettingsInv
<1>6. QED
  BY <1>1, <1>2, <1>3, <1>4, <1>5, SettingsCases

(***************************************************************************)
(* The settings are as they were last submitted, unless two updates        *)
(* overlap.                                                                *)
(***************************************************************************)
THEOREM SettingsHold == Spec => []SettingsAsSubmitted
<1>1. Init => SettingsInv
  <2> SUFFICES ASSUME Init PROVE SettingsInv
    OBVIOUS
  <2>1. settings.form = Defaults /\ form = Defaults /\ \A r \in Request : request[r] = Blank
    BY DEF Init
  <2>2. QED
    BY <2>1 DEF SettingsInv, Updating, Blank
<1>2. SettingsInv => SettingsAsSubmitted
  BY DEF SettingsInv, SettingsAsSubmitted
<1>3. QED
  BY <1>1, <1>2, SettingsNext, SpecBase, PTL DEF Spec

----------------------------------------------------------------------------
(***************************************************************************)
(* The counters.  Until two logins of a user overlap there is one at most  *)
(* that has read the user, and what it has read of the counters is stored. *)
(***************************************************************************)
LoginOf(j, u) == j.pc = "save" /\ j.op = "login" /\ j.user = u
SameCounters(d, e) == e.attempts = d.attempts /\ e.lockedUntil = d.lockedUntil

Counted(u, d, n, races, jobs) ==
  /\ d.attempts <= n
  /\ d.lockedUntil # 0 => n >= Threshold
  /\ \A r \in Request : LoginOf(jobs[r], u) => jobs[r].read.attempts <= n
  /\ ~races => /\ d.attempts = n
               /\ d.lockedUntil # 0 <=> n >= Threshold
               /\ \A r \in Request : LoginOf(jobs[r], u) => SameCounters(jobs[r].read, d)
               /\ \A q, r \in Request : LoginOf(jobs[q], u) /\ LoginOf(jobs[r], u) => q = r

CountInv ==
  /\ raced \in [User -> BOOLEAN]
  /\ \A u \in User : Counted(u, user[u], wrong[u], raced[u], request)

LEMMA WrongCounts ==
  ASSUME NEW d \in UserDoc, NEW read \in UserDoc, now \in Nat
  PROVE  LET e == Sent(d, read, Failed(read))
         IN  /\ e.attempts = read.attempts + 1
             /\ e.lockedUntil # 0 => d.lockedUntil # 0 \/ read.attempts + 1 >= Threshold
             /\ read.attempts + 1 >= Threshold /\ read.lockedUntil = d.lockedUntil => e.lockedUntil # 0
             /\ ~(read.attempts + 1 >= Threshold) => e.lockedUntil = d.lockedUntil
<1> DEFINE made == Failed(read)
           e == Sent(d, read, made)
           lock == now + LockoutMinutes(read.attempts + 1)
<1>1. read.attempts \in Nat /\ read.lockedUntil \in Nat /\ d.lockedUntil \in Nat
  BY DEF UserDoc
<1>2. lock \in Nat \ {0}
  <2>1. read.attempts + 1 \in Nat
    BY <1>1
  <2>2. LockoutMinutes(read.attempts + 1) \in Nat \ {0}
    BY <2>1, MinutesPositive
  <2>3. QED
    BY <2>2
<1>3. /\ made \in UserDoc /\ made.attempts = read.attempts + 1
      /\ made.lockedUntil = IF read.attempts + 1 >= Threshold THEN lock ELSE read.lockedUntil
  BY MadeDocs
<1> HIDE DEF made, lock
<1>4. e.attempts = Sends("attempts", d, read, made) /\ e.lockedUntil = Sends("lockedUntil", d, read, made)
  BY <1>3, SentFields
<1>5. e.attempts = read.attempts + 1
  BY <1>1, <1>3, <1>4 DEF Sends
<1>6. e.lockedUntil = IF made.lockedUntil # read.lockedUntil THEN made.lockedUntil ELSE d.lockedUntil
  BY <1>4 DEF Sends
<1> HIDE DEF e
<1>7. /\ e.lockedUntil # 0 => d.lockedUntil # 0 \/ read.attempts + 1 >= Threshold
      /\ read.attempts + 1 >= Threshold /\ read.lockedUntil = d.lockedUntil => e.lockedUntil # 0
      /\ ~(read.attempts + 1 >= Threshold) => e.lockedUntil = d.lockedUntil
  <2>1. CASE read.attempts + 1 >= Threshold
    BY <1>2, <1>3, <1>6, <2>1
  <2>2. CASE ~(read.attempts + 1 >= Threshold)
    BY <1>3, <1>6, <2>2
  <2>3. QED
    BY <2>1, <2>2
<1>8. QED
  BY <1>5, <1>7 DEF e, made

LEMMA RightCounts ==
  ASSUME NEW d \in UserDoc, NEW read \in UserDoc, now \in Nat
  PROVE  LET e == Sent(d, read, Succeeded(read))
         IN  /\ e.attempts \in {0, d.attempts} /\ e.lockedUntil \in {0, d.lockedUntil}
             /\ d.attempts = read.attempts => e.attempts = 0
             /\ d.lockedUntil = read.lockedUntil => e.lockedUntil = 0
BY MadeDocs, SentFields DEF Sends

\* The counters of u and what logins know of them stay as they are.
LEMMA CountedKept ==
  ASSUME NEW u, NEW d, NEW e, NEW n, NEW races, NEW jobs, NEW others, Counted(u, d, n, races, jobs),
         SameCounters(d, e), \A q \in Request : LoginOf(others[q], u) => others[q] = jobs[q]
  PROVE  Counted(u, e, n, races, others)
BY DEF Counted, SameCounters

LEMMA CountCases ==
  ASSUME Base, [Next]_vars
  PROVE  \/ /\ UNCHANGED <<wrong, raced>>
            /\ \A v \in User : SameCounters(user[v], user'[v])
            /\ UNCHANGED request \/ \E r \in Request : \E j : /\ Step(r, j)
                                                            /\ ~(j.pc = "save" /\ j.op = "login")
         \/ \E r \in Request : Find(r) \/ WrongPassword(r) \/ RightPassword(r)
<1> DEFINE Quiet(r) == \E j : Step(r, j) /\ ~(j.pc = "save" /\ j.op = "login")
           Jobs(r) == Quiet(r) /\ UNCHANGED <<wrong, raced>>
           Logins(r) == Find(r) \/ WrongPassword(r) \/ RightPassword(r)
<1>1. \/ UNCHANGED <<wrong, raced, request>>
      \/ \E r \in Request : Jobs(r) \/ Logins(r)
  <2>1. CASE UNCHANGED vars
    BY <2>1 DEF vars
  <2>2. CASE Tick
    BY <2>2 DEF Tick, documents, history
  <2>3. ASSUME NEW r \in Request, \E a \in User, op \in Operations, u \in User : Begin(r, a, op, u)
        PROVE  Jobs(r)
    <3>1. PICK a \in User, op \in Operations, u \in User : Begin(r, a, op, u)
      BY <2>3
    <3>2. QED
      BY <3>1 DEF Begin, documents, history
  <2>4. ASSUME NEW r \in Request, Serve(r) PROVE Jobs(r) \/ Logins(r)
    <3>1. Blank.pc = "idle"
      BY DEF Blank
    <3>2. CASE FindLocked(r) \/ Refuse(r) \/ VersionError(r) \/ CreateFails(r) \/ Dies(r) \/ Audit(r)
               \/ Account(r) \/ \E status \in Statuses \cup {"", "other"} : Reply(r, status)
      <4>1. Step(r, Blank) /\ UNCHANGED <<wrong, raced>>
        BY <3>2 DEF FindLocked, Refuse, VersionError, CreateFails, Dies, Audit, Account, SaveProfile,
             AddAddress, DeleteAddress, AddToWishlist, RemoveFromWishlist, Reply, Edited, documents, history
      <4>2. QED
        BY <3>1, <4>1
    <3>3. CASE \E role \in Granted, approver \in User : Approve(r, role, approver)
      BY <3>3 DEF Approve, documents, history
    <3>4. CASE FindTicket(r)
      BY <3>4 DEF FindTicket, documents, history
    <3>5. CASE SaveRole(r) \/ SaveActive(r) \/ \E wanted \in Form : SaveSettings(r, wanted)
      BY <3>5 DEF SaveRole, SaveActive, SaveSettings, ThenAudit
    <3>6. CASE FindSettings(r)
      <4>1. CASE settings.exists
        BY <3>6, <4>1 DEF FindSettings
      <4>2. CASE ~settings.exists
        BY <3>6, <4>2 DEF FindSettings
      <4>3. QED
        BY <4>1, <4>2
    <3>7. CASE CreateSettings(r)
      BY <3>7 DEF CreateSettings, history
    <3>8. QED
      BY <2>4, <3>2, <3>3, <3>4, <3>5, <3>6, <3>7 DEF Serve, Account
  <2>5. QED
    BY <2>1, <2>2, <2>3, <2>4 DEF Next
<1>2. \/ \A v \in User : SameCounters(user[v], user'[v])
      \/ \E r \in Request : WrongPassword(r) \/ RightPassword(r)
  BY WhoSaves, OthersGuards, RoleGuards DEF SavesUser, SameGuards, SameCounters
<1>3. QED
  BY <1>1, <1>2

LEMMA CountFind ==
  ASSUME Base, CountInv, NEW r \in Request, Find(r)
  PROVE  CountInv'
<1> DEFINE old == request[r]
           j == [pc |-> IF old.op = "role" THEN "approve" ELSE "save", op |-> old.op,
                 actor |-> old.actor, user |-> old.user, read |-> user[old.user]]
           others == \E q \in Request \ {r} : LoginOf(request[q], old.user)
<1>1. /\ Step(r, j) /\ user' = user /\ wrong' = wrong
      /\ raced' = IF old.op = "login" /\ others THEN [raced EXCEPT ![old.user] = TRUE] ELSE raced
  BY DEF Find, documents, Busy, Idle, LoginOf
<1>2. /\ j.user = old.user /\ j.op = old.op /\ j.read = user[old.user]
  OBVIOUS
<1> HIDE DEF j
<1>3. \A q \in Request : request'[q] = IF q = r THEN j ELSE request[q]
  BY <1>1, StepAt
<1>4. raced \in [User -> BOOLEAN] /\ raced' \in [User -> BOOLEAN]
  BY <1>1 DEF CountInv
<1>5. ASSUME NEW u \in User PROVE Counted(u, user'[u], wrong'[u], raced'[u], request')
  <2>1. Counted(u, user[u], wrong[u], raced[u], request)
    BY DEF CountInv
  <2>2. CASE ~LoginOf(j, u)
    <3>1. raced'[u] = raced[u] \/ raced'[u]
      BY <1>1, <1>4
    <3>2. \A q \in Request : LoginOf(request'[q], u) => request'[q] = request[q]
      BY <1>3, <2>2
    <3>3. Counted(u, user[u], wrong[u], raced[u], request')
      BY <2>1, <3>2, CountedKept DEF SameCounters
    <3>4. QED
      BY <1>1, <3>1, <3>3 DEF Counted
  <2>3. CASE LoginOf(j, u)
    <3>1. old.user = u /\ old.op = "login" /\ j.read = user[u]
      BY <1>2, <2>3 DEF LoginOf
    <3>2. ~raced'[u] => /\ ~raced[u] /\ \A q \in Request \ {r} : ~LoginOf(request[q], u)
      BY <1>1, <1>4, <3>1
    <3>3. QED
      BY <1>1, <1>3, <2>1, <3>1, <3>2 DEF Counted, SameCounters
  <2>4. QED
    BY <2>2, <2>3
<1>6. QED
  BY <1>4, <1>5 DEF CountInv

\* A login that ends leaves the others of its user as they were.
LEMMA LoginEnds ==
  ASSUME Base, NEW r \in Request, WrongPassword(r) \/ RightPassword(r)
  PROVE  /\ LoginOf(request[r], request[r].user) /\ request[r].user \in User
         /\ request[r].read \in UserDoc /\ user[request[r].user] \in UserDoc /\ now \in Nat
         /\ \A q \in Request, u \in User : LoginOf(request'[q], u) => request'[q] = request[q] /\ q # r
<1>1. Saving(r, "login") /\ Step(r, Blank)
  BY DEF WrongPassword, RightPassword
<1>2. \A q \in Request : request'[q] = IF q = r THEN Blank ELSE request[q]
  BY <1>1, StepAt
<1>3. \A u \in User : ~LoginOf(Blank, u)
  BY DEF LoginOf, Blank
<1>4. QED
  BY <1>1, <1>2, <1>3, SavingFacts, DocumentsAssumption
     DEF Saving, Busy, LoginOf, UserOperations, Base, Types, Rest

LEMMA CountWrong ==
  ASSUME Base, CountInv, NEW r \in Request, WrongPassword(r)
  PROVE  CountInv'
<1> DEFINE old == request[r]
           w == old.user
           e == Sent(user[w], old.read, Failed(old.read))
<1>1. /\ LoginOf(old, w) /\ w \in User /\ old.read \in UserDoc /\ user[w] \in UserDoc /\ now \in Nat
      /\ \A q \in Request, u \in User : LoginOf(request'[q], u) => request'[q] = request[q] /\ q # r
  BY LoginEnds
<1>2. SaveScalars(w, old.read, Failed(old.read)) /\ wrong' = [wrong EXCEPT ![w] = @ + 1] /\ raced' = raced
  BY DEF WrongPassword
<1>3. wrong \in [User -> Nat] /\ Threshold \in Nat \ {0}
  BY DocumentsAssumption DEF Base, Types, Rest
<1>4. ASSUME NEW u \in User PROVE Counted(u, user'[u], wrong'[u], raced'[u], request')
  <2>1. Counted(u, user[u], wrong[u], raced[u], request)
    BY DEF CountInv
  <2>2. CASE u # w
    <3>1. user'[u] = user[u] /\ wrong'[u] = wrong[u]
      BY <1>1, <1>2, <1>3, <2>2, LoginRole
    <3>2. QED
      BY <1>1, <1>2, <2>1, <3>1, CountedKept DEF SameCounters
  <2>3. CASE u = w
    <3> DEFINE a == old.read.attempts
               n == wrong[u]
    <3>1. user'[u] = e /\ wrong'[u] = n + 1
      BY <1>1, <1>2, <1>3, <2>3, ScalarsAt
    <3>2. /\ e.attempts = a + 1
          /\ e.lockedUntil # 0 => user[u].lockedUntil # 0 \/ a + 1 >= Threshold
          /\ a + 1 >= Threshold /\ old.read.lockedUntil = user[u].lockedUntil => e.lockedUntil # 0
          /\ ~(a + 1 >= Threshold) => e.lockedUntil = user[u].lockedUntil
      BY <1>1, <2>3, WrongCounts
    <3>3. /\ a \in Nat /\ n \in Nat /\ a <= n
          /\ user[u].lockedUntil # 0 => n >= Threshold
      BY <1>1, <1>3, <2>1, <2>3 DEF Counted, UserDoc
    <3>4. ~raced[u] => /\ a = n /\ old.read.lockedUntil = user[u].lockedUntil
                       /\ \A q \in Request : LoginOf(request[q], u) => q = r
                       /\ user[u].lockedUntil # 0 <=> n >= Threshold
      BY <1>1, <2>1, <2>3 DEF Counted, SameCounters
    <3> HIDE DEF a, n, e
    <3>5. e.attempts <= n + 1
      BY <3>2, <3>3
    <3>6. e.lockedUntil # 0 => n + 1 >= Threshold
      BY <1>3, <3>2, <3>3
    <3>7. ~raced[u] => e.attempts = n + 1
      BY <3>2, <3>4
    <3>8. ~raced[u] => (e.lockedUntil # 0 <=> n + 1 >= Threshold)
      BY <1>3, <3>2, <3>3, <3>4, <3>6
    <3>9. ~raced[u] => \A q \in Request : ~LoginOf(request'[q], u)
      BY <1>1, <3>4
    <3>10. \A q \in Request : LoginOf(request'[q], u) => request'[q].read.attempts <= n + 1
      <4>1. ASSUME NEW q \in Request, LoginOf(request'[q], u) PROVE request'[q].read.attempts <= n + 1
        <5>1. request'[q] = request[q] /\ request[q].read.attempts <= n
          BY <1>1, <2>1, <4>1 DEF Counted, n
        <5>2. request[q].read.attempts \in Nat
          BY <4>1, <5>1 DEF LoginOf, Base, JobOK, UserOperations, UserDoc
        <5>3. QED
          BY <3>3, <5>1, <5>2
      <4>2. QED
        BY <4>1
    <3>11. raced'[u] = raced[u]
      BY <1>2
    <3>12. QED
      BY <3>1, <3>5, <3>6, <3>7, <3>8, <3>9, <3>10, <3>11 DEF Counted
  <2>4. QED
    BY <2>2, <2>3
<1>5. QED
  BY <1>2, <1>4 DEF CountInv

LEMMA CountRight ==
  ASSUME Base, CountInv, NEW r \in Request, RightPassword(r)
  PROVE  CountInv'
<1> DEFINE old == request[r]
           w == old.user
           e == Sent(user[w], old.read, Succeeded(old.read))
           alone == /\ SameCounters(old.read, user[w])
                    /\ ~\E q \in Request \ {r} : LoginOf(request[q], w)
<1>1. /\ LoginOf(old, w) /\ w \in User /\ old.read \in UserDoc /\ user[w] \in UserDoc /\ now \in Nat
      /\ \A q \in Request, u \in User : LoginOf(request'[q], u) => request'[q] = request[q] /\ q # r
  BY LoginEnds
<1>2. /\ SaveScalars(w, old.read, Succeeded(old.read))
      /\ wrong' = IF alone THEN [wrong EXCEPT ![w] = 0] ELSE wrong
      /\ raced' = IF alone THEN [raced EXCEPT ![w] = FALSE] ELSE raced
  BY DEF RightPassword, SameCounters, LoginOf, Saving, Busy, Idle
<1>3. wrong \in [User -> Nat] /\ Threshold \in Nat \ {0} /\ raced \in [User -> BOOLEAN]
  BY DocumentsAssumption DEF Base, Types, Rest, CountInv
<1> HIDE DEF alone
<1>4. ASSUME NEW u \in User PROVE Counted(u, user'[u], wrong'[u], raced'[u], request')
  <2>1. Counted(u, user[u], wrong[u], raced[u], request)
    BY DEF CountInv
  <2>2. CASE u # w
    <3>1. user'[u] = user[u] /\ wrong'[u] = wrong[u] /\ raced'[u] = raced[u]
      BY <1>1, <1>2, <1>3, <2>2, LoginRole
    <3>2. QED
      BY <1>1, <2>1, <3>1, CountedKept DEF SameCounters
  <2>3. CASE u = w
    <3>1. user'[u] = e
      BY <1>1, <1>2, <2>3, ScalarsAt
    <3>2. /\ e.attempts \in {0, user[u].attempts} /\ e.lockedUntil \in {0, user[u].lockedUntil}
          /\ user[u].attempts = old.read.attempts => e.attempts = 0
          /\ user[u].lockedUntil = old.read.lockedUntil => e.lockedUntil = 0
      BY <1>1, <2>3, RightCounts
    <3> HIDE DEF e
    <3>3. CASE alone
      <4>1. wrong'[u] = 0 /\ ~raced'[u]
        BY <1>2, <1>3, <2>3, <3>3
      <4>2. e.attempts = 0 /\ e.lockedUntil = 0
        BY <2>3, <3>2, <3>3 DEF alone, SameCounters
      <4>3. \A q \in Request : ~LoginOf(request'[q], u)
        BY <1>1, <2>3, <3>3 DEF alone
      <4>4. QED
        BY <1>3, <3>1, <4>1, <4>2, <4>3 DEF Counted
    <3>4. CASE ~alone
      <4>1. wrong'[u] = wrong[u] /\ raced'[u] = raced[u]
        BY <1>2, <3>4
      <4>2. raced[u]
        <5>1. ~raced[u] => alone
          BY <1>1, <2>1, <2>3 DEF Counted, alone, SameCounters
        <5>2. QED
          BY <3>4, <5>1
      <4>3. e.attempts <= wrong[u] /\ (e.lockedUntil # 0 => wrong[u] >= Threshold)
        BY <1>3, <2>1, <3>2 DEF Counted
      <4>4. \A q \in Request : LoginOf(request'[q], u) => request'[q].read.attempts <= wrong[u]
        BY <1>1, <2>1 DEF Counted
      <4>5. QED
        BY <3>1, <4>1, <4>2, <4>3, <4>4 DEF Counted
    <3>5. QED
      BY <3>3, <3>4
  <2>4. QED
    BY <2>2, <2>3
<1>5. QED
  BY <1>2, <1>3, <1>4 DEF CountInv

LEMMA CountNext == Base /\ CountInv /\ [Next]_vars => CountInv'
<1> SUFFICES ASSUME Base, CountInv, [Next]_vars PROVE CountInv'
  OBVIOUS
<1>1. CASE /\ UNCHANGED <<wrong, raced>>
           /\ \A v \in User : SameCounters(user[v], user'[v])
           /\ UNCHANGED request \/ \E r \in Request : \E j : /\ Step(r, j)
                                                           /\ ~(j.pc = "save" /\ j.op = "login")
  <2>1. \A q \in Request, u \in User : LoginOf(request'[q], u) => request'[q] = request[q]
    BY <1>1, StepAt DEF LoginOf
  <2>2. ASSUME NEW u \in User PROVE Counted(u, user'[u], wrong'[u], raced'[u], request')
    <3>1. Counted(u, user[u], wrong[u], raced[u], request)
      BY DEF CountInv
    <3>2. QED
      BY <1>1, <2>1, <3>1, CountedKept
  <2>3. QED
    BY <1>1, <2>2 DEF CountInv
<1>2. QED
  BY <1>1, CountCases, CountFind, CountWrong, CountRight

(***************************************************************************)
(* The counter of failed logins and the lock never claim more than         *)
(* happened, and are exact while no two logins of a user overlap.          *)
(***************************************************************************)
THEOREM CountersHold == Spec => []CountersExact
<1>1. Init => CountInv
  <2> SUFFICES ASSUME Init PROVE CountInv
    OBVIOUS
  <2>1. PICK roles \in Staffing : user = [u \in User |-> NewUser(roles[u])]
    BY DEF Init
  <2>2. \A u \in User : user[u].attempts = 0 /\ user[u].lockedUntil = 0
    BY <2>1 DEF NewUser
  <2>3. \A u \in User : wrong[u] = 0 /\ raced[u] = FALSE
    BY DEF Init
  <2>4. \A u \in User, r \in Request : ~LoginOf(request[r], u)
    BY DEF Init, LoginOf, Blank
  <2>5. ~(0 >= Threshold)
    BY DocumentsAssumption
  <2>6. ASSUME NEW u \in User PROVE Counted(u, user[u], wrong[u], raced[u], request)
    BY <2>2, <2>3, <2>4, <2>5 DEF Counted
  <2>7. raced \in [User -> BOOLEAN]
    BY DEF Init
  <2>8. QED
    BY <2>6, <2>7 DEF CountInv
<1>2. CountInv => CountersExact
  BY DEF CountInv, Counted, CountersExact
<1>3. QED
  BY <1>1, <1>2, CountNext, SpecBase, PTL DEF Spec
=============================================================================
