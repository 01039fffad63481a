--------------------------- MODULE SessionsProofs ---------------------------
(***************************************************************************)
(* Proofs about Sessions, for any number of users, ids and requests.       *)
(*                                                                         *)
(* A session is a full one in the store only if it was one in the copy of  *)
(* some request, so SecondFactor has to be shown of the copies too, and    *)
(* with it that a copy belongs to the user whom its id was generated for   *)
(* and that what lies behind a gate was admitted by it: Core.              *)
(***************************************************************************)
EXTENDS Sessions, TLAPS

AfterGates == {"admitted", "regenerate", "read", "delete", "unindex", "killed", "scan"}

\* What may be stored under an id, or held by a request, of what was generated so far.
SessionOK(copy, s, iss, hol, cle) ==
  /\ s # NoSid => s \in iss
  /\ copy.user # NoUser => s \in iss /\ hol[s] = copy.user
  /\ Full(copy) => s \in cle

JobOK(j, iss, hol, cle, acc) ==
  /\ SessionOK(j.copy, j.sid, iss, hol, cle)
  /\ j.pc = "loaded" => j.user = NoUser
  /\ j.pc \in AfterGates /\ j.op \notin OpenOperations
       => Full(j.copy) /\ j.user = j.copy.user /\ acc[j.user] # NoAccount
  /\ j.pc = "regenerate" => j.user \in User
  /\ j.pc \in {"read", "delete", "unindex"} => j.target \in User

Others ==
  /\ account \in [User -> Account \cup {NoAccount}]
  /\ store \in [Sid -> Session \cup {Absent}]
  /\ index \in [User -> SUBSET issued]
  /\ issued \subseteq Sid
  /\ tracking \subseteq [user : User, sid : issued, add : BOOLEAN]
  /\ holder \in [Sid -> User \cup {NoUser}]
  /\ cleared \subseteq issued /\ lost \subseteq issued
  /\ begun \in 0..MaxBegun /\ edits \in 0..MaxEdits /\ failures \in 0..MaxFailures

Jobs ==
  /\ request \in [Request -> Job]
  /\ \A q \in Request : JobOK(request[q], issued, holder, cleared, account)

Stores ==
  /\ \A s \in Live : s \in issued /\ SessionOK(store[s], s, issued, holder, cleared)
  /\ \A s \in Sid \ issued : holder[s] = NoUser

Core == Others /\ Jobs /\ Stores

\* What was generated stays generated, and for the same user.
Grows ==
  /\ issued \subseteq issued' /\ cleared \subseteq cleared'
  /\ \A s \in issued : holder'[s] = holder[s]
  /\ \A u \in User : account[u] # NoAccount => account'[u] # NoAccount

LEMMA JobFacts ==
  ASSUME Core, NEW r \in Request
  PROVE  /\ request[r] \in Job /\ JobOK(request[r], issued, holder, cleared, account)
         /\ request[r].pc \in Points /\ request[r].op \in Operations
         /\ request[r].sid \in Sid \cup {NoSid} /\ request[r].copy \in Session
         /\ request[r].changed \in BOOLEAN
         /\ request[r].user \in User \cup {NoUser} /\ request[r].target \in User \cup {NoUser}
         /\ request[r].role \in Roles /\ request[r].twoFactor \in BOOLEAN
         /\ request[r].found \in SUBSET Sid /\ request[r].open \in SUBSET Sid
<1>1. request[r] \in Job /\ JobOK(request[r], issued, holder, cleared, account)
  BY DEF Core, Jobs
<1>2. QED
  BY <1>1 DEF Job

LEMMA IdleFacts ==
  /\ Idle \in Job /\ Idle.pc = "idle" /\ Idle.sid = NoSid
  /\ Anonymous \in Session /\ Anonymous.user = NoUser /\ ~Full(Anonymous)
BY DEF Idle, Job, Points, Operations, OpenOperations, Anonymous, Session, Full, Roles

LEMMA EntryFacts ==
  ASSUME NEW S, NEW T, S \subseteq T, NEW entries, entries \subseteq [user : User, sid : S, add : BOOLEAN],
         NEW u \in User, NEW s \in T, NEW add \in BOOLEAN
  PROVE  /\ entries \subseteq [user : User, sid : T, add : BOOLEAN]
         /\ [user |-> u, sid |-> s, add |-> add] \in [user : User, sid : T, add : BOOLEAN]
<1>1. [user : User, sid : S, add : BOOLEAN] \subseteq [user : User, sid : T, add : BOOLEAN]
  OBVIOUS
<1>2. QED
  BY <1>1

LEMMA GrowingJobs ==
  ASSUME Core, Grows, NEW q \in Request
  PROVE  JobOK(request[q], issued', holder', cleared', account')
<1>1. /\ request[q] \in Job /\ JobOK(request[q], issued, holder, cleared, account)
      /\ request[q].user \in User \cup {NoUser} /\ request[q].copy \in Session
      /\ request[q].sid \in Sid \cup {NoSid}
  BY JobFacts
<1>2. SessionOK(request[q].copy, request[q].sid, issued', holder', cleared')
  BY <1>1 DEF JobOK, SessionOK, Grows
<1>3. Full(request[q].copy) /\ request[q].user = request[q].copy.user => request[q].user \in User
  BY <1>1 DEF Full
<1>4. QED
  BY <1>1, <1>2, <1>3 DEF JobOK, Grows

LEMMA JobStep ==
  ASSUME Core, Grows, NEW r \in Request, NEW j \in Job, Step(r, j),
         JobOK(j, issued', holder', cleared', account')
  PROVE  Jobs'
<1>1. request' = [request EXCEPT ![r] = j] /\ request \in [Request -> Job]
  BY DEF Step, Core, Jobs
<1>2. request' \in [Request -> Job]
  BY <1>1
<1>3. ASSUME NEW q \in Request PROVE JobOK(request'[q], issued', holder', cleared', account')
  BY <1>1, GrowingJobs
<1>4. QED
  BY <1>2, <1>3 DEF Jobs

LEMMA IdleStep ==
  ASSUME Core, Grows, NEW r \in Request, Step(r, Idle)
  PROVE  Jobs'
<1>1. JobOK(Idle, issued', holder', cleared', account')
  BY IdleFacts DEF JobOK, SessionOK, Idle, Anonymous, Full, AfterGates
<1>2. QED
  BY <1>1, IdleFacts, JobStep

LEMMA RespondStep ==
  ASSUME Core, Grows, NEW r \in Request, NEW sid \in Sid \cup {NoSid}, NEW copy \in Session,
         NEW changed \in BOOLEAN, Respond(r, sid, copy, changed),
         SessionOK(copy, sid, issued', holder', cleared')
  PROVE  Jobs'
<1> DEFINE j == [Idle EXCEPT !.pc = "end", !.sid = sid, !.copy = copy, !.changed = changed]
<1>1. j \in Job
  BY IdleFacts DEF Job, Points
<1>2. j.pc = "end" /\ j.sid = sid /\ j.copy = copy
  BY DEF Idle
<1>3. Step(r, j)
  BY DEF Respond
<1> HIDE DEF j
<1>4. JobOK(j, issued', holder', cleared', account')
  BY <1>2 DEF JobOK, AfterGates
<1>5. QED
  BY <1>1, <1>3, <1>4, JobStep

\* A step that only changes requests.
LEMMA QuietStep ==
  ASSUME Core, Jobs', UNCHANGED <<account, store, index, issued, tracking, holder, cleared, lost>>,
         begun' \in 0..MaxBegun, edits' \in 0..MaxEdits, failures' \in 0..MaxFailures
  PROVE  Core'
BY DEF Core, Others, Stores, Live

LEMMA QuietGrows ==
  ASSUME UNCHANGED <<issued, holder, cleared, account>>
  PROVE  Grows
BY DEF Grows

LEMMA CountersStep ==
  ASSUME Core
  PROVE  /\ UNCHANGED counts => /\ begun' \in 0..MaxBegun /\ edits' \in 0..MaxEdits
                                /\ failures' \in 0..MaxFailures
         /\ Fails => /\ begun' \in 0..MaxBegun /\ edits' \in 0..MaxEdits
                     /\ failures' \in 0..MaxFailures
         /\ Edits => /\ begun' \in 0..MaxBegun /\ edits' \in 0..MaxEdits
                     /\ failures' \in 0..MaxFailures
BY SessionsAssumption DEF Core, Others, counts, Fails, Edits

LEMMA InitCore == Init => Core
<1> SUFFICES ASSUME Init PROVE Core
  OBVIOUS
<1>1. JobOK(Idle, issued, holder, cleared, account)
  BY IdleFacts DEF JobOK, SessionOK, Idle, Anonymous, Full, AfterGates
<1>2. Jobs
  BY <1>1, IdleFacts DEF Init, Jobs
<1>3. Others
  BY SessionsAssumption, AccountsAssumption DEF Init, Others
<1>4. Stores
  BY DEF Init, Stores, Live
<1>5. QED
  BY <1>2, <1>3, <1>4 DEF Core

(***************************************************************************)
(* Steps that change requests only: those of the gates, and the answers.   *)
(***************************************************************************)
LEMMA EnterStep ==
  ASSUME Core, Grows, UNCHANGED <<issued, holder, cleared, account>>,
         NEW r \in Request, NEW job \in Job, Enter(r, job),
         SessionOK(job.copy, job.sid, issued, holder, cleared),
         job.user # NoUser => job.user = job.copy.user /\ account[job.user] # NoAccount
  PROVE  Jobs'
<1>1. PICK op \in Operations :
        IF Admitted(op, job.user # NoUser, job.role, job.copy.pending)
        THEN Step(r, [job EXCEPT !.pc = "admitted", !.op = op])
        ELSE Respond(r, job.sid, job.copy, job.changed)
  BY DEF Enter
<1>2. /\ job.sid \in Sid \cup {NoSid} /\ job.copy \in Session /\ job.changed \in BOOLEAN
      /\ job.user \in User \cup {NoUser}
  BY DEF Job
<1>3. CASE ~Admitted(op, job.user # NoUser, job.role, job.copy.pending)
  <2>1. Respond(r, job.sid, job.copy, job.changed)
    BY <1>1, <1>3
  <2>2. SessionOK(job.copy, job.sid, issued', holder', cleared')
    OBVIOUS
  <2>3. QED
    BY <1>2, <2>1, <2>2, RespondStep
<1>4. CASE Admitted(op, job.user # NoUser, job.role, job.copy.pending)
  <2> DEFINE j == [job EXCEPT !.pc = "admitted", !.op = op]
  <2>1. Step(r, j)
    BY <1>1, <1>4
  <2>2. /\ j \in Job /\ j.pc = "admitted" /\ j.op = op
        /\ j.copy = job.copy /\ j.sid = job.sid /\ j.user = job.user
    BY DEF Job, Points
  <2> HIDE DEF j
  <2>3. op \notin OpenOperations => job.user # NoUser /\ ~job.copy.pending
    BY <1>4 DEF Admitted, RequireAuth
  <2>4. JobOK(j, issued', holder', cleared', account')
    BY <2>2, <2>3 DEF JobOK, AfterGates, Full
  <2>5. QED
    BY <2>1, <2>2, <2>4, JobStep
<1>5. QED
  BY <1>3, <1>4

LEMMA BeginCore ==
  ASSUME Core, NEW r \in Request, Begin(r)
  PROVE  Core'
<1> DEFINE old == request[r]
<1>1. /\ old \in Job /\ JobOK(old, issued, holder, cleared, account)
      /\ old.copy \in Session /\ old.sid \in Sid \cup {NoSid} /\ old.user \in User \cup {NoUser}
  BY JobFacts
<1>2. UNCHANGED <<account, store, index, issued, tracking, holder, cleared, lost>>
  BY DEF Begin, Load, LoadUser, LoadNobody, LoadUserFails, Entering
<1>3. Grows
  BY <1>2, QuietGrows
<1>4. begun' \in 0..MaxBegun /\ edits' \in 0..MaxEdits /\ failures' \in 0..MaxFailures
  <2>1. ASSUME NEW s, NEW changes, Load(r, s, changes)
        PROVE  begun' \in 0..MaxBegun /\ UNCHANGED <<edits, failures>>
    BY <2>1, SessionsAssumption DEF Load, Core, Others
  <2>2. ASSUME LoadUser(r) \/ LoadNobody(r) PROVE UNCHANGED counts
    BY <2>2 DEF LoadUser, LoadNobody
  <2>3. ASSUME LoadUserFails(r) PROVE Fails
    BY <2>3 DEF LoadUserFails
  <2>4. QED
    BY <2>1, <2>2, <2>3, CountersStep DEF Begin, Core, Others
<1>5. CASE \E s \in Sid \cup {NoSid}, changes \in BOOLEAN : Load(r, s, changes)
  <2>1. PICK s \in Sid \cup {NoSid}, changes \in BOOLEAN : Load(r, s, changes)
    BY <1>5
  <2> DEFINE session == IF s \in Live THEN store[s] ELSE Anonymous
             j == [Idle EXCEPT !.pc = "loaded", !.sid = Presented(s), !.copy = session,
                               !.changed = changes]
  <2>2. /\ session \in Session /\ Presented(s) \in Sid \cup {NoSid}
        /\ SessionOK(session, Presented(s), issued, holder, cleared)
    BY IdleFacts DEF Core, Others, Stores, Live, Presented, SessionOK
  <2>3. Step(r, j)
    BY <2>1 DEF Load
  <2> HIDE DEF session
  <2>4. /\ j \in Job /\ j.pc = "loaded" /\ j.copy = session /\ j.sid = Presented(s)
        /\ j.user = NoUser
    BY <2>2, IdleFacts DEF Job, Points, Idle
  <2> HIDE DEF j
  <2>5. JobOK(j, issued', holder', cleared', account')
    BY <1>2, <2>2, <2>4 DEF JobOK, AfterGates
  <2>6. QED
    BY <1>2, <1>3, <1>4, <2>3, <2>4, <2>5, JobStep, QuietStep
<1>6. CASE LoadUser(r)
  <2> DEFINE j == [old EXCEPT !.user = old.copy.user, !.role = account[old.copy.user].role]
  <2>1. Enter(r, j) /\ old.copy.user # NoUser /\ account[old.copy.user] # NoAccount
    BY <1>6 DEF LoadUser
  <2>2. old.copy.user \in User /\ account[old.copy.user].role \in Roles
    BY <1>1, <2>1 DEF Session, Core, Others, Account
  <2>3. /\ j \in Job /\ j.copy = old.copy /\ j.sid = old.sid /\ j.user = old.copy.user
    BY <1>1, <2>2 DEF Job
  <2> HIDE DEF j
  <2>4. SessionOK(j.copy, j.sid, issued, holder, cleared)
    BY <1>1, <2>3 DEF JobOK
  <2>5. QED
    BY <1>2, <1>3, <1>4, <2>1, <2>3, <2>4, EnterStep, QuietStep
<1>7. CASE LoadNobody(r)
  <2> DEFINE j == [old EXCEPT !.copy.user = NoUser, !.changed = @ \/ old.copy.user # NoUser]
  <2>1. Enter(r, j) /\ old.pc = "loaded"
    BY <1>7 DEF LoadNobody, Entering, At
  <2>2. /\ j \in Job /\ j.copy.user = NoUser /\ j.sid = old.sid /\ j.user = old.user
    BY <1>1 DEF Job, Session
  <2> HIDE DEF j
  <2>3. SessionOK(j.copy, j.sid, issued, holder, cleared)
    BY <1>1, <2>2 DEF JobOK, SessionOK, Full
  <2>4. j.user = NoUser
    BY <1>1, <2>1, <2>2 DEF JobOK
  <2>5. QED
    BY <1>2, <1>3, <1>4, <2>1, <2>2, <2>3, <2>4, EnterStep, QuietStep
<1>8. CASE LoadUserFails(r)
  <2>1. Enter(r, old) /\ old.pc = "loaded"
    BY <1>8 DEF LoadUserFails, Entering, At
  <2>2. SessionOK(old.copy, old.sid, issued, holder, cleared) /\ old.user = NoUser
    BY <1>1, <2>1 DEF JobOK
  <2>3. QED
    BY <1>1, <1>2, <1>3, <1>4, <2>1, <2>2, EnterStep, QuietStep
<1>9. QED
  BY <1>5, <1>6, <1>7, <1>8 DEF Begin

LEMMA StoresStep ==
  ASSUME Core, Grows,
         \A s \in Sid : store'[s] # Absent =>
            \/ s \in issued /\ store'[s] = store[s]
            \/ s \in issued' /\ SessionOK(store'[s], s, issued', holder', cleared'),
         \A s \in Sid \ issued' : holder'[s] = holder[s]
  PROVE  Stores'
<1>1. ASSUME NEW s \in Sid, store'[s] # Absent
      PROVE  s \in issued' /\ SessionOK(store'[s], s, issued', holder', cleared')
  <2>1. CASE s \in issued /\ store'[s] = store[s]
    <3>1. SessionOK(store[s], s, issued, holder, cleared)
      BY <1>1, <2>1 DEF Core, Stores, Live
    <3>2. QED
      BY <2>1, <3>1 DEF SessionOK, Grows
  <2>2. QED
    BY <1>1, <2>1
<1>2. QED
  BY <1>1 DEF Stores, Live, Core, Grows

\* A step that also deletes sessions, but stores none.
LEMMA DeletingStep ==
  ASSUME Core, Grows, UNCHANGED <<issued, holder>>,
         \A s \in Sid : store'[s] \in {store[s], Absent}
  PROVE  Stores'
BY StoresStep DEF Core, Stores, Live

LEMMA FinishCore ==
  ASSUME Core, NEW r \in Request, Finish(r)
  PROVE  Core'
<1> DEFINE old == request[r]
<1>1. /\ old \in Job /\ JobOK(old, issued, holder, cleared, account)
      /\ old.copy \in Session /\ old.sid \in Sid \cup {NoSid} /\ old.changed \in BOOLEAN
      /\ SessionOK(old.copy, old.sid, issued, holder, cleared)
  BY JobFacts DEF JobOK
<1>2. Grows
  BY DEF Finish, Browse, Decline, EndNew, EndChanged, EndUnchanged, Dies, Grows
<1>3. begun' \in 0..MaxBegun /\ edits' \in 0..MaxEdits /\ failures' \in 0..MaxFailures
  BY CountersStep DEF Finish, Browse, Decline, EndNew, EndChanged, EndUnchanged, Dies
<1>4. CASE Browse(r) \/ Decline(r)
  <2>1. /\ Respond(r, old.sid, old.copy, old.changed)
        /\ UNCHANGED <<account, store, index, issued, tracking, holder, cleared, lost>>
    BY <1>4 DEF Browse, Decline, Answer
  <2>2. SessionOK(old.copy, old.sid, issued', holder', cleared')
    BY <1>1, <2>1
  <2>3. QED
    BY <1>1, <1>2, <1>3, <2>1, <2>2, RespondStep, QuietStep
<1>5. CASE EndUnchanged(r) \/ Dies(r)
  BY <1>2, <1>3, <1>5, IdleStep, QuietStep DEF EndUnchanged, Dies
<1>6. CASE \E s \in Sid : EndNew(r, s)
  <2>1. PICK s \in Sid : EndNew(r, s)
    BY <1>6
  <2>2. /\ old.sid = NoSid /\ s \notin issued /\ store' = [store EXCEPT ![s] = old.copy]
        /\ issued' = issued \cup {s} /\ Step(r, Idle)
        /\ UNCHANGED <<account, index, tracking, holder, cleared, lost>>
    BY <2>1 DEF EndNew, Fresh
  <2>3. old.copy.user = NoUser
    BY <1>1, <2>2, SessionsAssumption DEF SessionOK, Core, Others
  <2>4. SessionOK(old.copy, s, issued', holder', cleared')
    BY <2>2, <2>3 DEF SessionOK, Full
  <2>5. Others'
    BY <1>1, <1>3, <2>2 DEF Core, Others
  <2>6. Stores'
    <3>1. \A x \in Sid : store'[x] = IF x = s THEN old.copy ELSE store[x]
      BY <2>2 DEF Core, Others
    <3>2. QED
      BY <1>2, <2>2, <2>4, <3>1, StoresStep DEF Core, Stores, Live
  <2>7. QED
    BY <1>2, <2>2, <2>5, <2>6, IdleStep DEF Core
<1>7. CASE EndChanged(r)
  <2>1. /\ old.sid \in Sid /\ store' = [store EXCEPT ![old.sid] = old.copy] /\ Step(r, Idle)
        /\ UNCHANGED <<account, index, issued, tracking, holder, cleared, lost>>
    BY <1>1, <1>7 DEF EndChanged
  <2>2. old.sid \in issued
    BY <1>1, <2>1, SessionsAssumption DEF SessionOK
  <2>3. Others'
    BY <1>1, <1>3, <2>1 DEF Core, Others
  <2>4. Stores'
    <3>1. \A x \in Sid : store'[x] = IF x = old.sid THEN old.copy ELSE store[x]
      BY <2>1 DEF Core, Others
    <3>2. QED
      BY <1>1, <1>2, <2>1, <2>2, <3>1, StoresStep DEF Core, Stores, Live
  <2>5. QED
    BY <1>2, <2>1, <2>3, <2>4, IdleStep DEF Core
<1>8. QED
  BY <1>4, <1>5, <1>6, <1>7 DEF Finish

(***************************************************************************)
(* Steps around the requests.                                              *)
(***************************************************************************)
LEMMA AroundCore ==
  ASSUME Core, \/ \E t \in tracking : Track(t) \/ TrackFails(t)
               \/ \E s \in Sid : Expire(s)
               \/ \E u \in User : ToggleActive(u) \/ \E role \in Granted : UpdateRole(u, role)
  PROVE  Core'
<1>1. CASE \E t \in tracking : Track(t) \/ TrackFails(t)
  <2>1. PICK t \in tracking : Track(t) \/ TrackFails(t)
    BY <1>1
  <2>2. /\ UNCHANGED <<account, store, issued, request, holder, cleared>>
        /\ tracking' \subseteq tracking /\ t.user \in User /\ t.sid \in issued
    BY <2>1 DEF Track, TrackFails, Core, Others
  <2>3. begun' \in 0..MaxBegun /\ edits' \in 0..MaxEdits /\ failures' \in 0..MaxFailures
    BY <2>1, CountersStep DEF Track, TrackFails, RedisFails
  <2>4. index' \in [User -> SUBSET issued] /\ lost' \subseteq issued
    BY <2>1, <2>2 DEF Track, TrackFails, Core, Others, Undead
  <2>5. QED
    BY <2>2, <2>3, <2>4 DEF Core, Others, Jobs, Stores, Live
<1>2. CASE \E s \in Sid : Expire(s)
  <2>1. PICK s \in Sid : Expire(s)
    BY <1>2
  <2>2. /\ store' = [store EXCEPT ![s] = Absent]
        /\ UNCHANGED <<account, index, issued, tracking, request, holder, cleared, lost>>
    BY <2>1 DEF Expire
  <2>3. begun' \in 0..MaxBegun /\ edits' \in 0..MaxEdits /\ failures' \in 0..MaxFailures
    BY <2>1, CountersStep DEF Expire
  <2>4. Grows
    BY <2>2, QuietGrows
  <2>5. Stores' /\ Others'
    BY <2>2, <2>3, <2>4, DeletingStep DEF Core, Others
  <2>6. QED
    BY <2>2, <2>5 DEF Core, Jobs
<1>3. CASE \E u \in User : ToggleActive(u) \/ \E role \in Granted : UpdateRole(u, role)
  <2>1. PICK u \in User : ToggleActive(u) \/ \E role \in Granted : UpdateRole(u, role)
    BY <1>3
  <2>2. /\ UNCHANGED <<store, index, issued, tracking, request, holder, cleared, lost>>
        /\ begun' \in 0..MaxBegun /\ edits' \in 0..MaxEdits /\ failures' \in 0..MaxFailures
    BY <2>1, CountersStep DEF ToggleActive, UpdateRole
  <2>3. account[u] \in Account
    BY <2>1 DEF ToggleActive, UpdateRole, Core, Others
  <2>4. PICK a \in Account : account' = [account EXCEPT ![u] = a]
    <3>1. CASE ToggleActive(u)
      <4>1. [account[u] EXCEPT !.active = ~@] \in Account
        BY <2>3 DEF Account
      <4>2. QED
        BY <3>1, <4>1 DEF ToggleActive
    <3>2. CASE \E role \in Granted : UpdateRole(u, role)
      <4>1. PICK role \in Granted : UpdateRole(u, role)
        BY <3>2
      <4>2. [account[u] EXCEPT !.role = role] \in Account
        BY <2>3, SessionsAssumption DEF Account
      <4>3. QED
        BY <4>1, <4>2 DEF UpdateRole
    <3>3. QED
      BY <2>1, <3>1, <3>2
  <2>5. Grows /\ account' \in [User -> Account \cup {NoAccount}]
    BY <2>2, <2>4, AccountsAssumption DEF Grows, Core, Others
  <2>6. Jobs'
    BY <2>2, <2>5, GrowingJobs DEF Jobs, Core
  <2>7. QED
    BY <2>2, <2>5, <2>6 DEF Core, Others, Stores, Live
<1>4. QED
  BY <1>1, <1>2, <1>3

(***************************************************************************)
(* Opening sessions.                                                       *)
(***************************************************************************)
LEMMA RecogniseCore ==
  ASSUME Core, NEW r \in Request, NEW u \in User, NEW facts \in Account,
         Handling(r, "register") \/ Handling(r, "login") \/ Handling(r, "oauth"),
         Recognise(r, u, facts), account' = account \/ account' = [account EXCEPT ![u] = facts]
  PROVE  Core'
<1> DEFINE old == request[r]
           j == [old EXCEPT !.pc = "regenerate", !.user = u, !.role = facts.role,
                            !.twoFactor = facts.twoFactor]
<1>1. /\ old \in Job /\ JobOK(old, issued, holder, cleared, account)
      /\ old.op \in {"register", "login", "oauth"}
  BY JobFacts DEF Handling
<1>2. UNCHANGED <<store, index, issued, tracking, holder, cleared, lost, counts>> /\ Step(r, j)
  BY DEF Recognise
<1>3. facts.role \in Roles /\ facts.twoFactor \in BOOLEAN
  BY DEF Account
<1>4. /\ j \in Job
      /\ j.pc = "regenerate" /\ j.user = u /\ j.op = old.op /\ j.copy = old.copy /\ j.sid = old.sid
  BY <1>1, <1>3 DEF Job, Points
<1> HIDE DEF j
<1>5. account' \in [User -> Account \cup {NoAccount}] /\ Grows
  BY <1>2, AccountsAssumption DEF Core, Others, Grows
<1>6. JobOK(j, issued', holder', cleared', account')
  BY <1>1, <1>2, <1>4 DEF JobOK, OpenOperations
<1>7. Jobs'
  BY <1>2, <1>4, <1>5, <1>6, JobStep
<1>8. QED
  BY <1>2, <1>5, <1>7, CountersStep DEF Core, Others, Stores, Live

LEMMA RegenerateCore ==
  ASSUME Core, NEW r \in Request, NEW s \in Sid, Regenerate(r, s)
  PROVE  Core'
<1> DEFINE old == request[r]
<1>1. /\ old \in Job /\ JobOK(old, issued, holder, cleared, account)
      /\ SessionOK(old.copy, old.sid, issued, holder, cleared)
      /\ old.twoFactor \in BOOLEAN /\ old.role \in Roles
  BY JobFacts DEF JobOK
<1> DEFINE free == IF old.op = "password" THEN old.sid \in cleared
                   ELSE old.role = "customer" /\ ~old.twoFactor
<1>2. /\ old.pc = "regenerate" /\ s \notin issued /\ issued' = issued \cup {s}
      /\ store' = [x \in Sid |-> IF x = old.sid THEN Absent ELSE store[x]]
      /\ tracking' = tracking \cup {[user |-> old.user, sid |-> s, add |-> TRUE]}
      /\ Respond(r, s, Opened(old), TRUE)
      /\ holder' = [holder EXCEPT ![s] = old.user]
      /\ cleared' = IF free THEN cleared \cup {s} ELSE cleared
      /\ UNCHANGED <<account, index, lost, counts>>
  BY DEF Regenerate, At, NewIds, Fresh, Entered
<1>3. old.user \in User
  BY <1>1, <1>2 DEF JobOK
<1>4. Opened(old) \in Session /\ Opened(old).user = old.user /\ Opened(old).pending = FactorDue(old)
  <2>1. FactorDue(old) \in BOOLEAN /\ (FactorDue(old) /\ ~old.twoFactor) \in BOOLEAN
    BY DEF FactorDue
  <2>2. QED
    BY <1>3, <2>1, IdleFacts DEF Opened, Anonymous, Session
<1>5. ~FactorDue(old) => free
  <2>1. CASE old.op = "password"
    <3>1. Full(old.copy)
      BY <1>1, <1>2, <2>1 DEF JobOK, AfterGates, OpenOperations
    <3>2. QED
      BY <1>1, <2>1, <3>1 DEF SessionOK
  <2>2. CASE old.op # "password"
    BY <2>2 DEF FactorDue
  <2>3. QED
    BY <2>1, <2>2
<1>6. Grows /\ holder' \in [Sid -> User \cup {NoUser}] /\ holder'[s] = old.user
  BY <1>2, <1>3 DEF Grows, Core, Others
<1>7. SessionOK(Opened(old), s, issued', holder', cleared')
  BY <1>2, <1>4, <1>5, <1>6 DEF SessionOK, Full
<1>8. Jobs'
  BY <1>2, <1>4, <1>6, <1>7, RespondStep
<1>9. Others'
  <2>1. store' \in [Sid -> Session \cup {Absent}] /\ cleared' \subseteq issued'
    BY <1>2 DEF Core, Others
  <2>2. tracking' \subseteq [user : User, sid : issued', add : BOOLEAN]
    <3>1. /\ issued \subseteq issued' /\ s \in issued'
          /\ tracking \subseteq [user : User, sid : issued, add : BOOLEAN]
      BY <1>2 DEF Core, Others
    <3>2. /\ tracking \subseteq [user : User, sid : issued', add : BOOLEAN]
          /\ [user |-> old.user, sid |-> s, add |-> TRUE] \in [user : User, sid : issued', add : BOOLEAN]
      BY <1>3, <3>1, EntryFacts
    <3>3. QED
      BY <1>2, <3>2
  <2>3. QED
    BY <1>2, <1>6, <2>1, <2>2, CountersStep DEF Core, Others
<1>10. Stores'
  <2>1. \A x \in Sid : store'[x] # Absent => x \in issued /\ store'[x] = store[x]
    BY <1>2 DEF Core, Stores, Live
  <2>2. \A x \in Sid \ issued' : holder'[x] = holder[x]
    BY <1>2 DEF Core, Others
  <2>3. QED
    BY <1>6, <2>1, <2>2, StoresStep
<1>11. QED
  BY <1>8, <1>9, <1>10 DEF Core

LEMMA GiveFactorCore ==
  ASSUME Core, NEW r \in Request, NEW copy \in Session, GiveFactor(r, copy),
         request[r].copy.user # NoUser, copy.user = request[r].copy.user,
         account' = account \/ \E a \in Account : account' = [account EXCEPT ![copy.user] = a]
  PROVE  Core'
<1> DEFINE old == request[r]
<1>1. /\ old.sid \in Sid \cup {NoSid} /\ SessionOK(old.copy, old.sid, issued, holder, cleared)
  BY JobFacts DEF JobOK
<1>2. /\ Respond(r, old.sid, copy, TRUE) /\ cleared' = cleared \cup {old.sid}
      /\ UNCHANGED <<store, index, issued, tracking, holder, lost, counts>>
  BY DEF GiveFactor
<1>3. old.sid \in issued /\ holder[old.sid] = copy.user
  BY <1>1 DEF SessionOK
<1>4. account' \in [User -> Account \cup {NoAccount}] /\ Grows
  BY <1>2, AccountsAssumption DEF Core, Others, Grows
<1>5. SessionOK(copy, old.sid, issued', holder', cleared')
  BY <1>2, <1>3 DEF SessionOK
<1>6. Jobs'
  BY <1>1, <1>2, <1>4, <1>5, RespondStep
<1>7. Others'
  BY <1>2, <1>3, <1>4, CountersStep DEF Core, Others
<1>8. Stores'
  BY <1>2, <1>4, StoresStep DEF Core, Stores, Live
<1>9. QED
  BY <1>6, <1>7, <1>8 DEF Core

LEMMA OpenCore ==
  ASSUME Core, NEW r \in Request, Open(r)
  PROVE  Core'
<1> DEFINE old == request[r]
<1>1. /\ old \in Job /\ JobOK(old, issued, holder, cleared, account)
      /\ old.copy \in Session /\ old.sid \in Sid \cup {NoSid}
      /\ SessionOK(old.copy, old.sid, issued, holder, cleared)
  BY JobFacts DEF JobOK
<1>2. ASSUME NEW u \in User, account[u] # NoAccount PROVE account[u] \in Account
  BY <1>2 DEF Core, Others
<1>3. NewAccount("local", "customer") \in Account /\ NewAccount("google", "customer") \in Account
      /\ NewAccount("github", "support_staff") \in Account
  BY DEF NewAccount, Account, Roles
<1>4. CASE \E u \in User : Register(r, u) \/ Login(r, u) \/ OAuthKnown(r, u) \/ OAuthNew(r, u)
  <2>1. PICK u \in User : Register(r, u) \/ Login(r, u) \/ OAuthKnown(r, u) \/ OAuthNew(r, u)
    BY <1>4
  <2>2. CASE Register(r, u)
    <3>1. /\ account' = [account EXCEPT ![u] = NewAccount("local", "customer")]
          /\ Handling(r, "register") /\ Recognise(r, u, account'[u])
      BY <2>2 DEF Register
    <3>2. account'[u] = NewAccount("local", "customer")
      BY <3>1 DEF Core, Others
    <3>3. Recognise(r, u, NewAccount("local", "customer"))
      BY <3>1, <3>2
    <3>4. QED
      BY <1>3, <3>1, <3>3, RecogniseCore
  <2>3. CASE Login(r, u) \/ OAuthKnown(r, u)
    <3>1. /\ Handling(r, "login") \/ Handling(r, "oauth")
          /\ Recognise(r, u, account[u]) /\ account' = account /\ account[u] # NoAccount
      BY <2>3 DEF Login, OAuthKnown
    <3>2. account[u] \in Account
      BY <1>2, <3>1
    <3>3. QED
      BY <3>1, <3>2, RecogniseCore
  <2>4. CASE OAuthNew(r, u)
    BY <1>3, <2>4, RecogniseCore DEF OAuthNew
  <2>5. QED
    BY <2>1, <2>2, <2>3, <2>4
<1>5. CASE \E s \in Sid : Regenerate(r, s)
  BY <1>5, RegenerateCore
<1>6. CASE RegenerateFails(r)
  <2>1. /\ Respond(r, NoSid, Anonymous, TRUE) /\ Fails
        /\ UNCHANGED <<account, store, index, issued, tracking, holder, cleared, lost>>
    BY <1>6 DEF RegenerateFails
  <2>2. Grows /\ SessionOK(Anonymous, NoSid, issued', holder', cleared')
    BY <2>1, IdleFacts, QuietGrows DEF SessionOK
  <2>3. Jobs'
    BY <2>1, <2>2, IdleFacts, RespondStep
  <2>4. QED
    BY <2>1, <2>3, QuietStep, CountersStep
<1>7. CASE Setup(r)
  <2> DEFINE copy == [old.copy EXCEPT !.secret = TRUE]
  <2>1. /\ Respond(r, old.sid, copy, TRUE) /\ UNCHANGED counts
        /\ UNCHANGED <<account, store, index, issued, tracking, holder, cleared, lost>>
    BY <1>7 DEF Setup
  <2>2. copy \in Session /\ copy.user = old.copy.user /\ copy.pending = old.copy.pending
    BY <1>1 DEF Session
  <2> HIDE DEF copy
  <2>3. Grows /\ SessionOK(copy, old.sid, issued', holder', cleared')
    BY <1>1, <2>1, <2>2, QuietGrows DEF SessionOK, Full
  <2>4. Jobs'
    BY <1>1, <2>1, <2>2, <2>3, RespondStep
  <2>5. QED
    BY <2>1, <2>4, QuietStep, CountersStep
<1>8. CASE Confirm(r)
  <2> DEFINE copy == [old.copy EXCEPT !.secret = FALSE, !.enroll = FALSE, !.pending = FALSE]
  <2>1. /\ old.pc = "admitted" /\ old.op = "confirm" /\ GiveFactor(r, copy)
        /\ account' = [account EXCEPT ![old.copy.user].twoFactor = TRUE]
    BY <1>8 DEF Confirm, Handling, At
  <2>2. copy \in Session /\ copy.user = old.copy.user
    BY <1>1 DEF Session
  <2> HIDE DEF copy
  <2>3. old.copy.user # NoUser /\ old.copy.user \in User /\ account[old.copy.user] # NoAccount
    BY <1>1, <2>1 DEF JobOK, AfterGates, OpenOperations, Full, Session
  <2>4. [account[old.copy.user] EXCEPT !.twoFactor = TRUE] \in Account
    BY <1>2, <2>3 DEF Account
  <2>5. \E a \in Account : account' = [account EXCEPT ![copy.user] = a]
    BY <2>1, <2>2, <2>4
  <2>6. QED
    BY <2>1, <2>2, <2>3, <2>5, GiveFactorCore
<1>9. CASE Challenge(r)
  <2> DEFINE copy == [old.copy EXCEPT !.pending = FALSE]
  <2>1. old.copy.user # NoUser /\ GiveFactor(r, copy) /\ account' = account
    BY <1>9 DEF Challenge
  <2>2. copy \in Session /\ copy.user = old.copy.user
    BY <1>1 DEF Session
  <2> HIDE DEF copy
  <2>3. QED
    BY <2>1, <2>2, GiveFactorCore
<1>10. QED
  BY <1>4, <1>5, <1>6, <1>7, <1>8, <1>9 DEF Open

(***************************************************************************)
(* Closing sessions.                                                       *)
(***************************************************************************)
\* Behind the gates of a kill; the copy and the user stay what they were.
LEMMA KillingStep ==
  ASSUME Core, Grows, NEW r \in Request, NEW j \in Job, Step(r, j),
         request[r].pc \in AfterGates, j.pc \in AfterGates \ {"regenerate"},
         j.op = request[r].op, j.copy = request[r].copy, j.sid = request[r].sid,
         j.user = request[r].user,
         j.pc \in {"read", "delete", "unindex"} => j.target \in User,
         UNCHANGED <<issued, holder, cleared, account>>
  PROVE  Jobs'
<1>1. JobOK(request[r], issued, holder, cleared, account)
  BY JobFacts
<1>2. JobOK(j, issued', holder', cleared', account')
  BY <1>1 DEF JobOK, AfterGates
<1>3. QED
  BY <1>2, JobStep

LEMMA LogoutCore ==
  ASSUME Core, NEW r \in Request, Logout(r) \/ LogoutFails(r)
  PROVE  Core'
<1> DEFINE old == request[r]
<1>1. /\ old.sid \in Sid \cup {NoSid} /\ SessionOK(old.copy, old.sid, issued, holder, cleared)
      /\ old.copy.user \in User \cup {NoUser}
  BY JobFacts DEF JobOK, Session
<1>2. Step(r, Idle) /\ UNCHANGED <<account, index, issued, holder, cleared, lost>>
  BY DEF Logout, LogoutFails
<1>3. Grows
  BY <1>2, QuietGrows
<1>4. begun' \in 0..MaxBegun /\ edits' \in 0..MaxEdits /\ failures' \in 0..MaxFailures
  BY CountersStep DEF Logout, LogoutFails
<1>5. /\ store' \in [Sid -> Session \cup {Absent}]
      /\ \A s \in Sid : store'[s] \in {store[s], Absent}
  BY DEF Logout, LogoutFails, Core, Others
<1>6. tracking' \subseteq [user : User, sid : issued, add : BOOLEAN]
  <2>1. tracking \subseteq [user : User, sid : issued, add : BOOLEAN]
    BY DEF Core, Others
  <2>2. \/ tracking' = tracking
        \/ /\ old.copy.user # NoUser
           /\ tracking' = tracking \cup {[user |-> old.copy.user, sid |-> old.sid, add |-> FALSE]}
    BY DEF Logout, LogoutFails
  <2>3. CASE old.copy.user # NoUser
    <3>1. old.copy.user \in User /\ old.sid \in issued
      BY <1>1, <2>3 DEF SessionOK
    <3>2. [user |-> old.copy.user, sid |-> old.sid, add |-> FALSE]
            \in [user : User, sid : issued, add : BOOLEAN]
      BY <2>1, <3>1, EntryFacts
    <3>3. QED
      BY <2>1, <2>2, <3>2
  <2>4. QED
    BY <2>1, <2>2, <2>3
<1>7. QED
  BY <1>2, <1>3, <1>4, <1>5, <1>6, IdleStep, DeletingStep DEF Core, Others

LEMMA CloseCore ==
  ASSUME Core, NEW r \in Request, Close(r)
  PROVE  Core'
<1> DEFINE old == request[r]
<1>1. /\ old \in Job /\ JobOK(old, issued, holder, cleared, account)
      /\ old.copy \in Session /\ old.sid \in Sid \cup {NoSid} /\ old.changed \in BOOLEAN
      /\ old.user \in User \cup {NoUser} /\ old.found \in SUBSET Sid /\ old.open \in SUBSET Sid
      /\ SessionOK(old.copy, old.sid, issued, holder, cleared)
  BY JobFacts DEF JobOK
<1>2. CASE Logout(r) \/ LogoutFails(r)
  BY <1>2, LogoutCore
<1>3. ASSUME Answer(r), UNCHANGED <<issued, holder, cleared, account>> PROVE Jobs'
  <2>1. SessionOK(old.copy, old.sid, issued', holder', cleared')
    BY <1>1, <1>3
  <2>2. QED
    BY <1>1, <1>3, <2>1, QuietGrows, RespondStep DEF Answer
<1>4. CASE ChangePassword(r)
  <2> DEFINE j == [old EXCEPT !.pc = "read", !.target = old.user]
  <2>1. /\ Step(r, j) /\ old.pc = "admitted" /\ old.op = "password" /\ UNCHANGED counts
        /\ UNCHANGED <<account, store, index, issued, tracking, holder, cleared, lost>>
    BY <1>4 DEF ChangePassword, Handling, At
  <2>2. /\ j \in Job /\ j.pc = "read" /\ j.op = old.op /\ j.copy = old.copy
        /\ j.sid = old.sid /\ j.user = old.user /\ j.target = old.user
    BY <1>1 DEF Job, Points
  <2> HIDE DEF j
  <2>3. j.target \in User
    BY <1>1, <2>1, <2>2 DEF JobOK, AfterGates, OpenOperations, Full
  <2>4. Jobs'
    BY <2>1, <2>2, <2>3, QuietGrows, KillingStep DEF AfterGates
  <2>5. QED
    BY <2>1, <2>4, QuietStep, CountersStep
<1>5. CASE \E u \in User : KillUser(r, u)
  <2>1. PICK u \in User : KillUser(r, u)
    BY <1>5
  <2> DEFINE j == [old EXCEPT !.pc = "read", !.target = u]
  <2>2. /\ Step(r, j) /\ old.pc = "admitted" /\ UNCHANGED counts
        /\ UNCHANGED <<account, store, index, issued, tracking, holder, cleared, lost>>
    BY <2>1 DEF KillUser, Handling, At
  <2>3. /\ j \in Job /\ j.pc = "read" /\ j.op = old.op /\ j.copy = old.copy
        /\ j.sid = old.sid /\ j.user = old.user /\ j.target = u
    BY <1>1 DEF Job, Points
  <2> HIDE DEF j
  <2>4. Jobs'
    BY <2>2, <2>3, QuietGrows, KillingStep DEF AfterGates
  <2>5. QED
    BY <2>2, <2>4, QuietStep, CountersStep
<1>6. CASE KillRead(r)
  <2>1. PICK owed \in SUBSET Sid :
          /\ Step(r, [old EXCEPT !.pc = IF index[old.target] = {} THEN "killed" ELSE "delete",
                                 !.found = index[old.target], !.open = owed])
          /\ old.pc = "read" /\ UNCHANGED counts
          /\ UNCHANGED <<account, store, index, issued, tracking, holder, cleared, lost>>
    BY <1>6 DEF KillRead, At, Live
  <2> DEFINE j == [old EXCEPT !.pc = IF index[old.target] = {} THEN "killed" ELSE "delete",
                             !.found = index[old.target], !.open = owed]
  <2>2. old.target \in User /\ index[old.target] \subseteq Sid
    BY <1>1, <2>1 DEF JobOK, Core, Others
  <2>3. /\ j \in Job /\ j.pc \in {"killed", "delete"} /\ j.op = old.op /\ j.copy = old.copy
        /\ j.sid = old.sid /\ j.user = old.user /\ j.target = old.target
    BY <1>1, <2>2 DEF Job, Points
  <2>4. Step(r, j)
    BY <2>1
  <2> HIDE DEF j
  <2>5. Jobs'
    BY <2>1, <2>2, <2>3, <2>4, QuietGrows, KillingStep DEF AfterGates
  <2>6. QED
    BY <2>1, <2>5, QuietStep, CountersStep
<1>7. CASE KillDelete(r)
  <2>1. PICK left \in SUBSET Sid :
          /\ Step(r, [old EXCEPT !.pc = "unindex", !.open = left])
          /\ old.pc = "delete" /\ UNCHANGED counts
          /\ store' = [s \in Sid |-> IF s \in old.found THEN Absent ELSE store[s]]
          /\ UNCHANGED <<account, index, issued, tracking, holder, cleared, lost>>
    <3>1. old.open \ {s \in Sid : Holders(s) # {}} \in SUBSET Sid
      BY <1>1
    <3>2. QED
      BY <1>7, <3>1 DEF KillDelete, At
  <2> DEFINE j == [old EXCEPT !.pc = "unindex", !.open = left]
  <2>2. /\ j \in Job /\ j.pc = "unindex" /\ j.op = old.op /\ j.copy = old.copy
        /\ j.sid = old.sid /\ j.user = old.user /\ j.target = old.target
    BY <1>1 DEF Job, Points
  <2>3. Step(r, j)
    BY <2>1
  <2> HIDE DEF j
  <2>4. Jobs'
    BY <1>1, <2>1, <2>2, <2>3, QuietGrows, KillingStep DEF AfterGates, JobOK
  <2>5. Stores' /\ Others'
    BY <2>1, QuietGrows, DeletingStep, CountersStep DEF Core, Others
  <2>6. QED
    BY <2>4, <2>5 DEF Core
<1>8. CASE KillUnindex(r)
  <2> DEFINE j == [old EXCEPT !.pc = "killed"]
  <2>1. /\ Step(r, j) /\ old.pc = "unindex" /\ UNCHANGED counts
        /\ index' = [index EXCEPT ![old.target] = {}]
        /\ lost' \subseteq lost \cup index[old.target]
        /\ UNCHANGED <<account, store, issued, tracking, holder, cleared>>
    BY <1>8 DEF KillUnindex, Goto, At, Undead
  <2>2. /\ j \in Job /\ j.pc = "killed" /\ j.op = old.op /\ j.copy = old.copy
        /\ j.sid = old.sid /\ j.user = old.user
    BY <1>1 DEF Job, Points
  <2> HIDE DEF j
  <2>3. Jobs'
    BY <2>1, <2>2, QuietGrows, KillingStep DEF AfterGates
  <2>4. old.target \in User
    BY <1>1, <2>1 DEF JobOK
  <2>5. Stores' /\ Others'
    BY <2>1, <2>4, CountersStep DEF Core, Others, Stores, Live
  <2>6. QED
    BY <2>3, <2>5 DEF Core
<1>9. CASE KillThrows(r)
  <2>1. /\ Answer(r) /\ (Fails \/ UNCHANGED counts)
        /\ UNCHANGED <<account, store, index, issued, tracking, holder, cleared, lost>>
    BY <1>9 DEF KillThrows, RedisFails
  <2>2. QED
    BY <1>3, <2>1, QuietStep, CountersStep
<1>10. CASE Killed(r)
  <2>1. /\ UNCHANGED counts /\ old.pc = "killed"
        /\ UNCHANGED <<account, store, index, issued, tracking, holder, cleared, lost>>
    BY <1>10 DEF Killed, At
  <2>2. CASE old.op # "password"
    BY <1>3, <1>10, <2>1, <2>2, QuietStep, CountersStep DEF Killed
  <2>3. CASE old.op = "password"
    <3> DEFINE j == [old EXCEPT !.pc = "regenerate"]
    <3>1. Step(r, j)
      BY <1>10, <2>3 DEF Killed, Goto
    <3>2. /\ j \in Job /\ j.pc = "regenerate" /\ j.op = old.op /\ j.copy = old.copy
          /\ j.sid = old.sid /\ j.user = old.user
      BY <1>1 DEF Job, Points
    <3> HIDE DEF j
    <3>3. Full(old.copy) /\ old.user \in User /\ old.user = old.copy.user
          /\ account[old.user] # NoAccount
      BY <1>1, <2>1, <2>3 DEF JobOK, AfterGates, OpenOperations, Full
    <3>4. JobOK(j, issued', holder', cleared', account')
      BY <1>1, <2>1, <3>2, <3>3 DEF JobOK
    <3>5. Jobs'
      BY <2>1, <3>1, <3>2, <3>4, QuietGrows, JobStep
    <3>6. QED
      BY <2>1, <3>5, QuietStep, CountersStep
  <2>4. QED
    BY <2>2, <2>3
<1>11. CASE KillAll(r)
  <2> DEFINE j == [old EXCEPT !.pc = "scan", !.found = Sid]
  <2>1. /\ Step(r, j) /\ old.pc = "admitted" /\ UNCHANGED counts
        /\ UNCHANGED <<account, store, index, issued, tracking, holder, cleared, lost>>
    BY <1>11 DEF KillAll, Handling, At
  <2>2. /\ j \in Job /\ j.pc = "scan" /\ j.op = old.op /\ j.copy = old.copy
        /\ j.sid = old.sid /\ j.user = old.user
    BY <1>1 DEF Job, Points
  <2> HIDE DEF j
  <2>3. Jobs'
    BY <2>1, <2>2, QuietGrows, KillingStep DEF AfterGates
  <2>4. QED
    BY <2>1, <2>3, QuietStep, CountersStep
<1>12. CASE KillScan(r)
  <2>1. PICK batch \in SUBSET old.found \ {{}} :
          /\ old.pc = "scan" /\ UNCHANGED counts
          /\ store' = [s \in Sid |-> IF s \in batch THEN Absent ELSE store[s]]
          /\ IF old.found \ batch = {} THEN Answer(r)
             ELSE Step(r, [old EXCEPT !.found = old.found \ batch])
          /\ UNCHANGED <<account, index, issued, tracking, holder, cleared, lost>>
    BY <1>12 DEF KillScan, At
  <2>2. Jobs'
    <3>1. CASE old.found \ batch = {}
      BY <1>3, <2>1, <3>1
    <3>2. CASE old.found \ batch # {}
      <4> DEFINE j == [old EXCEPT !.found = old.found \ batch]
      <4>1. Step(r, j)
        BY <2>1, <3>2
      <4>2. /\ j \in Job /\ j.pc = "scan" /\ j.op = old.op /\ j.copy = old.copy
            /\ j.sid = old.sid /\ j.user = old.user
        BY <1>1, <2>1 DEF Job
      <4> HIDE DEF j
      <4>3. QED
        BY <2>1, <4>1, <4>2, QuietGrows, KillingStep DEF AfterGates
    <3>3. QED
      BY <3>1, <3>2
  <2>3. Stores' /\ Others'
    BY <2>1, QuietGrows, DeletingStep, CountersStep DEF Core, Others
  <2>4. QED
    BY <2>2, <2>3 DEF Core
<1>13. QED
  BY <1>2, <1>4, <1>5, <1>6, <1>7, <1>8, <1>9, <1>10, <1>11, <1>12 DEF Close

LEMMA NextCore == Core /\ [Next]_vars => Core'
<1> SUFFICES ASSUME Core, [Next]_vars PROVE Core'
  OBVIOUS
<1>1. CASE UNCHANGED vars
  BY <1>1 DEF vars, counts, Core, Others, Jobs, Stores, Live
<1>2. CASE Next
  BY <1>2, BeginCore, OpenCore, CloseCore, FinishCore, AroundCore DEF Next
<1>3. QED
  BY <1>1, <1>2

LEMMA SpecCore == Spec => []Core
BY InitCore, NextCore, PTL DEF Spec

----------------------------------------------------------------------------

(* For any number of users, ids and requests, every variable keeps its     *)
(* type and no id is in use that was never generated.                      *)
THEOREM SessionTypes == Spec => []TypeOK
<1>1. Core => TypeOK
  BY DEF Core, Others, Jobs, Stores, TypeOK
<1>2. QED
  BY <1>1, SpecCore, PTL

(* No session is a full one unless no second factor was due when it was    *)
(* opened, or a code has been accepted since.                              *)
THEOREM SecondFactorHolds == Spec => []SecondFactor
<1>1. Core => SecondFactor
  BY DEF Core, Stores, SessionOK, SecondFactor
<1>2. QED
  BY <1>1, SpecCore, PTL

----------------------------------------------------------------------------
(***************************************************************************)
(* What is dead stays dead.  A request goes on with the id it has, or with *)
(* one that is live or new; what is stored is stored under such an id.     *)
(***************************************************************************)
Dead(s) == s \notin Live /\ Holders(s) = {}
DeadStays == \A s \in issued : Dead(s) => Dead(s)'

GoesOn(r, j) ==
  \/ j.pc = "idle"
  \/ request[r].pc # "idle" /\ j.sid = request[r].sid
  \/ j.sid \in Live \/ j.sid \notin issued

LEMMA DeadStep ==
  ASSUME Core, NEW r \in Request, NEW j, Step(r, j), GoesOn(r, j),
         \A s \in issued : \/ store'[s] \in {store[s], Absent}
                           \/ request[r].pc # "idle" /\ s = request[r].sid
  PROVE  DeadStays
<1>1. /\ \A q \in Request : request'[q] = IF q = r THEN j ELSE request[q]
      /\ issued \subseteq Sid
  BY DEF Core, Jobs, Others, Step
<1>2. ASSUME NEW s \in issued, Dead(s) PROVE Dead(s)'
  <2>1. \A q \in Request : request[q].pc = "idle" \/ request[q].sid # s
    BY <1>2 DEF Dead, Holders
  <2>2. store'[s] = Absent
    BY <1>1, <1>2, <2>1 DEF Dead, Live
  <2>3. \A q \in Request : request'[q].pc = "idle" \/ request'[q].sid # s
    BY <1>1, <1>2, <2>1 DEF GoesOn, Dead
  <2>4. QED
    BY <2>2, <2>3 DEF Dead, Live, Holders
<1>3. QED
  BY <1>2 DEF DeadStays

\* A step that leaves the sessions alone.
LEMMA DeadQuietStep ==
  ASSUME Core, NEW r \in Request, NEW j, Step(r, j), GoesOn(r, j), UNCHANGED store
  PROVE  DeadStays
BY DeadStep

LEMMA RespondGoesOn ==
  ASSUME Core, NEW r \in Request, NEW sid, NEW copy, NEW changed, Respond(r, sid, copy, changed)
  PROVE  \E j : Step(r, j) /\ j.sid = sid
<1> DEFINE j == [Idle EXCEPT !.pc = "end", !.sid = sid, !.copy = copy, !.changed = changed]
<1>1. Step(r, j) /\ j.sid = sid
  BY DEF Respond, Idle
<1>2. QED
  BY <1>1

LEMMA RespondDead ==
  ASSUME Core, NEW r \in Request, NEW sid, NEW copy, NEW changed, Respond(r, sid, copy, changed),
         sid \notin issued, \A s \in issued : store'[s] \in {store[s], Absent}
  PROVE  DeadStays
<1>1. PICK j : Step(r, j) /\ j.sid = sid
  BY RespondGoesOn
<1>2. GoesOn(r, j)
  BY <1>1 DEF GoesOn
<1>3. QED
  BY <1>1, <1>2, DeadStep

LEMMA DeadAnswer ==
  ASSUME Core, NEW r \in Request, NEW copy, NEW changed, request[r].pc # "idle", UNCHANGED store,
         Respond(r, request[r].sid, copy, changed)
  PROVE  DeadStays
BY RespondGoesOn, DeadQuietStep DEF GoesOn

LEMMA BeginDead ==
  ASSUME Core, NEW r \in Request, Begin(r)
  PROVE  DeadStays
<1> DEFINE old == request[r]
<1>1. old \in Job
  BY JobFacts
<1>2. ASSUME NEW s \in Sid \cup {NoSid}, NEW changes, Load(r, s, changes) PROVE DeadStays
  <2> DEFINE session == IF s \in Live THEN store[s] ELSE Anonymous
             j == [Idle EXCEPT !.pc = "loaded", !.sid = Presented(s), !.copy = session,
                               !.changed = changes]
  <2>1. Step(r, j) /\ UNCHANGED store
    BY <1>2 DEF Load
  <2>2. j.sid = Presented(s)
    BY DEF Idle
  <2> HIDE DEF j
  <2>3. GoesOn(r, j)
    BY <2>2, SessionsAssumption DEF GoesOn, Presented, Core, Others
  <2>4. QED
    BY <2>1, <2>3, DeadQuietStep
<1>3. ASSUME NEW job, Enter(r, job), job.sid = old.sid, old.pc # "idle", job \in Job, UNCHANGED store
      PROVE  DeadStays
  <2>1. PICK op \in Operations : \/ Step(r, [job EXCEPT !.pc = "admitted", !.op = op])
                                 \/ Respond(r, job.sid, job.copy, job.changed)
    BY <1>3 DEF Enter
  <2>2. CASE Respond(r, job.sid, job.copy, job.changed)
    BY <1>3, <2>2, DeadAnswer
  <2>3. CASE Step(r, [job EXCEPT !.pc = "admitted", !.op = op])
    <3> DEFINE j == [job EXCEPT !.pc = "admitted", !.op = op]
    <3>1. j.sid = old.sid /\ Step(r, j)
      BY <1>3, <2>3 DEF Job
    <3> HIDE DEF j
    <3>2. QED
      BY <1>3, <3>1, DeadQuietStep DEF GoesOn
  <2>4. QED
    BY <2>1, <2>2, <2>3
<1>4. ASSUME LoadUser(r) \/ LoadNobody(r) \/ LoadUserFails(r)
      PROVE  \E job \in Job : Enter(r, job) /\ job.sid = old.sid /\ old.pc # "idle" /\ UNCHANGED store
  <2>1. old.copy.user \in User /\ account[old.copy.user] # NoAccount
          => account[old.copy.user].role \in Roles
    BY DEF Core, Others, Account
  <2>2. old.copy.user \in User \cup {NoUser}
    BY <1>1 DEF Job, Session
  <2>3. CASE LoadUser(r)
    <3> DEFINE j == [old EXCEPT !.user = old.copy.user, !.role = account[old.copy.user].role]
    <3>1. j \in Job /\ j.sid = old.sid
      BY <1>1, <2>1, <2>2, <2>3 DEF Job, LoadUser
    <3>2. QED
      BY <2>3, <3>1 DEF LoadUser, Entering, At
  <2>4. CASE LoadNobody(r)
    <3> DEFINE j == [old EXCEPT !.copy.user = NoUser, !.changed = @ \/ old.copy.user # NoUser]
    <3>1. j \in Job /\ j.sid = old.sid
      BY <1>1 DEF Job, Session
    <3>2. QED
      BY <2>4, <3>1 DEF LoadNobody, Entering, At
  <2>5. CASE LoadUserFails(r)
    BY <1>1, <2>5 DEF LoadUserFails, Entering, At
  <2>6. QED
    BY <1>4, <2>3, <2>4, <2>5
<1>5. QED
  BY <1>2, <1>3, <1>4 DEF Begin

LEMMA OpenDead ==
  ASSUME Core, NEW r \in Request, Open(r)
  PROVE  DeadStays
<1> DEFINE old == request[r]
<1>1. old \in Job
  BY JobFacts
<1>2. ASSUME NEW u, NEW facts, Recognise(r, u, facts), old.pc # "idle" PROVE DeadStays
  <2> DEFINE j == [old EXCEPT !.pc = "regenerate", !.user = u, !.role = facts.role,
                              !.twoFactor = facts.twoFactor]
  <2>1. Step(r, j) /\ j.sid = old.sid /\ UNCHANGED store
    BY <1>1, <1>2 DEF Recognise, Job
  <2> HIDE DEF j
  <2>2. QED
    BY <1>2, <2>1, DeadQuietStep DEF GoesOn
<1>3. CASE \E u \in User : Register(r, u) \/ Login(r, u) \/ OAuthKnown(r, u) \/ OAuthNew(r, u)
  BY <1>2, <1>3 DEF Register, Login, OAuthKnown, OAuthNew, Handling, At
<1>4. CASE \E s \in Sid : Regenerate(r, s)
  <2>1. PICK s \in Sid : Regenerate(r, s)
    BY <1>4
  <2>2. /\ s \notin issued /\ Respond(r, s, Opened(old), TRUE)
        /\ store' = [x \in Sid |-> IF x = old.sid THEN Absent ELSE store[x]]
    BY <2>1 DEF Regenerate, NewIds, Fresh
  <2>3. \A x \in issued : store'[x] \in {store[x], Absent}
    BY <2>2 DEF Core, Others
  <2>4. QED
    BY <2>2, <2>3, RespondDead
<1>5. CASE RegenerateFails(r)
  <2>1. Respond(r, NoSid, Anonymous, TRUE) /\ UNCHANGED store
    BY <1>5 DEF RegenerateFails
  <2>2. NoSid \notin issued
    BY SessionsAssumption DEF Core, Others
  <2>3. QED
    BY <2>1, <2>2, RespondDead
<1>6. CASE Setup(r) \/ Confirm(r) \/ Challenge(r)
  BY <1>6, DeadAnswer DEF Setup, Confirm, Challenge, GiveFactor, Handling, At
<1>7. QED
  BY <1>3, <1>4, <1>5, <1>6 DEF Open

LEMMA CloseDead ==
  ASSUME Core, NEW r \in Request, Close(r)
  PROVE  DeadStays
<1> DEFINE old == request[r]
<1>1. old \in Job
  BY JobFacts
<1>2. ASSUME Step(r, Idle), \A s \in issued : store'[s] \in {store[s], Absent} PROVE DeadStays
  BY <1>2, IdleFacts, DeadStep DEF GoesOn
<1>3. ASSUME Answer(r), old.pc # "idle", \A s \in issued : store'[s] \in {store[s], Absent}
      PROVE  DeadStays
  BY <1>3, RespondGoesOn, DeadStep DEF GoesOn, Answer
<1>4. ASSUME NEW j, Step(r, j), j.sid = old.sid, old.pc # "idle",
             \A s \in issued : store'[s] \in {store[s], Absent}
      PROVE  DeadStays
  BY <1>4, DeadStep DEF GoesOn
<1>5. ASSUME UNCHANGED store PROVE \A s \in issued : store'[s] \in {store[s], Absent}
  BY <1>5
<1>6. ASSUME NEW S, store' = [s \in Sid |-> IF s \in S THEN Absent ELSE store[s]]
      PROVE  \A s \in issued : store'[s] \in {store[s], Absent}
  BY <1>6 DEF Core, Others
<1>7. CASE Logout(r) \/ LogoutFails(r)
  BY <1>2, <1>5, <1>7 DEF Logout, LogoutFails, Core, Others
<1>8. CASE ChangePassword(r)
  <2>1. [old EXCEPT !.pc = "read", !.target = old.user].sid = old.sid
    BY <1>1 DEF Job
  <2>2. QED
    BY <1>4, <1>5, <1>8, <2>1 DEF ChangePassword, Handling, At
<1>9. CASE \E u \in User : KillUser(r, u)
  <2>1. PICK u \in User : KillUser(r, u)
    BY <1>9
  <2>2. [old EXCEPT !.pc = "read", !.target = u].sid = old.sid
    BY <1>1 DEF Job
  <2>3. QED
    BY <1>4, <1>5, <2>1, <2>2 DEF KillUser, Handling, At
<1>10. CASE KillRead(r)
  <2>1. PICK pc, owed : /\ Step(r, [old EXCEPT !.pc = pc, !.found = index[old.target], !.open = owed])
                        /\ old.pc = "read" /\ UNCHANGED store
    BY <1>10 DEF KillRead, At
  <2>2. [old EXCEPT !.pc = pc, !.found = index[old.target], !.open = owed].sid = old.sid
    BY <1>1 DEF Job
  <2>3. QED
    BY <1>4, <1>5, <2>1, <2>2
<1>11. CASE KillDelete(r)
  <2>1. PICK left : /\ Step(r, [old EXCEPT !.pc = "unindex", !.open = left])
                    /\ old.pc = "delete"
                    /\ store' = [s \in Sid |-> IF s \in old.found THEN Absent ELSE store[s]]
    BY <1>11 DEF KillDelete, At
  <2>2. [old EXCEPT !.pc = "unindex", !.open = left].sid = old.sid
    BY <1>1 DEF Job
  <2>3. QED
    BY <1>4, <1>6, <2>1, <2>2
<1>12. CASE KillUnindex(r)
  <2>1. [old EXCEPT !.pc = "killed"].sid = old.sid
    BY <1>1 DEF Job
  <2>2. QED
    BY <1>4, <1>5, <1>12, <2>1 DEF KillUnindex, Goto, At
<1>13. CASE KillThrows(r)
  BY <1>3, <1>5, <1>13 DEF KillThrows
<1>14. CASE Killed(r)
  <2>1. [old EXCEPT !.pc = "regenerate"].sid = old.sid
    BY <1>1 DEF Job
  <2>2. QED
    BY <1>3, <1>4, <1>5, <1>14, <2>1 DEF Killed, Goto, At
<1>15. CASE KillAll(r)
  <2>1. [old EXCEPT !.pc = "scan", !.found = Sid].sid = old.sid
    BY <1>1 DEF Job
  <2>2. QED
    BY <1>4, <1>5, <1>15, <2>1 DEF KillAll, Handling, At
<1>16. CASE KillScan(r)
  <2>1. PICK batch, left :
          /\ old.pc = "scan"
          /\ store' = [s \in Sid |-> IF s \in batch THEN Absent ELSE store[s]]
          /\ Answer(r) \/ Step(r, [old EXCEPT !.found = left])
    BY <1>16 DEF KillScan, At
  <2>2. [old EXCEPT !.found = left].sid = old.sid
    BY <1>1 DEF Job
  <2>3. QED
    BY <1>3, <1>4, <1>6, <2>1, <2>2
<1>17. QED
  BY <1>7, <1>8, <1>9, <1>10, <1>11, <1>12, <1>13, <1>14, <1>15, <1>16 DEF Close

LEMMA FinishDead ==
  ASSUME Core, NEW r \in Request, Finish(r)
  PROVE  DeadStays
<1> DEFINE old == request[r]
<1>1. CASE Browse(r) \/ Decline(r)
  BY <1>1, DeadAnswer DEF Browse, Decline, Handling, Answer, At
<1>2. CASE EndUnchanged(r) \/ Dies(r)
  BY <1>2, IdleFacts, DeadQuietStep DEF EndUnchanged, Dies, GoesOn
<1>3. CASE \E s \in Sid : EndNew(r, s)
  <2>1. PICK s \in Sid : /\ Step(r, Idle) /\ s \notin issued
                         /\ store' = [store EXCEPT ![s] = old.copy]
    BY <1>3 DEF EndNew, Fresh
  <2>2. \A x \in issued : store'[x] = store[x]
    BY <2>1 DEF Core, Others
  <2>3. GoesOn(r, Idle)
    BY IdleFacts DEF GoesOn
  <2>4. QED
    BY <2>1, <2>2, <2>3, DeadStep
<1>4. CASE EndChanged(r)
  <2>1. Step(r, Idle) /\ old.pc = "end" /\ store' = [store EXCEPT ![old.sid] = old.copy]
    BY <1>4 DEF EndChanged, At
  <2>2. \A s \in issued : store'[s] = store[s] \/ s = old.sid
    BY <2>1 DEF Core, Others
  <2>3. QED
    BY <2>1, <2>2, IdleFacts, DeadStep DEF GoesOn
<1>5. QED
  BY <1>1, <1>2, <1>3, <1>4 DEF Finish

LEMMA NextDead ==
  ASSUME Core, [Next]_vars
  PROVE  DeadStays
<1>1. ASSUME UNCHANGED <<store, request>> PROVE DeadStays
  BY <1>1 DEF DeadStays, Dead, Live, Holders
<1>2. ASSUME NEW s \in Sid, Expire(s) PROVE DeadStays
  <2>1. UNCHANGED request /\ \A x \in Sid : store'[x] \in {store[x], Absent}
    BY <1>2 DEF Expire, Core, Others
  <2>2. QED
    BY <2>1 DEF DeadStays, Dead, Live, Holders
<1>3. CASE \E t \in tracking : Track(t) \/ TrackFails(t)
  BY <1>1, <1>3 DEF Track, TrackFails
<1>4. CASE \E u \in User : ToggleActive(u) \/ \E role \in Granted : UpdateRole(u, role)
  BY <1>1, <1>4 DEF ToggleActive, UpdateRole
<1>5. CASE UNCHANGED vars
  BY <1>1, <1>5 DEF vars
<1>6. QED
  BY <1>2, <1>3, <1>4, <1>5, BeginDead, OpenDead, CloseDead, FinishDead DEF Next

(* A session that was deleted, and that no request holds, can never be     *)
(* used again, whatever cookies are sent.                                  *)
THEOREM DeadNeverRise == Spec => DeadStaysDead
<1>1. Core /\ [Next]_vars
        => \A s \in issued : s \notin Live /\ Holders(s) = {} => s \notin Live' /\ Holders(s)' = {}
  BY NextDead DEF DeadStays, Dead
<1>2. QED
  BY <1>1, SpecCore, PTL DEF Spec, DeadStaysDead

----------------------------------------------------------------------------
(***************************************************************************)
(* The steps as steps of Access: most leave the sessions alone, and the    *)
(* others hide, issue, clear or show.                                      *)
(***************************************************************************)
LEMMA QuietImplements ==
  ASSUME UNCHANGED <<store, issued, holder, cleared>>
  PROVE  UNCHANGED Abstract!vars
BY DEF Abstract!vars, View, Live

LEMMA HideImplements ==
  ASSUME UNCHANGED <<issued, holder, cleared>>, \A s \in Sid : store'[s] \in {store[s], Absent}
  PROVE  Abstract!Hide
<1>1. ASSUME NEW s \in Sid PROVE View(s)' \in {View(s), "closed"}
  BY DEF View, Live
<1>2. QED
  BY <1>1 DEF Abstract!Hide, Abstract!OnlyCloses

LEMMA IssueImplements ==
  ASSUME Core, NEW r \in Request, NEW s \in Sid, Regenerate(r, s)
  PROVE  \E u \in User, free \in BOOLEAN : Abstract!Issue(s, u, free)
<1> DEFINE old == request[r]
<1>1. JobOK(old, issued, holder, cleared, account)
  BY JobFacts
<1> DEFINE free == IF old.op = "password" THEN old.sid \in cleared
                   ELSE old.role = "customer" /\ ~old.twoFactor
<1>2. /\ old.pc = "regenerate" /\ s \notin issued /\ issued' = issued \cup {s}
      /\ store' = [x \in Sid |-> IF x = old.sid THEN Absent ELSE store[x]]
      /\ holder' = [holder EXCEPT ![s] = old.user]
      /\ cleared' = IF free THEN cleared \cup {s} ELSE cleared
  BY DEF Regenerate, At, NewIds, Fresh
<1>3. old.user \in User
  BY <1>1, <1>2 DEF JobOK
<1>4. ASSUME NEW x \in Sid PROVE View(x)' \in {View(x), "closed"}
  <2>1. CASE x \in issued
    <3>1. holder'[x] = holder[x] /\ store'[x] \in {store[x], Absent}
      BY <1>2, <2>1 DEF Core, Others
    <3>2. QED
      BY <3>1 DEF View, Live
  <2>2. CASE x \notin issued
    <3>1. x \notin Live /\ x \notin Live'
      BY <1>2, <2>2 DEF Core, Stores, Live
    <3>2. QED
      BY <3>1 DEF View
  <2>3. QED
    BY <2>1, <2>2
<1>5. Abstract!OnlyCloses
  BY <1>4 DEF Abstract!OnlyCloses
<1> DEFINE given == CHOOSE b \in BOOLEAN : b <=> free
<1>6. given \in BOOLEAN /\ (given <=> free)
  OBVIOUS
<1> HIDE DEF given
<1>7. Abstract!Issue(s, old.user, given)
  BY <1>2, <1>5, <1>6 DEF Abstract!Issue
<1>8. QED
  BY <1>3, <1>6, <1>7

LEMMA GiveFactorImplements ==
  ASSUME Core, NEW r \in Request, NEW copy, GiveFactor(r, copy), request[r].copy.user # NoUser
  PROVE  \E s \in Sid : Abstract!Clear(s)
<1> DEFINE sid == request[r].sid
<1>1. SessionOK(request[r].copy, sid, issued, holder, cleared)
  BY JobFacts DEF JobOK
<1>2. sid \in issued /\ holder[sid] # NoUser /\ sid \in Sid
  BY <1>1 DEF SessionOK, Core, Others
<1>3. cleared' = cleared \cup {sid} /\ UNCHANGED <<store, issued, holder>>
  BY DEF GiveFactor
<1>4. UNCHANGED [s \in Sid |-> View(s)]
  BY <1>3 DEF View, Live
<1>5. QED
  BY <1>2, <1>3, <1>4 DEF Abstract!Clear

LEMMA EndImplements ==
  ASSUME Core, NEW r \in Request, (\E s \in Sid : EndNew(r, s)) \/ EndChanged(r)
  PROVE  Abstract!Next
<1> DEFINE old == request[r]
<1>1. /\ old.copy \in Session /\ old.sid \in Sid \cup {NoSid}
      /\ SessionOK(old.copy, old.sid, issued, holder, cleared)
  BY JobFacts DEF JobOK
<1>2. old.copy # Absent
  BY <1>1, AccountsAssumption
<1>3. ASSUME NEW s \in Sid, store' = [store EXCEPT ![s] = old.copy], UNCHANGED holder
      PROVE  /\ [x \in Sid |-> View(x)]' = [[x \in Sid |-> View(x)] EXCEPT ![s] = View(s)']
             /\ View(s)' = IF old.copy.user = NoUser THEN "anonymous"
                           ELSE IF old.copy.user # holder[s] THEN "another user's"
                           ELSE IF old.copy.pending THEN "pending" ELSE "full"
  <2>1. store \in [Sid -> Session \cup {Absent}]
    BY DEF Core, Others
  <2>2. ASSUME NEW x \in Sid, x # s PROVE View(x)' = View(x)
    BY <1>3, <2>1, <2>2 DEF View, Live
  <2>3. store'[s] = old.copy
    BY <1>3, <2>1
  <2>4. QED
    BY <1>2, <1>3, <2>2, <2>3 DEF View, Live
<1>4. CASE \E s \in Sid : EndNew(r, s)
  <2>1. PICK s \in Sid : /\ old.sid = NoSid /\ s \in Sid \ issued
                         /\ store' = [store EXCEPT ![s] = old.copy] /\ issued' = issued \cup {s}
                         /\ UNCHANGED <<holder, cleared>>
    BY <1>4 DEF EndNew, Fresh
  <2>2. old.copy.user = NoUser
    BY <1>1, <2>1, SessionsAssumption DEF SessionOK, Core, Others
  <2>3. Abstract!IssueAnonymous(s)
    BY <1>3, <2>1, <2>2 DEF Abstract!IssueAnonymous
  <2>4. QED
    BY <2>3 DEF Abstract!Next
<1>5. CASE EndChanged(r)
  <2>1. PICK s \in Sid : /\ old.sid = s /\ store' = [store EXCEPT ![s] = old.copy]
                         /\ UNCHANGED <<issued, holder, cleared>>
    BY <1>1, <1>5 DEF EndChanged
  <2> DEFINE what == View(s)'
  <2>2. what = IF old.copy.user = NoUser THEN "anonymous"
               ELSE IF old.copy.user # holder[s] THEN "another user's"
               ELSE IF old.copy.pending THEN "pending" ELSE "full"
    BY <1>3, <2>1
  <2>3. [x \in Sid |-> View(x)]' = [[x \in Sid |-> View(x)] EXCEPT ![s] = what]
    BY <1>3, <2>1
  <2> HIDE DEF what
  <2>4. /\ s \in issued
        /\ old.copy.user # NoUser => holder[s] = old.copy.user
        /\ Full(old.copy) => s \in cleared
    BY <1>1, <2>1, SessionsAssumption DEF SessionOK
  <2>5. what \in {"anonymous", "pending", "full"}
    BY <2>2, <2>4
  <2>6. what = "full" => s \in cleared
    BY <2>2, <2>4 DEF Full
  <2>7. what # "anonymous" => holder[s] # NoUser
    BY <2>2, <2>4
  <2>8. Abstract!Show(s, what)
    BY <2>1, <2>3, <2>4, <2>6, <2>7 DEF Abstract!Show
  <2>9. QED
    BY <2>5, <2>8 DEF Abstract!Next
<1>6. QED
  BY <1>4, <1>5

LEMMA RequestImplements ==
  ASSUME Core, NEW r \in Request, Begin(r) \/ Open(r) \/ Close(r) \/ Finish(r)
  PROVE  Abstract!Next \/ UNCHANGED Abstract!vars
<1> DEFINE Quiet == UNCHANGED <<store, issued, holder, cleared>>
           Hides == /\ UNCHANGED <<issued, holder, cleared>>
                    /\ \A s \in Sid : store'[s] \in {store[s], Absent}
<1>1. CASE Quiet
  BY <1>1, QuietImplements
<1>2. CASE Hides
  BY <1>2, HideImplements DEF Abstract!Next
<1>3. Begin(r) => Quiet
  BY DEF Begin, Load, LoadUser, LoadNobody, LoadUserFails, Entering
<1>4. CASE Open(r)
  <2>1. CASE \E s \in Sid : Regenerate(r, s)
    BY <2>1, IssueImplements DEF Abstract!Next
  <2>2. CASE Confirm(r)
    <3>1. request[r].pc = "admitted" /\ request[r].op = "confirm"
      BY <2>2 DEF Confirm, Handling, At
    <3>2. request[r].copy.user # NoUser
      BY <3>1, JobFacts DEF JobOK, AfterGates, OpenOperations, Full
    <3>3. PICK copy : GiveFactor(r, copy)
      BY <2>2 DEF Confirm
    <3>4. QED
      BY <3>2, <3>3, GiveFactorImplements DEF Abstract!Next
  <2>3. CASE Challenge(r)
    <3>1. request[r].copy.user # NoUser /\ \E copy : GiveFactor(r, copy)
      BY <2>3 DEF Challenge
    <3>2. QED
      BY <3>1, GiveFactorImplements DEF Abstract!Next
  <2>4. CASE \/ Setup(r) \/ RegenerateFails(r)
             \/ \E u \in User : Register(r, u) \/ Login(r, u) \/ OAuthKnown(r, u) \/ OAuthNew(r, u)
    <3>1. Quiet
      BY <2>4 DEF Setup, RegenerateFails, Register, Login, OAuthKnown, OAuthNew, Recognise
    <3>2. QED
      BY <1>1, <3>1
  <2>5. QED
    BY <1>4, <2>1, <2>2, <2>3, <2>4 DEF Open
<1>5. CASE Close(r)
  <2>1. CASE Logout(r) \/ KillDelete(r) \/ KillScan(r)
    <3>1. Hides
      BY <2>1 DEF Logout, KillDelete, KillScan
    <3>2. QED
      BY <1>2, <3>1
  <2>2. CASE \/ LogoutFails(r) \/ ChangePassword(r) \/ (\E u \in User : KillUser(r, u))
             \/ KillRead(r) \/ KillUnindex(r) \/ KillThrows(r) \/ Killed(r) \/ KillAll(r)
    <3>1. Quiet
      BY <2>2 DEF LogoutFails, ChangePassword, KillUser, KillRead, KillUnindex, KillThrows,
                  Killed, KillAll
    <3>2. QED
      BY <1>1, <3>1
  <2>3. QED
    BY <1>5, <2>1, <2>2 DEF Close
<1>6. CASE Finish(r)
  <2>1. CASE Browse(r) \/ Decline(r) \/ EndUnchanged(r) \/ Dies(r)
    <3>1. Quiet
      BY <2>1 DEF Browse, Decline, EndUnchanged, Dies
    <3>2. QED
      BY <1>1, <3>1
  <2>2. QED
    BY <1>6, <2>1, EndImplements DEF Finish
<1>7. QED
  BY <1>1, <1>3, <1>4, <1>5, <1>6

(* Whatever the requests, the kill switch and the administrators do, a     *)
(* session id is worth what Access says: it never changes hands, and is a  *)
(* full session only once no factor is due or one has been given.          *)
THEOREM ImplementsAccessHolds == Spec => ImplementsAccess
<1>1. Init => Abstract!Init
  BY DEF Init, Abstract!Init, View, Live
<1>2. Core /\ [Next]_vars => [Abstract!Next]_(Abstract!vars)
  <2> SUFFICES ASSUME Core, [Next]_vars PROVE Abstract!Next \/ UNCHANGED Abstract!vars
    OBVIOUS
  <2>1. CASE \E r \in Request : Begin(r) \/ Open(r) \/ Close(r) \/ Finish(r)
    BY <2>1, RequestImplements
  <2>2. CASE \E s \in Sid : Expire(s)
    <3>1. PICK s \in Sid : Expire(s)
      BY <2>2
    <3>2. /\ UNCHANGED <<issued, holder, cleared>>
          /\ \A x \in Sid : store'[x] \in {store[x], Absent}
      BY <3>1 DEF Expire, Core, Others
    <3>3. QED
      BY <3>2, HideImplements DEF Abstract!Next
  <2>3. CASE \/ \E t \in tracking : Track(t) \/ TrackFails(t)
             \/ \E u \in User : ToggleActive(u) \/ \E role \in Granted : UpdateRole(u, role)
             \/ UNCHANGED vars
    <3>1. UNCHANGED <<store, issued, holder, cleared>>
      BY <2>3 DEF Track, TrackFails, ToggleActive, UpdateRole, vars
    <3>2. QED
      BY <3>1, QuietImplements
  <2>4. QED
    BY <2>1, <2>2, <2>3 DEF Next
<1>3. QED
  BY <1>1, <1>2, SpecCore, PTL DEF Spec, ImplementsAccess, Abstract!Spec

----------------------------------------------------------------------------
(***************************************************************************)
(* The kill of a user's sessions.  Every session that is, or may again be, *)
(* in the store is in the index, or on its way there, or lost to it; so    *)
(* what a kill owes it finds, and what it has deleted, unless some request *)
(* held it, is dead and stays dead.                                        *)
(***************************************************************************)
Known(s, u) ==
  \/ s \in index[u] \/ s \in lost
  \/ \E t \in tracking : t.user = u /\ t.sid = s /\ t.add

Tracked == \A s \in Sid : holder[s] # NoUser /\ ~Dead(s) => Known(s, holder[s])

KillOK(j) ==
  /\ j.pc \in {"delete", "unindex", "killed"} => j.open \subseteq issued
  /\ j.pc = "delete" => j.open \subseteq j.found
  /\ j.pc \in {"unindex", "killed"} => \A s \in j.open : Dead(s)

KillInv == Tracked /\ \A q \in Request : KillOK(request[q])

LEMMA HolderIssued ==
  ASSUME Core, NEW s \in Sid, holder[s] # NoUser
  PROVE  s \in issued /\ holder[s] \in User
BY DEF Core, Stores, Others

LEMMA TrackedStep ==
  ASSUME Core, Tracked, DeadStays, index' = index, tracking \subseteq tracking', lost \subseteq lost',
         holder' = holder
  PROVE  Tracked'
<1>1. ASSUME NEW s \in Sid, holder[s] # NoUser, ~Dead(s)' PROVE Known(s, holder[s])'
  <2>1. ~Dead(s) /\ s \in issued
    BY <1>1, HolderIssued DEF DeadStays
  <2>2. Known(s, holder[s])
    BY <1>1, <2>1 DEF Tracked
  <2>3. QED
    BY <2>2 DEF Known
<1>2. QED
  BY <1>1 DEF Tracked

LEMMA TrackTracked ==
  ASSUME Core, Tracked, DeadStays, NEW t \in tracking, Track(t) \/ TrackFails(t)
  PROVE  Tracked'
<1>1. t.user \in User /\ t.sid \in issued /\ index \in [User -> SUBSET issued]
  BY DEF Core, Others
<1>2. tracking' = tracking \ {t} /\ holder' = holder
  BY DEF Track, TrackFails
<1>3. ASSUME NEW s \in Sid, holder[s] # NoUser, ~Dead(s)' PROVE Known(s, holder[s])'
  <2>1. ~Dead(s) /\ s \in issued /\ holder[s] \in User
    BY <1>3, HolderIssued DEF DeadStays
  <2>2. Known(s, holder[s])
    BY <1>3, <2>1 DEF Tracked
  <2>3. lost \subseteq lost'
    BY DEF Track, TrackFails
  <2>4. CASE \E x \in tracking \ {t} : x.user = holder[s] /\ x.sid = s /\ x.add
    BY <1>2, <2>4 DEF Known
  <2>5. CASE t.user = holder[s] /\ t.sid = s /\ t.add
    <3>1. s \in index'[holder[s]] \/ s \in lost'
      BY <1>1, <2>5 DEF Track, TrackFails
    <3>2. QED
      BY <1>2, <3>1 DEF Known
  <2>6. CASE s \in lost
    BY <1>2, <2>3, <2>6 DEF Known
  <2>7. CASE s \in index[holder[s]]
    <3>1. CASE Track(t) /\ ~t.add /\ s = t.sid
      <4>1. s \in Undead({t.sid})
        BY <2>1, <3>1 DEF Undead, Dead
      <4>2. QED
        BY <1>2, <3>1, <4>1 DEF Track, Known
    <3>2. CASE ~(Track(t) /\ ~t.add /\ s = t.sid)
      <4>1. s \in index'[holder[s]]
        BY <1>1, <2>1, <2>7, <3>2 DEF Track, TrackFails
      <4>2. QED
        BY <1>2, <4>1 DEF Known
    <3>3. QED
      BY <3>1, <3>2
  <2>8. QED
    BY <2>2, <2>4, <2>5, <2>6, <2>7 DEF Known
<1>4. QED
  BY <1>2, <1>3 DEF Tracked

LEMMA RegenerateTracked ==
  ASSUME Core, Tracked, DeadStays, NEW r \in Request, NEW new \in Sid, Regenerate(r, new)
  PROVE  Tracked'
<1> DEFINE u == request[r].user
           entry == [user |-> u, sid |-> new, add |-> TRUE]
<1>1. /\ holder' = [holder EXCEPT ![new] = u] /\ tracking' = tracking \cup {entry}
      /\ index' = index /\ lost' = lost
  BY DEF Regenerate, Entered
<1>2. ASSUME NEW s \in Sid, holder'[s] # NoUser, ~Dead(s)' PROVE Known(s, holder[s])'
  <2>1. CASE s = new
    <3>1. holder'[s] = u
      BY <1>1, <2>1 DEF Core, Others
    <3>2. entry.user = u /\ entry.sid = s /\ entry.add
      BY <2>1
    <3>3. QED
      BY <1>1, <3>1, <3>2 DEF Known
  <2>2. CASE s # new
    <3>1. holder'[s] = holder[s]
      BY <1>1, <2>2 DEF Core, Others
    <3>2. ~Dead(s)
      BY <1>2, <3>1, HolderIssued DEF DeadStays
    <3>3. Known(s, holder[s])
      BY <1>2, <3>1, <3>2 DEF Tracked
    <3>4. QED
      BY <1>1, <3>1, <3>3 DEF Known
  <2>3. QED
    BY <2>1, <2>2
<1>3. QED
  BY <1>2 DEF Tracked

LEMMA UnindexTracked ==
  ASSUME Core, Tracked, DeadStays, NEW r \in Request, KillUnindex(r)
  PROVE  Tracked'
<1> DEFINE u == request[r].target
<1>1. /\ index' = [index EXCEPT ![u] = {}] /\ lost' = lost \cup Undead(index[u])
      /\ tracking' = tracking /\ holder' = holder
  BY DEF KillUnindex
<1>2. index \in [User -> SUBSET issued]
  BY DEF Core, Others
<1>3. ASSUME NEW s \in Sid, holder[s] # NoUser, ~Dead(s)' PROVE Known(s, holder[s])'
  <2>1. ~Dead(s) /\ holder[s] \in User
    BY <1>3, HolderIssued DEF DeadStays
  <2>2. Known(s, holder[s])
    BY <1>3, <2>1 DEF Tracked
  <2>3. CASE s \in index[holder[s]] /\ holder[s] = u
    <3>1. s \in Undead(index[u])
      BY <2>1, <2>3 DEF Undead, Dead
    <3>2. QED
      BY <1>1, <3>1 DEF Known
  <2>4. CASE ~(s \in index[holder[s]] /\ holder[s] = u)
    <3>1. s \in index[holder[s]] => s \in index'[holder[s]]
      BY <1>1, <1>2, <2>1, <2>4
    <3>2. QED
      BY <1>1, <2>2, <3>1 DEF Known
  <2>5. QED
    BY <2>3, <2>4
<1>4. QED
  BY <1>1, <1>3 DEF Tracked

LEMMA NextTracked ==
  ASSUME Core, Tracked, [Next]_vars
  PROVE  Tracked'
<1>1. DeadStays
  BY NextDead
<1>2. ASSUME index' = index, tracking \subseteq tracking', lost' = lost, holder' = holder
      PROVE  Tracked'
  BY <1>1, <1>2, TrackedStep
<1>3. CASE UNCHANGED vars
  BY <1>2, <1>3 DEF vars
<1>4. CASE \E t \in tracking : Track(t) \/ TrackFails(t)
  BY <1>1, <1>4, TrackTracked
<1>5. CASE (\E s \in Sid : Expire(s))
           \/ \E u \in User : ToggleActive(u) \/ \E role \in Granted : UpdateRole(u, role)
  BY <1>2, <1>5 DEF Expire, ToggleActive, UpdateRole
<1>6. ASSUME NEW r \in Request, Begin(r) PROVE Tracked'
  BY <1>2, <1>6 DEF Begin, Load, LoadUser, LoadNobody, LoadUserFails, Entering
<1>7. ASSUME NEW r \in Request, Open(r) PROVE Tracked'
  <2>1. CASE \E s \in Sid : Regenerate(r, s)
    BY <1>1, <2>1, RegenerateTracked
  <2>2. CASE \/ \E u \in User : Register(r, u) \/ Login(r, u) \/ OAuthKnown(r, u) \/ OAuthNew(r, u)
             \/ RegenerateFails(r) \/ Setup(r) \/ Confirm(r) \/ Challenge(r)
    BY <1>2, <2>2
       DEF Register, Login, OAuthKnown, OAuthNew, Recognise, RegenerateFails, Setup, Confirm,
           Challenge, GiveFactor
  <2>3. QED
    BY <1>7, <2>1, <2>2 DEF Open
<1>8. ASSUME NEW r \in Request, Close(r) PROVE Tracked'
  <2>1. CASE KillUnindex(r)
    BY <1>1, <2>1, UnindexTracked
  <2>2. CASE Logout(r)
    <3>1. /\ UNCHANGED <<index, lost, holder>>
          /\ tracking' = tracking \/ \E t : tracking' = tracking \cup {t}
      BY <2>2 DEF Logout
    <3>2. QED
      BY <1>2, <3>1
  <2>3. CASE \/ LogoutFails(r) \/ ChangePassword(r) \/ (\E u \in User : KillUser(r, u))
             \/ KillRead(r) \/ KillDelete(r) \/ KillThrows(r) \/ Killed(r)
             \/ KillAll(r) \/ KillScan(r)
    BY <1>2, <2>3
       DEF LogoutFails, ChangePassword, KillUser, KillRead, KillDelete, KillThrows, Killed,
           KillAll, KillScan
  <2>4. QED
    BY <1>8, <2>1, <2>2, <2>3 DEF Close
<1>9. ASSUME NEW r \in Request, Finish(r) PROVE Tracked'
  BY <1>2, <1>9 DEF Finish, Browse, Decline, EndNew, EndChanged, EndUnchanged, Dies
<1>10. QED
  BY <1>3, <1>4, <1>5, <1>6, <1>7, <1>8, <1>9 DEF Next

\* A step after which the request is not at the points of a kill.
KillPoints == {"delete", "unindex", "killed"}

LEMMA KillStep ==
  ASSUME Core, KillInv, DeadStays, issued \subseteq issued', NEW r \in Request, NEW j, Step(r, j),
         KillOK(j)' \/ j.pc \notin KillPoints
  PROVE  \A q \in Request : KillOK(request[q])'
<1>1. /\ \A q \in Request : request'[q] = IF q = r THEN j ELSE request[q]
      /\ issued \subseteq issued'
  BY DEF Core, Jobs, Step, Grows
<1>2. ASSUME NEW q \in Request, q # r PROVE KillOK(request[q])'
  <2>1. KillOK(request[q]) /\ request'[q] = request[q]
    BY <1>1, <1>2 DEF KillInv
  <2>2. QED
    BY <1>1, <2>1 DEF KillOK, DeadStays
<1>3. KillOK(request[r])'
  BY <1>1 DEF KillOK, KillPoints
<1>4. QED
  BY <1>2, <1>3

LEMMA RespondKills ==
  ASSUME NEW r \in Request, NEW sid, NEW copy, NEW changed, Respond(r, sid, copy, changed)
  PROVE  \E j : Step(r, j) /\ j.pc \notin KillPoints
<1> DEFINE j == [Idle EXCEPT !.pc = "end", !.sid = sid, !.copy = copy, !.changed = changed]
<1>1. Step(r, j) /\ j.pc = "end"
  BY DEF Respond, Idle
<1>2. QED
  BY <1>1 DEF KillPoints

LEMMA BeginKills ==
  ASSUME Core, NEW r \in Request, Begin(r)
  PROVE  \E j : Step(r, j) /\ j.pc \notin KillPoints
<1> DEFINE old == request[r]
<1>1. old \in Job
  BY JobFacts
<1>2. ASSUME NEW s, NEW changes, Load(r, s, changes) PROVE \E j : Step(r, j) /\ j.pc \notin KillPoints
  <2> DEFINE session == IF s \in Live THEN store[s] ELSE Anonymous
             j == [Idle EXCEPT !.pc = "loaded", !.sid = Presented(s), !.copy = session,
                               !.changed = changes]
  <2>1. Step(r, j) /\ j.pc = "loaded"
    BY <1>2 DEF Load, Idle
  <2>2. QED
    BY <2>1 DEF KillPoints
<1>3. ASSUME NEW job, Enter(r, job), "pc" \in DOMAIN job
      PROVE  \E j : Step(r, j) /\ j.pc \notin KillPoints
  <2>1. PICK op \in Operations : \/ Step(r, [job EXCEPT !.pc = "admitted", !.op = op])
                                 \/ Respond(r, job.sid, job.copy, job.changed)
    BY <1>3 DEF Enter
  <2>2. [job EXCEPT !.pc = "admitted", !.op = op].pc \notin KillPoints
    BY <1>3 DEF KillPoints
  <2>3. QED
    BY <2>1, <2>2, RespondKills
<1>4. ASSUME LoadUser(r) \/ LoadNobody(r) \/ LoadUserFails(r)
      PROVE  \E job : Enter(r, job) /\ "pc" \in DOMAIN job
  <2>1. CASE LoadUser(r)
    <3> DEFINE j == [old EXCEPT !.user = old.copy.user, !.role = account[old.copy.user].role]
    <3>1. "pc" \in DOMAIN j
      BY <1>1 DEF Job
    <3>2. QED
      BY <2>1, <3>1 DEF LoadUser
  <2>2. CASE LoadNobody(r)
    <3> DEFINE j == [old EXCEPT !.copy.user = NoUser, !.changed = @ \/ old.copy.user # NoUser]
    <3>1. "pc" \in DOMAIN j
      BY <1>1 DEF Job
    <3>2. QED
      BY <2>2, <3>1 DEF LoadNobody
  <2>3. CASE LoadUserFails(r)
    BY <1>1, <2>3 DEF LoadUserFails, Job
  <2>4. QED
    BY <1>4, <2>1, <2>2, <2>3
<1>5. QED
  BY <1>2, <1>3, <1>4 DEF Begin

LEMMA OpenKills ==
  ASSUME Core, NEW r \in Request, Open(r)
  PROVE  \E j : Step(r, j) /\ j.pc \notin KillPoints
<1> DEFINE old == request[r]
<1>1. old \in Job
  BY JobFacts
<1>2. ASSUME NEW u, NEW facts, Recognise(r, u, facts) PROVE \E j : Step(r, j) /\ j.pc \notin KillPoints
  <2> DEFINE j == [old EXCEPT !.pc = "regenerate", !.user = u, !.role = facts.role,
                              !.twoFactor = facts.twoFactor]
  <2>1. Step(r, j) /\ j.pc = "regenerate"
    BY <1>1, <1>2 DEF Recognise, Job
  <2>2. QED
    BY <2>1 DEF KillPoints
<1>3. \/ \E u, facts : Recognise(r, u, facts)
      \/ \E sid, copy, changed : Respond(r, sid, copy, changed)
  BY DEF Open, Register, Login, OAuthKnown, OAuthNew, Regenerate, RegenerateFails, Setup,
         Confirm, Challenge, GiveFactor
<1>4. QED
  BY <1>2, <1>3, RespondKills

LEMMA FinishKills ==
  ASSUME Core, NEW r \in Request, Finish(r)
  PROVE  \E j : Step(r, j) /\ j.pc \notin KillPoints
<1>1. \/ Step(r, Idle) \/ \E sid, copy, changed : Respond(r, sid, copy, changed)
  BY DEF Finish, Browse, Decline, Answer, EndNew, EndChanged, EndUnchanged, Dies
<1>2. Idle.pc \notin KillPoints
  BY IdleFacts DEF KillPoints
<1>3. QED
  BY <1>1, <1>2, RespondKills

LEMMA CloseKills ==
  ASSUME Core, KillInv, DeadStays, NEW r \in Request, Close(r)
  PROVE  \E j : Step(r, j) /\ (KillOK(j)' \/ j.pc \notin KillPoints)
<1> DEFINE old == request[r]
           Goal == \E j : Step(r, j) /\ (KillOK(j)' \/ j.pc \notin KillPoints)
<1>1. old \in Job /\ JobOK(old, issued, holder, cleared, account)
  BY JobFacts
<1>2. KillOK(old)
  BY DEF KillInv
<1>3. ASSUME Answer(r) PROVE Goal
  BY <1>3, RespondKills DEF Answer
<1>4. CASE Logout(r) \/ LogoutFails(r)
  <2>1. Step(r, Idle) /\ Idle.pc \notin KillPoints
    BY <1>4, IdleFacts DEF Logout, LogoutFails, KillPoints
  <2>2. QED
    BY <2>1
<1>5. CASE ChangePassword(r) \/ \E u \in User : KillUser(r, u)
  <2>1. PICK u : Step(r, [old EXCEPT !.pc = "read", !.target = u])
    BY <1>5 DEF ChangePassword, KillUser
  <2>2. [old EXCEPT !.pc = "read", !.target = u].pc \notin KillPoints
    BY <1>1 DEF Job, KillPoints
  <2>3. QED
    BY <2>1, <2>2
<1>6. CASE KillRead(r)
  <2> DEFINE u == old.target
             owed == {s \in Live : store[s].user = u} \ (lost \cup Outstanding(u))
             j == [old EXCEPT !.pc = IF index[u] = {} THEN "killed" ELSE "delete",
                              !.found = index[u], !.open = owed]
  <2>1. Step(r, j) /\ old.pc = "read" /\ issued' = issued
    BY <1>6 DEF KillRead, At
  <2>2. /\ j.pc = IF index[u] = {} THEN "killed" ELSE "delete"
        /\ j.found = index[u] /\ j.open = owed
    BY <1>1 DEF Job
  <2>3. u \in User
    BY <1>1, <2>1 DEF JobOK
  <2>4. owed \subseteq index[u] /\ owed \subseteq issued
    <3> SUFFICES ASSUME NEW s \in owed PROVE s \in index[u] /\ s \in issued
      OBVIOUS
    <3>1. s \in Live /\ s \in Sid /\ store[s].user = u /\ s \notin lost /\ s \notin Outstanding(u)
      BY DEF Live
    <3>2. s \in issued /\ holder[s] = u /\ u # NoUser
      BY <2>3, <3>1, SessionsAssumption DEF Core, Stores, SessionOK
    <3>3. Known(s, u)
      BY <3>1, <3>2 DEF KillInv, Tracked, Dead
    <3>4. QED
      BY <3>1, <3>2, <3>3 DEF Known, Outstanding
  <2> HIDE DEF j, owed
  <2>5. PICK k : k = j
    OBVIOUS
  <2>6. KillOK(k)'
    BY <2>1, <2>2, <2>4, <2>5 DEF KillOK
  <2>7. QED
    BY <2>1, <2>5, <2>6
<1>7. CASE KillDelete(r)
  <2> DEFINE held == {s \in Sid : Holders(s) # {}}
             j == [old EXCEPT !.pc = "unindex", !.open = @ \ held]
  <2>1. /\ Step(r, j) /\ old.pc = "delete" /\ issued' = issued
        /\ store' = [s \in Sid |-> IF s \in old.found THEN Absent ELSE store[s]]
    BY <1>7 DEF KillDelete, At
  <2>2. j.pc = "unindex" /\ j.open = old.open \ held /\ j.sid = old.sid
    BY <1>1 DEF Job
  <2> HIDE DEF j
  <2>3. /\ \A q \in Request : request'[q] = IF q = r THEN j ELSE request[q]
        /\ issued \subseteq Sid
    BY <2>1 DEF Core, Jobs, Others, Step
  <2>4. PICK k : k = j
    OBVIOUS
  <2>5. ASSUME NEW s \in k.open PROVE Dead(s)' /\ s \in issued
    <3>1. s \in old.open /\ s \notin held
      BY <2>2, <2>4, <2>5
    <3>2. s \in issued /\ s \in old.found /\ s \in Sid
      BY <1>2, <2>1, <2>3, <3>1 DEF KillOK
    <3>3. \A q \in Request : request[q].pc = "idle" \/ request[q].sid # s
      BY <3>1, <3>2 DEF Holders
    <3>4. \A q \in Request : request'[q].pc = "idle" \/ request'[q].sid # s
      BY <2>1, <2>2, <2>3, <3>3
    <3>5. store'[s] = Absent
      BY <2>1, <3>2
    <3>6. QED
      BY <3>2, <3>4, <3>5 DEF Dead, Live, Holders
  <2>6. KillOK(k)'
    BY <2>1, <2>2, <2>4, <2>5 DEF KillOK
  <2>7. QED
    BY <2>1, <2>4, <2>6
<1>8. CASE KillUnindex(r)
  <2> DEFINE j == [old EXCEPT !.pc = "killed"]
  <2>1. Step(r, j) /\ old.pc = "unindex" /\ issued' = issued
    BY <1>8 DEF KillUnindex, Goto, At
  <2>2. j.pc = "killed" /\ j.open = old.open
    BY <1>1 DEF Job
  <2> HIDE DEF j
  <2>3. PICK k : k = j
    OBVIOUS
  <2>4. KillOK(k)'
    BY <1>2, <2>1, <2>2, <2>3 DEF KillOK, DeadStays
  <2>5. QED
    BY <2>1, <2>3, <2>4
<1>9. CASE KillThrows(r)
  BY <1>3, <1>9 DEF KillThrows
<1>10. CASE Killed(r)
  <2>1. [old EXCEPT !.pc = "regenerate"].pc \notin KillPoints
    BY <1>1 DEF Job, KillPoints
  <2>2. QED
    BY <1>3, <1>10, <2>1 DEF Killed, Goto
<1>11. CASE KillAll(r)
  <2>1. [old EXCEPT !.pc = "scan", !.found = Sid].pc \notin KillPoints
    BY <1>1 DEF Job, KillPoints
  <2>2. QED
    BY <1>11, <2>1 DEF KillAll
<1>12. CASE KillScan(r)
  <2>1. PICK left : old.pc = "scan" /\ (Answer(r) \/ Step(r, [old EXCEPT !.found = left]))
    BY <1>12 DEF KillScan, At
  <2>2. [old EXCEPT !.found = left].pc \notin KillPoints
    BY <1>1, <2>1 DEF Job, KillPoints
  <2>3. QED
    BY <1>3, <2>1, <2>2
<1>13. QED
  BY <1>4, <1>5, <1>6, <1>7, <1>8, <1>9, <1>10, <1>11, <1>12 DEF Close

LEMMA NextKillInv == Core /\ KillInv /\ [Next]_vars => KillInv'
<1> SUFFICES ASSUME Core, KillInv, [Next]_vars PROVE KillInv'
  OBVIOUS
<1>1. DeadStays /\ Tracked'
  BY NextDead, NextTracked DEF KillInv
<1>2. ASSUME UNCHANGED <<request, issued>> PROVE \A q \in Request : KillOK(request[q])'
  BY <1>1, <1>2 DEF KillInv, KillOK, DeadStays
<1>3. ASSUME NEW r \in Request, Begin(r) \/ Open(r) \/ Close(r) \/ Finish(r)
      PROVE  \A q \in Request : KillOK(request[q])'
  <2>1. \E j : Step(r, j) /\ (KillOK(j)' \/ j.pc \notin KillPoints)
    BY <1>1, <1>3, BeginKills, OpenKills, CloseKills, FinishKills
  <2>2. issued \subseteq issued'
    <3>1. CASE Begin(r) \/ Finish(r)
      BY <3>1 DEF Begin, Load, LoadUser, LoadNobody, LoadUserFails, Entering, Finish, Browse,
                  Decline, EndNew, EndChanged, EndUnchanged, Dies
    <3>2. CASE Open(r)
      BY <3>2 DEF Open, Register, Login, OAuthKnown, OAuthNew, Recognise, Regenerate,
                  RegenerateFails, Setup, Confirm, Challenge, GiveFactor
    <3>3. CASE Close(r)
      BY <3>3 DEF Close, Logout, LogoutFails, ChangePassword, KillUser, KillRead, KillDelete,
                  KillUnindex, KillThrows, Killed, KillAll, KillScan
    <3>4. QED
      BY <1>3, <3>1, <3>2, <3>3
  <2>3. QED
    BY <1>1, <2>1, <2>2, KillStep
<1>4. CASE \/ \E t \in tracking : Track(t) \/ TrackFails(t)
           \/ \E s \in Sid : Expire(s)
           \/ \E u \in User : ToggleActive(u) \/ \E role \in Granted : UpdateRole(u, role)
           \/ UNCHANGED vars
  <2>1. UNCHANGED <<request, issued>>
    BY <1>4 DEF Track, TrackFails, Expire, ToggleActive, UpdateRole, vars
  <2>2. \A q \in Request : KillOK(request[q])'
    BY <1>2, <2>1
  <2>3. QED
    BY <1>1, <2>2 DEF KillInv
<1>5. CASE \E r \in Request : Begin(r) \/ Open(r) \/ Close(r) \/ Finish(r)
  <2>1. \A q \in Request : KillOK(request[q])'
    BY <1>3, <1>5
  <2>2. QED
    BY <1>1, <2>1 DEF KillInv
<1>6. QED
  BY <1>4, <1>5 DEF Next

(* When a kill of a user's sessions ends, every session that was open when *)
(* it began is closed, but for what the index had lost or was about to     *)
(* learn of and what another request held: for any number of either.       *)
THEOREM KillEndsHolds == Spec => []KillEnds
<1>1. Init => KillInv
  <2> SUFFICES ASSUME Init PROVE KillInv
    OBVIOUS
  <2>1. Tracked
    BY DEF Init, Tracked
  <2>2. ASSUME NEW q \in Request PROVE KillOK(request[q])
    <3>1. request[q].pc = "idle"
      BY IdleFacts DEF Init
    <3>2. QED
      BY <3>1 DEF KillOK
  <2>3. QED
    BY <2>1, <2>2 DEF KillInv
<1>2. KillInv => KillEnds
  <2> SUFFICES ASSUME KillInv, NEW r \in Request, request[r].pc = "killed", NEW s \in request[r].open
               PROVE  s \notin Live
    BY DEF KillEnds, At
  <2>1. Dead(s)
    BY DEF KillInv, KillOK
  <2>2. QED
    BY <2>1 DEF Dead
<1>3. QED
  BY <1>1, <1>2, NextKillInv, SpecCore, PTL DEF Spec
=============================================================================
