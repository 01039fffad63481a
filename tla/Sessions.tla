------------------------------ MODULE Sessions ------------------------------
(***************************************************************************)
(* Logging in, the second factor, logging out and the kill switch.         *)
(*                                                                         *)
(* The store keeps each session under its id, and for each user a set of   *)
(* the ids that were opened for it, the only way in which the sessions of  *)
(* one user can be found.  A request loads the session when it begins,     *)
(* works on its own copy and stores the copy when it ends if it differs    *)
(* from what was loaded: also when the session was deleted in between.     *)
(* The index is written without waiting for the answer.  Every call of the *)
(* store and of the database is a step of its own, and may fail.           *)
(***************************************************************************)
EXTENDS Roles, Naturals

CONSTANTS
  User,      \* e-mail addresses, each with an account or without
  Sid,       \* bound: the session ids that can be generated
  Request,   \* requests being served at once
  Accounts,  \* the accounts there may be at the beginning
  Granted,   \* bound: the roles administrators give
  Redis,     \* whether REDIS_URL is set: without it MongoDB keeps the sessions, and what
             \* wants a Redis client, the index and the kill switch, only throws
  MaxBegun,  \* bound: requests
  MaxEdits,  \* bound: changes of an account by an administrator, sessions that expire
  MaxFailures, \* bound: calls that fail and requests that die
  NoUser, NoSid, NoAccount, Absent

ASSUME SessionsAssumption ==
  /\ NoUser \notin User /\ NoSid \notin Sid
  /\ Granted \subseteq Roles
  /\ Redis \in BOOLEAN
  /\ MaxBegun \in Nat /\ MaxEdits \in Nat /\ MaxFailures \in Nat

VARIABLES
  account,   \* account[u]: what the database holds of u
  store,     \* store[s]: the session stored under id s
  index,     \* index[u]: the ids stored as u's
  issued,    \* ids generated so far
  tracking,  \* writes of the index that nobody waits for
  request,   \* request[r]: a request being served
  holder,    \* holder[s]: the user whom s was opened for, when it was generated
  cleared,   \* ids that may be full sessions: no factor was due, or it was given
  lost,      \* ids the index has lost: the write failed, or the entry was deleted while
             \* the session was stored or some request could still store it
  begun,     \* requests so far
  edits,     \* changes of accounts and expiries so far
  failures   \* failures so far

counts == <<begun, edits, failures>>
vars == <<account, store, index, issued, tracking, request, holder, cleared, lost, counts>>

Account == [provider : {"local", "google", "github"}, role : Roles,
            twoFactor : BOOLEAN, active : BOOLEAN]
NewAccount(provider, role) ==
  [provider |-> provider, role |-> role, twoFactor |-> FALSE, active |-> TRUE]

Session == [user : User \cup {NoUser}, pending : BOOLEAN, enroll : BOOLEAN,
            secret : BOOLEAN]
Anonymous == [user |-> NoUser, pending |-> FALSE, enroll |-> FALSE,
              secret |-> FALSE]
Full(session) == session.user # NoUser /\ ~session.pending

\* What requests ask for here: the other forms are "browse" to a session.
Operations == OpenOperations \cup {"setup", "confirm", "password", "kill", "killAll"}

Points == {"idle", "loaded", "admitted", "regenerate", "read", "delete", "unindex",
           "killed", "scan", "end"}
Job == [pc : Points, op : Operations, sid : Sid \cup {NoSid}, copy : Session,
        changed : BOOLEAN, user : User \cup {NoUser}, role : Roles, twoFactor : BOOLEAN,
        target : User \cup {NoUser}, found : SUBSET Sid, open : SUBSET Sid]
Idle == [pc |-> "idle", op |-> "browse", sid |-> NoSid, copy |-> Anonymous, changed |-> FALSE,
         user |-> NoUser, role |-> "customer", twoFactor |-> FALSE,
         target |-> NoUser, found |-> {}, open |-> {}]

ASSUME AccountsAssumption ==
  /\ Accounts \subseteq Account \cup {NoAccount}
  /\ NoAccount \notin Account /\ Absent \notin Session

Live == {s \in Sid : store[s] # Absent}
Fresh == Sid \ issued
Holders(s) == {r \in Request : request[r].pc # "idle" /\ request[r].sid = s}
Outstanding(u) == {t.sid : t \in {x \in tracking : x.user = u /\ x.add}}
Undead(S) == {s \in S : s \in Live \/ Holders(s) # {}}

Init ==
  /\ account \in [User -> Accounts]
  /\ store = [s \in Sid |-> Absent]
  /\ index = [u \in User |-> {}]
  /\ issued = {} /\ tracking = {}
  /\ request = [r \in Request |-> Idle]
  /\ holder = [s \in Sid |-> NoUser]
  /\ cleared = {} /\ lost = {}
  /\ begun = 0 /\ edits = 0 /\ failures = 0

At(r, pc) == request[r].pc = pc
Step(r, job) == request' = [request EXCEPT ![r] = job]
Goto(r, pc) == Step(r, [request[r] EXCEPT !.pc = pc])
\* The response is sent; the session is stored at its end.
Respond(r, sid, copy, changed) ==
  Step(r, [Idle EXCEPT !.pc = "end", !.sid = sid, !.copy = copy, !.changed = changed])
Answer(r) == Respond(r, request[r].sid, request[r].copy, request[r].changed)

Fails == failures < MaxFailures /\ failures' = failures + 1 /\ UNCHANGED <<begun, edits>>
\* A call of getRedisClient throws: now and then when there is a Redis, always when not.
RedisFails == IF Redis THEN Fails ELSE UNCHANGED counts
Edits == edits < MaxEdits /\ edits' = edits + 1 /\ UNCHANGED <<begun, failures>>

\* The id a request goes on with when its cookie names s.
PresentedKept(s) == s
Presented(s) == IF s \in Live THEN s ELSE NoSid

(* The session middleware loads what is stored under the id of the cookie, *)
(* or starts a new session, whose id is chosen when it is stored.  changes *)
(* stands for what is not modelled of the session: the request sets or     *)
(* changes the mark of exposeCsrfToken, a cart, a coupon, products viewed. *)
Load(r, s, changes) ==
  LET session == IF s \in Live THEN store[s] ELSE Anonymous
  IN /\ At(r, "idle")
     /\ s \in issued \cup {NoSid}
     /\ changes \/ s \in Live   \* a new session is stored in any case
     /\ Step(r, [Idle EXCEPT !.pc = "loaded", !.sid = Presented(s), !.copy = session,
                             !.changed = changes])
     /\ begun < MaxBegun /\ begun' = begun + 1
     /\ UNCHANGED <<account, store, index, issued, tracking, holder, cleared, lost,
                    edits, failures>>

(* loadUser; then the gates on the way to what is asked for decide.        *)
Enter(r, job) ==
  \E op \in Operations :
    IF Admitted(op, job.user # NoUser, job.role, job.copy.pending)
    THEN Step(r, [job EXCEPT !.pc = "admitted", !.op = op])
    ELSE Respond(r, job.sid, job.copy, job.changed)

Entering(r) ==
  /\ At(r, "loaded")
  /\ UNCHANGED <<account, store, index, issued, tracking, holder, cleared, lost>>

LoadUser(r) ==
  LET u == request[r].copy.user
  IN /\ Entering(r) /\ UNCHANGED counts
     /\ u # NoUser /\ account[u] # NoAccount /\ account[u].active
     /\ Enter(r, [request[r] EXCEPT !.user = u, !.role = account[u].role])

LoadNobody(r) ==
  LET u == request[r].copy.user
  IN /\ Entering(r) /\ UNCHANGED counts
     /\ u # NoUser => account[u] = NoAccount \/ ~account[u].active
     /\ Enter(r, [request[r] EXCEPT !.copy.user = NoUser,
                                   !.changed = @ \/ u # NoUser])

LoadUserFails(r) ==
  /\ Entering(r) /\ Fails
  /\ request[r].copy.user # NoUser
  /\ Enter(r, request[r])

Handling(r, op) == At(r, "admitted") /\ request[r].op = op

\* Any other page or form.
Browse(r) ==
  /\ Handling(r, "browse")
  /\ Answer(r)
  /\ UNCHANGED <<account, store, index, issued, tracking, holder, cleared, lost, counts>>

\* A handler that refuses its input: a wrong password or code, a weak or breached
\* password, a locked account, an e-mail address that is taken, unknown or another
\* provider's, the confirmation of the global kill not typed.
Decline(r) ==
  /\ At(r, "admitted")
  /\ request[r].op \notin {"browse", "logout", "setup"}
  /\ Answer(r)
  /\ UNCHANGED <<account, store, index, issued, tracking, holder, cleared, lost, counts>>

(* The account is created or found; what was read of it decides later.     *)
Recognise(r, u, facts) ==
  /\ Step(r, [request[r] EXCEPT !.pc = "regenerate", !.user = u, !.role = facts.role,
                                !.twoFactor = facts.twoFactor])
  /\ UNCHANGED <<store, index, issued, tracking, holder, cleared, lost, counts>>

Register(r, u) ==
  /\ Handling(r, "register")
  /\ account[u] = NoAccount
  /\ account' = [account EXCEPT ![u] = NewAccount("local", "customer")]
  /\ Recognise(r, u, account'[u])

Login(r, u) ==
  /\ Handling(r, "login")
  /\ account[u] # NoAccount /\ account[u].provider = "local"
  /\ Recognise(r, u, account[u])
  /\ UNCHANGED account

OAuthKnown(r, u) ==
  /\ Handling(r, "oauth")
  /\ account[u] # NoAccount /\ account[u].provider # "local"
  /\ Recognise(r, u, account[u])
  /\ UNCHANGED account

OAuthNew(r, u) ==
  /\ Handling(r, "oauth")
  /\ account[u] = NoAccount
  /\ \E new \in {NewAccount("google", "customer"), NewAccount("github", "support_staff")} :
       /\ account' = [account EXCEPT ![u] = new]
       /\ Recognise(r, u, new)

(* The tail that register, login, OAuth and a password change share: the   *)
(* stored session is deleted, the new id entered in the index.             *)
FactorDue(job) ==
  job.op # "password" /\ (job.twoFactor \/ job.role # "customer")

Opened(job) ==
  [Anonymous EXCEPT !.user = job.user, !.pending = FactorDue(job),
                    !.enroll = FactorDue(job) /\ ~job.twoFactor]

NewIdsOrKept(job) == IF job.sid \in Live THEN {job.sid} ELSE Fresh
NewIds(job) == Fresh

Entered(job, s) == {[user |-> job.user, sid |-> s, add |-> TRUE]}

Regenerate(r, s) ==
  LET job == request[r]
      free == IF job.op = "password" THEN job.sid \in cleared ELSE job.role = "customer" /\ ~job.twoFactor
  IN /\ At(r, "regenerate")
     /\ s \in NewIds(job)
     /\ issued' = issued \cup {s}
     /\ store' = [x \in Sid |-> IF x = job.sid THEN Absent ELSE store[x]]
     /\ tracking' = tracking \cup Entered(job, s)
     /\ Respond(r, s, Opened(job), TRUE)
     /\ holder' = [holder EXCEPT ![s] = job.user]
     /\ cleared' = IF free THEN cleared \cup {s} ELSE cleared
     /\ UNCHANGED <<account, index, lost, counts>>

\* The deletion fails: an anonymous session under a new id is all that is left.
RegenerateFails(r) ==
  /\ At(r, "regenerate")
  /\ Respond(r, NoSid, Anonymous, TRUE)
  /\ Fails
  /\ UNCHANGED <<account, store, index, issued, tracking, holder, cleared, lost>>

Track(t) ==
  /\ Redis
  /\ t \in tracking
  /\ tracking' = tracking \ {t}
  /\ index' = [index EXCEPT ![t.user] = IF t.add THEN @ \cup {t.sid} ELSE @ \ {t.sid}]
  /\ lost' = IF t.add THEN lost ELSE lost \cup Undead({t.sid})
  /\ UNCHANGED <<account, store, issued, request, holder, cleared, counts>>

TrackFails(t) ==
  /\ t \in tracking
  /\ tracking' = tracking \ {t}
  /\ lost' = IF t.add THEN lost \cup {t.sid} ELSE lost
  /\ RedisFails
  /\ UNCHANGED <<account, store, index, issued, request, holder, cleared>>

(* Enrolment and the challenge.                                            *)
Setup(r) ==
  /\ Handling(r, "setup")
  /\ Respond(r, request[r].sid, [request[r].copy EXCEPT !.secret = TRUE], TRUE)
  /\ UNCHANGED <<account, store, index, issued, tracking, holder, cleared, lost, counts>>

GiveFactor(r, copy) ==
  /\ Respond(r, request[r].sid, copy, TRUE)
  /\ cleared' = cleared \cup {request[r].sid}
  /\ UNCHANGED <<store, index, issued, tracking, holder, lost, counts>>

\* One step for findById and save: of the account only twoFactor and the provider could
\* have changed in between, neither is ever set back, and the save writes this one path.
Confirm(r) ==
  LET job == request[r]
  IN /\ Handling(r, "confirm")
     /\ job.copy.secret
     /\ account' = [account EXCEPT ![job.copy.user].twoFactor = TRUE]
     /\ GiveFactor(r, [job.copy EXCEPT !.secret = FALSE, !.enroll = FALSE, !.pending = FALSE])

Challenge(r) ==
  LET copy == request[r].copy
  IN /\ Handling(r, "code")
     /\ copy.user # NoUser /\ copy.pending
     /\ account[copy.user].twoFactor
     /\ GiveFactor(r, [copy EXCEPT !.pending = FALSE])
     /\ UNCHANGED account

(* The session is deleted first, the index entry without waiting; nothing  *)
(* is stored at the end, also when the deletion failed.                    *)
Logout(r) ==
  LET job == request[r]
  IN /\ Handling(r, "logout")
     /\ store' = [s \in Sid |-> IF s = job.sid THEN Absent ELSE store[s]]
     /\ tracking' = IF job.copy.user = NoUser THEN tracking
                    ELSE tracking \cup {[user |-> job.copy.user, sid |-> job.sid, add |-> FALSE]}
     /\ Step(r, Idle)
     /\ UNCHANGED <<account, index, issued, holder, cleared, lost, counts>>

LogoutFails(r) ==
  /\ Handling(r, "logout")
  /\ Step(r, Idle)
  /\ Fails
  /\ UNCHANGED <<account, store, index, issued, tracking, holder, cleared, lost>>

(* killUserSessions, of an administrator for some user or of a user whose  *)
(* password has just been saved.  The read of the account, the comparison  *)
(* and the save of the password are one step: nothing but the provider is  *)
(* used of what was read, which never changes, and nothing but the         *)
(* password, which no step here looks at, is written.                      *)
ChangePassword(r) ==
  /\ Handling(r, "password")
  /\ account[request[r].user].provider = "local"
  /\ Step(r, [request[r] EXCEPT !.pc = "read", !.target = request[r].user])
  /\ UNCHANGED <<account, store, index, issued, tracking, holder, cleared, lost, counts>>

KillUser(r, u) ==
  /\ Handling(r, "kill")
  /\ account[u] # NoAccount
  /\ Step(r, [request[r] EXCEPT !.pc = "read", !.target = u])
  /\ UNCHANGED <<account, store, index, issued, tracking, holder, cleared, lost, counts>>

\* open: what the kill owes, the sessions of the user that the index has not lost and
\* that are not being entered in it.
KillRead(r) ==
  LET u == request[r].target
      owed == {s \in Live : store[s].user = u} \ (lost \cup Outstanding(u))
  IN /\ At(r, "read") /\ Redis
     /\ Step(r, [request[r] EXCEPT !.pc = IF index[u] = {} THEN "killed" ELSE "delete",
                                   !.found = index[u], !.open = owed])
     /\ UNCHANGED <<account, store, index, issued, tracking, holder, cleared, lost, counts>>

\* A request that holds a deleted session may store it again.
KillDelete(r) ==
  LET job == request[r]
      held == {s \in Sid : Holders(s) # {}}
  IN /\ At(r, "delete")
     /\ store' = [s \in Sid |-> IF s \in job.found THEN Absent ELSE store[s]]
     /\ Step(r, [job EXCEPT !.pc = "unindex", !.open = @ \ held])
     /\ UNCHANGED <<account, index, issued, tracking, holder, cleared, lost, counts>>

KillUnindex(r) ==
  LET job == request[r]
  IN /\ At(r, "unindex")
     /\ index' = [index EXCEPT ![job.target] = {}]
     /\ lost' = lost \cup Undead(index[job.target])
     /\ Goto(r, "killed")
     /\ UNCHANGED <<account, store, issued, tracking, holder, cleared, counts>>

\* Nothing that was not yet deleted is; the caller's catch answers 500.
KillThrows(r) ==
  /\ request[r].pc \in {"read", "delete", "unindex", "scan"}
  /\ Answer(r)
  /\ RedisFails
  /\ UNCHANGED <<account, store, index, issued, tracking, holder, cleared, lost>>

Killed(r) ==
  /\ At(r, "killed")
  /\ IF request[r].op = "password" THEN Goto(r, "regenerate") ELSE Answer(r)
  /\ UNCHANGED <<account, store, index, issued, tracking, holder, cleared, lost, counts>>

(* killAllSessions: the scan passes every id, some at a time.              *)
KillAll(r) ==
  /\ Handling(r, "killAll")
  /\ Step(r, [request[r] EXCEPT !.pc = "scan", !.found = Sid])
  /\ UNCHANGED <<account, store, index, issued, tracking, holder, cleared, lost, counts>>

KillScan(r) ==
  \E batch \in SUBSET request[r].found \ {{}} :
    LET left == request[r].found \ batch
    IN /\ At(r, "scan") /\ Redis
       /\ store' = [s \in Sid |-> IF s \in batch THEN Absent ELSE store[s]]
       /\ IF left = {} THEN Answer(r) ELSE Step(r, [request[r] EXCEPT !.found = left])
       /\ UNCHANGED <<account, index, issued, tracking, holder, cleared, lost, counts>>

(* The end of the response: a new session is stored under a new id, a      *)
(* changed one under its own, whether or not it is still there.            *)
EndNewUnissued(r, s) ==
  /\ At(r, "end")
  /\ request[r].sid = NoSid /\ s \in Fresh
  /\ store' = [store EXCEPT ![s] = request[r].copy]
  /\ Step(r, Idle)
  /\ UNCHANGED <<account, index, issued, tracking, holder, cleared, lost, counts>>

EndNew(r, s) ==
  /\ At(r, "end")
  /\ request[r].sid = NoSid /\ s \in Fresh
  /\ store' = [store EXCEPT ![s] = request[r].copy]
  /\ issued' = issued \cup {s}
  /\ Step(r, Idle)
  /\ UNCHANGED <<account, index, tracking, holder, cleared, lost, counts>>

EndChanged(r) ==
  LET job == request[r]
  IN /\ At(r, "end")
     /\ job.sid # NoSid /\ job.changed
     /\ store' = [store EXCEPT ![job.sid] = job.copy]
     /\ Step(r, Idle)
     /\ UNCHANGED <<account, index, issued, tracking, holder, cleared, lost, counts>>

\* The session only needs a new expiry.
EndUnchanged(r) ==
  /\ At(r, "end")
  /\ request[r].sid # NoSid /\ ~request[r].changed
  /\ Step(r, Idle)
  /\ UNCHANGED <<account, store, index, issued, tracking, holder, cleared, lost, counts>>

\* The process dies, the session cannot be stored, or the handler's promise is rejected
\* and nobody catches it.
Dies(r) ==
  /\ request[r].pc # "idle"
  /\ Step(r, Idle)
  /\ Fails
  /\ UNCHANGED <<account, store, index, issued, tracking, holder, cleared, lost>>

(* Around the requests: sessions expire; administrators give roles,        *)
(* deactivate and reactivate.                                              *)
Expire(s) ==
  /\ s \in Live
  /\ store' = [store EXCEPT ![s] = Absent]
  /\ Edits
  /\ UNCHANGED <<account, index, issued, tracking, request, holder, cleared, lost>>

UpdateRole(u, role) ==
  /\ account[u] # NoAccount /\ account[u].role # role
  /\ account' = [account EXCEPT ![u].role = role]
  /\ Edits
  /\ UNCHANGED <<store, index, issued, tracking, request, holder, cleared, lost>>

ToggleActive(u) ==
  /\ account[u] # NoAccount
  /\ account' = [account EXCEPT ![u].active = ~@]
  /\ Edits
  /\ UNCHANGED <<store, index, issued, tracking, request, holder, cleared, lost>>

Begin(r) ==
  \/ \E s \in Sid \cup {NoSid}, changes \in BOOLEAN : Load(r, s, changes)
  \/ LoadUser(r) \/ LoadNobody(r) \/ LoadUserFails(r)

Open(r) ==
  \/ \E u \in User : Register(r, u) \/ Login(r, u) \/ OAuthKnown(r, u) \/ OAuthNew(r, u)
  \/ \E s \in Sid : Regenerate(r, s)
  \/ RegenerateFails(r)
  \/ Setup(r) \/ Confirm(r) \/ Challenge(r)

Close(r) ==
  \/ Logout(r) \/ LogoutFails(r)
  \/ ChangePassword(r) \/ (\E u \in User : KillUser(r, u))
  \/ KillRead(r) \/ KillDelete(r) \/ KillUnindex(r) \/ KillThrows(r) \/ Killed(r)
  \/ KillAll(r) \/ KillScan(r)

Finish(r) ==
  \/ Browse(r) \/ Decline(r)
  \/ (\E s \in Sid : EndNew(r, s))
  \/ EndChanged(r) \/ EndUnchanged(r) \/ Dies(r)

Next ==
  \/ \E r \in Request : Begin(r) \/ Open(r) \/ Close(r) \/ Finish(r)
  \/ \E t \in tracking : Track(t) \/ TrackFails(t)
  \/ \E s \in Sid : Expire(s)
  \/ \E u \in User : ToggleActive(u) \/ \E role \in Granted : UpdateRole(u, role)

Spec == Init /\ [][Next]_vars

---------------------------------------------------------------------------

(* Every variable keeps its type; an id that was never generated is not in *)
(* use.                                                                    *)
TypeOK ==
  /\ account \in [User -> Account \cup {NoAccount}]
  /\ store \in [Sid -> Session \cup {Absent}]
  /\ index \in [User -> SUBSET issued]
  /\ issued \subseteq Sid
  /\ tracking \subseteq [user : User, sid : issued, add : BOOLEAN]
  /\ request \in [Request -> Job]
  /\ holder \in [Sid -> User \cup {NoUser}]
  /\ cleared \subseteq issued /\ lost \subseteq issued
  /\ Live \subseteq issued
  /\ begun \in 0..MaxBegun /\ edits \in 0..MaxEdits /\ failures \in 0..MaxFailures

(* No session is a full one unless no second factor was due when it was    *)
(* opened, or a code has been accepted since: of all ways to log in, of    *)
(* the enrolment and of a password change, with any other request of the   *)
(* same session in between (login, verifyTwoFactorLogin, requireAuth).     *)
(* The role counts as it was at the opening: the full session of a         *)
(* customer who is promoted stays full, as in the code.                    *)
SecondFactor == \A s \in Live : Full(store[s]) => s \in cleared

(* What a kill of one user's sessions does close, short of the "every      *)
(* active session immediately" of INCIDENT_RESPONSE.md (KillInvalidates in *)
(* SessionClaims): of the sessions that were open when it began, those the *)
(* index has not lost and has learnt of, and that no other request held    *)
(* when they were deleted (killUserSessions, trackUserSession).            *)
KillEnds == \A r \in Request : At(r, "killed") => request[r].open \cap Live = {}

(* A session that was deleted, and that no request being served holds, can *)
(* never be used again: an old cookie starts a session of a new id         *)
(* (regenerate, logout, the kill switch).                                  *)
DeadStaysDead ==
  [][\A s \in issued : s \notin Live /\ Holders(s) = {} => s \notin Live' /\ Holders(s)' = {}]_vars

(* To its user the whole of this is module Access.                         *)
View(s) ==
  IF s \notin Live THEN "closed"
  ELSE IF store[s].user = NoUser THEN "anonymous"
  ELSE IF store[s].user # holder[s] THEN "another user's"
  ELSE IF store[s].pending THEN "pending" ELSE "full"

Abstract == INSTANCE Access WITH view <- [s \in Sid |-> View(s)]
ImplementsAccess == Abstract!Spec
=============================================================================
