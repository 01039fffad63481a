----------------------------- MODULE Documents -----------------------------
(***************************************************************************)
(* The documents that a request finds, changes and saves: users, with      *)
(* their login counters, roles, addresses and wishlists, a support ticket, *)
(* and the settings of the site.  Nothing is locked between finding and    *)
(* saving.  Saving sends what the handler has changed and no more: a       *)
(* scalar that differs from the value that was read; an element pushed on  *)
(* an array; or an array as a whole, and then only if no array of the      *)
(* document has been changed since.                                        *)
(***************************************************************************)
EXTENDS Roles, Integers, FiniteSets

CONSTANTS
  User,
  Request,      \* requests being served at once
  Item,         \* bound: addresses that can be added; the products of the wishlists
  Names,        \* what a profile may say
  Providers,    \* payment providers
  Threshold,    \* LOCKOUT_THRESHOLD
  MaxMinutes,   \* MAX_LOCKOUT_MINUTES
  Staffing,     \* the roles users may have at the beginning
  Granted,      \* bound: the roles administrators give
  Offers,       \* bound: operations tried in the same behaviour
  MaxTime,      \* bound: minutes
  MaxBegun,     \* bound: requests
  MaxFailures   \* bound: requests that fail half-way

ASSUME DocumentsAssumption ==
  /\ IsFiniteSet(Request) /\ Names # {}
  /\ Threshold \in Nat \ {0} /\ MaxMinutes \in Nat \ {0}
  /\ Staffing \subseteq [User -> Roles] /\ Granted \subseteq Roles
  /\ MaxTime \in Nat /\ MaxBegun \in Nat /\ MaxFailures \in Nat

VARIABLES
  user,       \* user[u]: the document of u
  ticket,     \* a support ticket
  settings,   \* the settings, or that there are none yet
  entries,    \* entries of the audit log
  request,    \* request[r]: a request being served
  offered,    \* the operations of this behaviour
  now, begun, failures,
  wrong,      \* wrong[u]: wrong passwords since a login that none overlapped put u right
  raced,      \* raced[u]: two logins of u have overlapped since then
  changes,    \* changes saved that have to be in the audit log
  form,       \* the settings as the last administrator wanted them
  mixed       \* two updates of the settings have overlapped

vars == <<user, ticket, settings, entries, request, offered, now, begun, failures,
          wrong, raced, changes, form, mixed>>

UserDoc == [role : Roles, active : BOOLEAN, name : Names, attempts : Nat, lockedUntil : Nat,
            addresses : SUBSET Item, wishlist : [Item -> Nat], version : Nat]
Scalars == {"role", "active", "name", "attempts", "lockedUntil"}
Statuses == {"open", "in_progress", "resolved", "closed"}
Ticket == [status : Statuses, messages : Nat]
Form == [enabled : SUBSET Providers, maintenance : BOOLEAN]
Defaults == [enabled |-> Providers, maintenance |-> FALSE]
Settings == [exists : BOOLEAN, form : Form]

NewUser(role) == [role |-> role, active |-> TRUE, name |-> CHOOSE n \in Names : TRUE,
                  attempts |-> 0, lockedUntil |-> 0, addresses |-> {},
                  wishlist |-> [i \in Item |-> 0], version |-> 0]

UserOperations == {"login", "role", "active", "profile", "address", "forget", "wishlist"}
Operations == UserOperations \cup {"reply", "settings"}
Blank == [pc |-> "idle"]
Idle(r) == request[r].pc = "idle"
Busy(r, op) == ~Idle(r) /\ request[r].op = op
Step(r, job) == request' = [request EXCEPT ![r] = job]

Init ==
  /\ \E roles \in Staffing : user = [u \in User |-> NewUser(roles[u])]
  /\ ticket = [status |-> "open", messages |-> 1]
  /\ settings = [exists |-> FALSE, form |-> Defaults]
  /\ entries = 0
  /\ request = [r \in Request |-> Blank]
  /\ offered \in Offers
  /\ now = 0 /\ begun = 0 /\ failures = 0
  /\ wrong = [u \in User |-> 0] /\ raced = [u \in User |-> FALSE]
  /\ changes = 0 /\ form = Defaults /\ mixed = FALSE

documents == <<user, ticket, settings, entries>>
history == <<wrong, raced, changes, form, mixed>>

(***************************************************************************)
(* Saving.  The paths of the document as it is now that a save replaces:   *)
(* those in which what the handler made of the document differs from what  *)
(* it had read.                                                            *)
(***************************************************************************)
SentWhole(stored, read, made) ==
  [p \in DOMAIN stored |-> IF p \in Scalars THEN made[p] ELSE stored[p]]
Sent(stored, read, made) ==
  [p \in DOMAIN stored |->
     IF p \in Scalars /\ made[p] # read[p] THEN made[p] ELSE stored[p]]

SaveScalars(u, read, made) == user' = [user EXCEPT ![u] = Sent(@, read, made)]

\* A save that sends an array moves the version on.
WithAddresses(d, addresses) == [d EXCEPT !.addresses = addresses, !.version = d.version + 1]
WithWishlist(d, wishlist) == [d EXCEPT !.wishlist = wishlist, !.version = d.version + 1]
Pushed(wishlist, i) == [wishlist EXCEPT ![i] = @ + 1]

\* An array sent as a whole is refused when the version has changed.
CurrentAnyway(u, read) == TRUE
Current(u, read) == user[u].version = read.version

(* 2^(attempts - threshold + 1) minutes, but no more than the limit.       *)
LockoutMinutes(attempts) ==
  LET minutes == 2 ^ (attempts - Threshold + 1)
  IN IF minutes \in 1..MaxMinutes THEN minutes ELSE MaxMinutes

(***************************************************************************)
(* A request begins: its own user is loaded and the gates of the route     *)
(* decide.  Nobody is logged in yet who logs in.                           *)
(***************************************************************************)
MayAsk(a, op) ==
  CASE op = "login" -> TRUE
    [] op = "wishlist" -> user[a].active
    [] OTHER -> Admitted(op, user[a].active, user[a].role, FALSE)

Targets(a, op) == IF op \in {"role", "active"} THEN User ELSE {a}

Begin(r, a, op, u) ==
  /\ Idle(r)
  /\ begun < MaxBegun /\ begun' = begun + 1
  /\ op \in offered /\ MayAsk(a, op) /\ u \in Targets(a, op)
  /\ Step(r, [pc |-> "find", op |-> op, actor |-> a, user |-> u])
  /\ UNCHANGED <<documents, offered, now, failures, history>>

\* The document is found; a locked account is refused at once.
Find(r) ==
  LET job == request[r]
      others == \E q \in Request \ {r} : Busy(q, "login") /\ request[q].pc = "save"
                                         /\ request[q].user = job.user
  IN /\ job.pc = "find" /\ job.op \in UserOperations
     /\ job.op = "login" => user[job.user].lockedUntil <= now
     /\ Step(r, [pc |-> IF job.op = "role" THEN "approve" ELSE "save", op |-> job.op,
                 actor |-> job.actor, user |-> job.user, read |-> user[job.user]])
     /\ raced' = IF job.op = "login" /\ others THEN [raced EXCEPT ![job.user] = TRUE] ELSE raced
     /\ UNCHANGED <<documents, offered, now, begun, failures, wrong, changes, form, mixed>>

FindLocked(r) ==
  LET job == request[r]
  IN /\ job.pc = "find" /\ job.op = "login"
     /\ user[job.user].lockedUntil > now
     /\ Step(r, Blank)
     /\ UNCHANGED <<documents, offered, now, begun, failures, history>>

Saving(r, op) == Busy(r, op) /\ request[r].pc = "save"

(***************************************************************************)
(* Logging in: the password is compared, the counter and the lock saved.   *)
(***************************************************************************)
Failed(d) ==
  [d EXCEPT !.attempts = @ + 1,
            !.lockedUntil = IF d.attempts + 1 >= Threshold
                            THEN now + LockoutMinutes(d.attempts + 1) ELSE @]
SucceededStillLocked(d) == [d EXCEPT !.attempts = 0]
Succeeded(d) == [d EXCEPT !.attempts = 0, !.lockedUntil = 0]

WrongPassword(r) ==
  LET job == request[r]
  IN /\ Saving(r, "login")
     /\ SaveScalars(job.user, job.read, Failed(job.read))
     /\ wrong' = [wrong EXCEPT ![job.user] = @ + 1]
     /\ Step(r, Blank)
     /\ UNCHANGED <<ticket, settings, entries, offered, now, begun, failures,
                    raced, changes, form, mixed>>

RightPassword(r) ==
  LET job == request[r]
      alone == user[job.user].attempts = job.read.attempts
               /\ user[job.user].lockedUntil = job.read.lockedUntil
               /\ ~\E q \in Request \ {r} : Saving(q, "login") /\ request[q].user = job.user
  IN /\ Saving(r, "login")
     /\ SaveScalars(job.user, job.read, Succeeded(job.read))
     /\ wrong' = IF alone THEN [wrong EXCEPT ![job.user] = 0] ELSE wrong
     /\ raced' = IF alone THEN [raced EXCEPT ![job.user] = FALSE] ELSE raced
     /\ Step(r, Blank)
     /\ UNCHANGED <<ticket, settings, entries, offered, now, begun, failures,
                    changes, form, mixed>>

(***************************************************************************)
(* The administration of users.                                            *)
(***************************************************************************)
NeedsSecond(job, role) == role = "super_admin" /\ job.read.role # "super_admin"
IsSecondAnyone(job, approver) == user[approver].role = "super_admin"
IsSecond(job, approver) == approver # job.actor /\ user[approver].role = "super_admin"

Approve(r, role, approver) ==
  LET job == request[r]
  IN /\ job.pc = "approve"
     /\ NeedsSecond(job, role) => IsSecond(job, approver)
     /\ Step(r, [pc |-> "save", op |-> "role", actor |-> job.actor, user |-> job.user,
                 read |-> job.read, role |-> role,
                 seconded |-> approver # job.actor /\ user[approver].role = "super_admin"])
     /\ UNCHANGED <<documents, offered, now, begun, failures, history>>

\* No such role, or nobody who may approve.
Refuse(r) ==
  /\ request[r].pc = "approve"
  /\ Step(r, Blank)
  /\ UNCHANGED <<documents, offered, now, begun, failures, history>>

\* What has been saved is next entered in the audit log.
ThenAudit(r) ==
  /\ Step(r, [pc |-> "audit", op |-> request[r].op])
  /\ changes' = changes + 1

SaveRole(r) ==
  LET job == request[r]
  IN /\ Saving(r, "role")
     /\ SaveScalars(job.user, job.read, [job.read EXCEPT !.role = job.role])
     /\ ThenAudit(r)
     /\ UNCHANGED <<ticket, settings, entries, offered, now, begun, failures,
                    wrong, raced, form, mixed>>

SaveActive(r) ==
  LET job == request[r]
  IN /\ Saving(r, "active")
     /\ SaveScalars(job.user, job.read, [job.read EXCEPT !.active = ~@])
     /\ ThenAudit(r)
     /\ UNCHANGED <<ticket, settings, entries, offered, now, begun, failures,
                    wrong, raced, form, mixed>>

AuditTwice(r) ==
  /\ request[r].pc = "audit"
  /\ entries' = entries + 1
  /\ Step(r, IF request[r].op = "role" THEN Blank ELSE [pc |-> "audit", op |-> "role"])
  /\ UNCHANGED <<user, ticket, settings, offered, now, begun, failures, history>>
Audit(r) ==
  /\ request[r].pc = "audit"
  /\ entries' = entries + 1
  /\ Step(r, Blank)
  /\ UNCHANGED <<user, ticket, settings, offered, now, begun, failures, history>>

(***************************************************************************)
(* The account: profile, addresses, wishlist.                              *)
(***************************************************************************)
Edited(r) ==
  /\ Step(r, Blank)
  /\ UNCHANGED <<ticket, settings, entries, offered, now, begun, failures, history>>

SaveProfile(r, name) ==
  LET job == request[r]
  IN /\ Saving(r, "profile")
     /\ SaveScalars(job.user, job.read, [job.read EXCEPT !.name = name])
     /\ Edited(r)

AddAddress(r, a) ==
  LET u == request[r].user
  IN /\ Saving(r, "address")
     /\ \A v \in User : a \notin user[v].addresses
     /\ user' = [user EXCEPT ![u] = WithAddresses(@, @.addresses \cup {a})]
     /\ Edited(r)

DeleteAddress(r, a) ==
  LET job == request[r]
  IN /\ Saving(r, "forget")
     /\ a \in job.read.addresses => Current(job.user, job.read)
     /\ user' = IF a \in job.read.addresses
                THEN [user EXCEPT ![job.user] = WithAddresses(@, job.read.addresses \ {a})]
                ELSE user
     /\ Edited(r)

AddToWishlist(r, i) ==
  LET job == request[r]
  IN /\ Saving(r, "wishlist")
     /\ job.read.wishlist[i] = 0
     /\ user' = [user EXCEPT ![job.user] = WithWishlist(@, Pushed(@.wishlist, i))]
     /\ Edited(r)

RemoveFromWishlist(r, i) ==
  LET job == request[r]
  IN /\ Saving(r, "wishlist")
     /\ job.read.wishlist[i] > 0
     /\ Current(job.user, job.read)
     /\ user' = [user EXCEPT ![job.user] =
                  WithWishlist(@, [job.read.wishlist EXCEPT ![i] = 0])]
     /\ Edited(r)

\* The version has changed: mongoose throws, nothing is saved.
VersionError(r) ==
  LET job == request[r]
  IN /\ Saving(r, "forget") \/ Saving(r, "wishlist")
     /\ user[job.user].version # job.read.version
     /\ UNCHANGED user
     /\ Edited(r)

(***************************************************************************)
(* Tickets and settings.                                                   *)
(***************************************************************************)
FindTicket(r) ==
  /\ Busy(r, "reply") /\ request[r].pc = "find"
  /\ Step(r, [pc |-> "save", op |-> "reply", was |-> ticket])
  /\ UNCHANGED <<documents, offered, now, begun, failures, history>>

(* The form may name a status, no status ("") or one that does not exist,  *)
(* which the schema refuses.                                               *)
ValidAnything(status) == TRUE
Valid(status) == status \in Statuses \cup {""}

Reply(r, status) ==
  LET was == request[r].was
  IN /\ Saving(r, "reply")
     /\ ticket' = IF Valid(status)
                  THEN [status |-> IF status \in {"", was.status} THEN ticket.status ELSE status,
                        messages |-> ticket.messages + 1]
                  ELSE ticket
     /\ Step(r, Blank)
     /\ UNCHANGED <<user, settings, entries, offered, now, begun, failures, history>>

(* getSingleton: find, else create, else, when another has created them in *)
(* between, fail.                                                          *)
FindSettings(r) ==
  /\ Busy(r, "settings") /\ request[r].pc = "find"
  /\ Step(r, IF settings.exists THEN [pc |-> "save", op |-> "settings", was |-> settings.form]
             ELSE [pc |-> "create", op |-> "settings"])
  /\ mixed' = (mixed \/ \E q \in Request \ {r} : Saving(q, "settings"))
  /\ UNCHANGED <<documents, offered, now, begun, failures, wrong, raced, changes, form>>

CreateSettings(r) ==
  /\ request[r].pc = "create"
  /\ ~settings.exists
  /\ settings' = [exists |-> TRUE, form |-> Defaults]
  /\ Step(r, [pc |-> "save", op |-> "settings", was |-> Defaults])
  /\ UNCHANGED <<user, ticket, entries, offered, now, begun, failures, history>>

CreateFails(r) ==
  /\ request[r].pc = "create"
  /\ settings.exists
  /\ Step(r, Blank)
  /\ UNCHANGED <<documents, offered, now, begun, failures, history>>

\* Each switch is a path of its own.
SwitchedOn(was, wanted) ==
  [enabled |-> settings.form.enabled \cup (wanted.enabled \ was.enabled),
   maintenance |-> IF wanted.maintenance # was.maintenance THEN wanted.maintenance
                   ELSE settings.form.maintenance]
Switched(was, wanted) ==
  [enabled |-> {p \in Providers : IF p \in wanted.enabled <=> p \in was.enabled
                                  THEN p \in settings.form.enabled ELSE p \in wanted.enabled},
   maintenance |-> IF wanted.maintenance # was.maintenance THEN wanted.maintenance
                   ELSE settings.form.maintenance]

\* The text shown during maintenance, which an empty text leaves as it was, is left out:
\* nothing reads it but the page.
SaveSettings(r, wanted) ==
  /\ Saving(r, "settings")
  /\ settings' = [settings EXCEPT !.form = Switched(request[r].was, wanted)]
  /\ form' = wanted
  /\ ThenAudit(r)
  /\ UNCHANGED <<user, ticket, entries, offered, now, begun, failures, wrong, raced, mixed>>

(***************************************************************************)
(* A request may fail at any of its calls, and time passes.                *)
(***************************************************************************)
Dies(r) ==
  /\ ~Idle(r)
  /\ failures < MaxFailures /\ failures' = failures + 1
  /\ Step(r, Blank)
  /\ UNCHANGED <<documents, offered, now, begun, history>>

\* Only a lock looks at the clock.
Tick ==
  /\ \E u \in User : user[u].lockedUntil > now
  /\ now < MaxTime /\ now' = now + 1
  /\ UNCHANGED <<documents, request, offered, begun, failures, history>>

Serve(r) ==
  \/ Find(r) \/ FindLocked(r)
  \/ WrongPassword(r) \/ RightPassword(r)
  \/ \E role \in Granted, approver \in User : Approve(r, role, approver)
  \/ Refuse(r) \/ SaveRole(r) \/ SaveActive(r) \/ Audit(r)
  \/ \E name \in Names : SaveProfile(r, name)
  \/ \E i \in Item : AddAddress(r, i) \/ DeleteAddress(r, i)
                     \/ AddToWishlist(r, i) \/ RemoveFromWishlist(r, i)
  \/ VersionError(r)
  \/ FindTicket(r) \/ (\E status \in Statuses \cup {"", "other"} : Reply(r, status))
  \/ FindSettings(r) \/ CreateSettings(r) \/ CreateFails(r)
  \/ (\E wanted \in Form : SaveSettings(r, wanted))
  \/ Dies(r)

Next ==
  \/ \E r \in Request :
       \/ \E a \in User, op \in Operations, u \in User : Begin(r, a, op, u)
       \/ Serve(r)
  \/ Tick

Spec == Init /\ [][Next]_vars

---------------------------------------------------------------------------

(* Every document keeps its type.                                          *)
TypeOK ==
  /\ user \in [User -> UserDoc]
  /\ ticket \in Ticket
  /\ settings \in Settings
  /\ \A r \in Request : ~Idle(r) => request[r].op \in offered
  /\ now \in 0..MaxTime /\ begun \in 0..MaxBegun /\ failures \in 0..MaxFailures

(* The counter never exceeds the wrong passwords there have been since the *)
(* last right one, and a lock is set for no fewer than the threshold; while *)
(* no two logins of the user overlap the counter is exact, and the lock set *)
(* from the threshold on (login).                                          *)
CountersExact ==
  \A u \in User :
    /\ user[u].attempts <= wrong[u]
    /\ user[u].lockedUntil # 0 => wrong[u] >= Threshold
    /\ ~raced[u] => /\ user[u].attempts = wrong[u]
                    /\ user[u].lockedUntil # 0 <=> wrong[u] >= Threshold

(* A lock in force stands: nothing that is saved of the user changes it,   *)
(* but a login that had read the user before the lock was set (login,      *)
(* updateProfile, updateRole, toggleActive, the addresses, the wishlist).  *)
LockStands ==
  [][\A u \in User :
       user[u].lockedUntil > now /\ user'[u].lockedUntil # user[u].lockedUntil
         => \E r \in Request : /\ Saving(r, "login") /\ request[r].user = u
                               /\ request[r].read.lockedUntil # user[u].lockedUntil]_vars

(* Nobody becomes super_admin unless some other user who was one had been  *)
(* named as second approver, whoever else changes the roles of all three   *)
(* in between (updateRole).                                                *)
EscalationApproved ==
  [][\A u \in User :
       user'[u].role = "super_admin" /\ user[u].role # "super_admin"
         => \E r \in Request : Saving(r, "role") /\ request[r].user = u /\ request[r].seconded]_vars

(* A save changes no more than the one address, or the one product of the  *)
(* wishlist, that it is about, whatever was saved since the user was read: *)
(* what another request added is not lost, and what it removed does not    *)
(* come back (addAddress, deleteAddress, toggle).                          *)
AtMostOne(S) == \A x, y \in S : x = y
EditsKept ==
  [][\A u \in User :
       /\ AtMostOne(user[u].addresses \ user'[u].addresses)
       /\ AtMostOne(user'[u].addresses \ user[u].addresses)
       /\ AtMostOne({i \in Item : user'[u].wishlist[i] # user[u].wishlist[i]})]_vars

(* The audit log has one entry for each change of a role, of a user's      *)
(* activity and of the settings, except for those still to be entered and  *)
(* for requests that failed between the two (updateRole, toggleActive,     *)
(* update).                                                                *)
AuditTrail ==
  LET due == changes - entries - Cardinality({r \in Request : request[r].pc = "audit"})
  IN due \in 0..failures

(* The settings are as the last administrator submitted them, unless two   *)
(* updates have overlapped: what one submits is compared with what that    *)
(* one had read (update, getSingleton).                                    *)
SettingsAsSubmitted == ~mixed => settings.form = form
=============================================================================
