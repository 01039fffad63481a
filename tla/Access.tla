------------------------------- MODULE Access -------------------------------
(***************************************************************************)
(* What a session id is worth.  An id is generated for one user or for     *)
(* nobody and never changes hands; what it shows may disappear and appear  *)
(* again, but it is a full session only once it is cleared.                *)
(***************************************************************************)
CONSTANTS User, Sid, NoUser

VARIABLES
  view,     \* view[s]: what the id gives access to
  issued,   \* ids generated so far
  holder,   \* holder[s]: the user it was generated for
  cleared   \* ids that may be full sessions

vars == <<view, issued, holder, cleared>>

Init ==
  /\ view = [s \in Sid |-> "closed"]
  /\ issued = {} /\ cleared = {}
  /\ holder = [s \in Sid |-> NoUser]

OnlyCloses == \A s \in Sid : view'[s] \in {view[s], "closed"}

\* A new id for a user who has proved who he is; the old one goes.
Issue(s, u, free) ==
  /\ s \in Sid \ issued
  /\ issued' = issued \cup {s}
  /\ holder' = [holder EXCEPT ![s] = u]
  /\ cleared' = IF free THEN cleared \cup {s} ELSE cleared
  /\ OnlyCloses

IssueAnonymous(s) ==
  /\ s \in Sid \ issued
  /\ issued' = issued \cup {s}
  /\ view' = [view EXCEPT ![s] = "anonymous"]
  /\ UNCHANGED <<holder, cleared>>

\* The second factor was given.
Clear(s) ==
  /\ holder[s] # NoUser
  /\ cleared' = cleared \cup {s}
  /\ UNCHANGED <<view, issued, holder>>

Show(s, what) ==
  /\ s \in issued
  /\ what # "anonymous" => holder[s] # NoUser
  /\ what = "full" => s \in cleared
  /\ view' = [view EXCEPT ![s] = what]
  /\ UNCHANGED <<issued, holder, cleared>>

Hide ==
  /\ OnlyCloses
  /\ UNCHANGED <<issued, holder, cleared>>

Next ==
  \/ \E s \in Sid : IssueAnonymous(s) \/ Clear(s)
  \/ \E s \in Sid, u \in User, free \in BOOLEAN : Issue(s, u, free)
  \/ \E s \in Sid, what \in {"anonymous", "pending", "full"} : Show(s, what)
  \/ Hide

Spec == Init /\ [][Next]_vars
=============================================================================
