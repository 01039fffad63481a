--------------------------- MODULE SessionClaims ---------------------------
(***************************************************************************)
(* What comments of the repository say about sessions and the routes do    *)
(* not do.                                                                 *)
(***************************************************************************)
EXTENDS Sessions

\* controllers/authController.js:117: an administrator or member of staff without a second
\* factor "must set it up before proceeding".  The session opened for that is pending, and
\* the routes that set the factor up (routes/auth.js:16) refuse a pending session.
MustEnrolMayEnrol ==
  \A s \in Live : store[s].enroll /\ store[s].user # NoUser
    => Admitted("setup", TRUE, account[store[s].user].role, store[s].pending)

\* routes/admin.js:20: the administrators' gate is for "every /admin route".  The router is
\* mounted before that of the account, and gates what passes through it.
OwnAccountReachable ==
  \A s \in Live : Full(store[s])
    => Admitted("password", TRUE, account[store[s].user].role, FALSE)

\* INCIDENT_RESPONSE.md:25: killing the sessions of one account "invalidates every active
\* session for that account immediately".  A kill that finds the index empty ends with
\* success at once, and the index may be empty while a session is open: the entry of
\* trackUserSession is written without waiting.  And a session the kill has deleted may
\* be stored again, by a request that held it, before the kill ends.
KillInvalidates ==
  [][\A r \in Request : request[r].pc # "killed" /\ request'[r].pc = "killed" =>
       /\ At(r, "read") => \A s \in Live : store[s].user # request[r].target
       /\ At(r, "unindex") => request[r].found \cap Live' = {}]_vars
=============================================================================
