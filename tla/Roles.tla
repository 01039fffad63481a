------------------------------- MODULE Roles -------------------------------
(***************************************************************************)
(* Roles, permissions, and what stands before each route.  The routers are *)
(* tried in the order in which server.js mounts them.  The administrators' *)
(* router gates every request that reaches it, whatever its path, and it   *)
(* is mounted before the routes of the account and of the legal pages.     *)
(***************************************************************************)

Roles == {"customer", "content_editor", "support_staff", "store_manager", "super_admin"}

Permissions == [
  customer |-> {},
  content_editor |-> {"content:edit", "product:view"},
  support_staff |-> {"order:view", "order:update_status", "product:view", "ticket:manage"},
  store_manager |-> {"order:view", "order:update_status", "order:refund_issue", "product:view",
                     "product:edit", "product:price_edit", "content:edit", "coupon:manage",
                     "ticket:manage"},
  super_admin |-> {"*"}]

RoleHasPermission(role, permission) == {"*", permission} \cap Permissions[role] # {}

(* What a request may ask for; the permission its route wants, or none.    *)
Wanted == [kill |-> "settings:edit", killAll |-> "settings:edit", settings |-> "settings:edit",
           role |-> "user:manage", active |-> "user:manage", reply |-> "ticket:manage"]

AdminOperations == DOMAIN Wanted
AccountOperations == {"password", "profile", "address", "forget"}
OpenOperations == {"browse", "register", "login", "oauth", "code", "logout"}

(* requireAuth and requireAdminSurface, of a request whose user was loaded *)
(* with that role; known says that there is one.                           *)
RequireAuthPending(known, pending) == known
RequireAuth(known, pending) == known /\ ~pending
RequireAdminSurface(known, role) == known /\ role # "customer"

\* The gates on the way to the handler of operation op: its router's own, and those of the
\* administrators' router where that is mounted before it.
Admitted(op, known, role, pending) ==
  /\ op \notin OpenOperations => RequireAuth(known, pending)
  /\ op \in AdminOperations \cup AccountOperations => RequireAdminSurface(known, role)
  /\ op \in AdminOperations => RoleHasPermission(role, Wanted[op])
=============================================================================
