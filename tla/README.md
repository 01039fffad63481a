# A TLA+ model of NamGlobal

NamGlobal is an Express shop: a catalogue read through a Redis cache, carts in the session,
coupons, payments at three providers confirmed by webhook, accounts with a second factor, an
administration with roles and refunds, and a worker that mails confirmations. This directory models
the parts whose correctness depends on the order in which things happen, checks them with TLC on
small instances, and proves the safety properties with TLAPS for all instances. Paths and line
numbers are relative to the repository.

Contents: [the system](#the-system), [the modules](#the-modules), [what the runs
check](#what-the-runs-check), [what is proved](#what-is-proved), [behaviour worth
knowing](#behaviour-worth-knowing), [what is not modelled](#what-is-not-modelled), [the
plan](#the-plan).

## The system

One or more Node processes (`server.js`, clustered by PM2) serve requests. Inside a process there
are no threads: a handler runs undisturbed until it awaits, and any other request may run at each
`await`. Between processes nothing is shared but MongoDB, Redis and the providers. So the step of
every model is *the code between two awaits*, and what a handler has read before an await may be out
of date after it.

Three facts about libraries shape everything:

- **mongoose**: `doc.save()` sends the paths whose value differs from the one that was read, filtered
  on `_id` alone. Two requests that read the same document both save; each writes its own paths. A
  path set to the value it already had is not sent (`Saved` in `Orders`, `Sent` in `Documents`). An
  element pushed on an array is sent as a push; an array that is replaced or spliced is sent whole,
  with the version that was read in the filter, and the save throws when the version has moved on
  (`Current`, `VersionError` in `Documents`).
- **express-session** (`resave: false`, `config/session.js:53`): a request loads the session when it
  begins and stores the whole copy when it ends, if it has changed it. The last one wins.
- **payment providers**: a webhook is delivered again until it is answered 200, in any order.

| Component | State | Operations | Talks to | Hard because | Correct when |
| --- | --- | --- | --- | --- | --- |
| Orders and payments (`services/paymentService.js`, `services/payments/*`, `controllers/webhookController.js`, `controllers/admin/orderAdminController.js`) | order documents; the payment, disputes and refunds at the provider; audit log | create, initiate payment, process webhook, change status, refund | checkout, providers, email queue | handlers interleave at every await; webhooks repeat and overtake; processes die between the provider's act and the save | statuses are true of the money; an answered webhook has had its effect; a high refund names somebody other than its actor; refunds are traceable and bounded |
| Checkout, cart and coupons (`controllers/checkoutController.js`, `controllers/cartController.js`, `services/cartService.js`, `services/couponService.js`, `utils/cart.js`) | session cart and code, coupon counter | add, update, remove, try a coupon, place an order (two ways) | products, coupons, orders | the session is last-writer-wins; the coupon is checked long before it is counted; payment can fail after the order exists | nothing is ordered twice or lost, a coupon is overrun by a bounded number, amounts add up |
| Read-through cache (`config/cache.js`, `services/productService.js`) | version counter, entries | getOrSet, bumpCacheVersion | catalogue pages, product and category administration | a fill and a write interleave; every call of Redis may fail | no reader who begins after an invalidation sees what was before it; the page is served without Redis |
| Authentication and two-factor (`controllers/authController.js`, `controllers/oauthController.js`, `config/passport.js`, `middleware/auth.js`) | users: counters, lock, secret; sessions | register, login, OAuth, enrol, verify, change the password, logout | session store, kill switch | counters are read and written around a slow hash; every way in sets the flags of the session by itself | a full session implies that no second factor was due or that it was given; a lock in force stands |
| Sessions and kill switch (`config/session.js`, `services/sessionKillSwitch.js`, `controllers/admin/incidentResponseController.js`) | session keys, per-user index | track, untrack, killUser, killAll | authentication | two structures updated by separate calls, one of them not awaited; requests hold copies | a session that is gone and that nobody holds stays gone; a kill closes what it can know of, which is less than is promised |
| Roles (`config/permissions.js`, `controllers/admin/userAdminController.js`, `middleware/adminAccess.js`, `routes/admin.js`) | role, active flag, audit log | updateRole, toggleActive | every admin route | target and approver are read in different steps, the role is written in a third; the order of the routers decides who is let in | nobody becomes super_admin without a second one; changes are in the log |
| Email queue and worker (`config/queues.js`, `config/queueConnection.js`, `worker.js`, `services/emailService.js`) | jobs, attempts | enqueue, process, retry, fail | orders, Redis, mail API | workers end in the middle of a job; Redis goes away | a job is worked on a bounded number of times and ends |
| Account, wishlist, tickets (`controllers/accountController.js`, `controllers/wishlistController.js`, `controllers/admin/ticketAdminController.js`) | embedded arrays of the user, tickets | edits of profile, addresses, wishlist; replies | - | concurrent edits on stale copies | no edit is lost to, or undone by, another |
| Site settings (`models/SiteSettings.js`, `controllers/admin/settingsAdminController.js`) | a singleton document | getSingleton, update | providers offered at checkout | find, then create; switches compared with stale values | there is one, and it is what was submitted |
| Start and shutdown (`server.js`, `config/database.js`, `config/redisClient.js`, `ecosystem.config.js`) | listening socket, timer | start, drain, exit, restart | all | the timer races the drain, the closing of the database and the manager's kill | nobody is cut by a clean exit; a signalled process ends |
| Middleware, pages, browser scripts, seeds, pure helpers | none across requests | | | | |

The hazards of each, with file and line, are under `hazards` in `PROJECT.json`, each with the
properties that would notice; those that no property covers say why, most often because what is
feared does happen and nothing in the repository says that it should not.

## The modules

| Module | What it is |
| --- | --- |
| `OrderLifecycle` | the abstract promise about an order: its status, who wrote it last, and the money |
| `Orders` | checkout, customer, webhooks, status changes and refunds, await by await; implements `OrderLifecycle` |
| `OrderClaims` | two statements of the repository that the code does not live up to |
| `MCOrders` | constants for TLC |
| `OrdersProofs` | the inductive invariant of `Orders`, the theorems |
| `FreshReads` | the abstract promise of the cache: no cache in it |
| `ReadCache` | `getOrSet` and `bumpCacheVersion`, call by call; implements `FreshReads` |
| `MCReadCache`, `CacheProofs` | as above, for the cache |
| `Checkout` | session carts, the coupon, and placing an order up to the answer |
| `MCCheckout`, `CheckoutProofs` | as above, for the checkout |
| `SumProofs` | sums over finite sets: their type, and what one more term adds |
| `CheckoutTotalsProofs` | the theorems of `Checkout` about quantities and amounts |
| `Roles` | roles, permissions, and the gates a request passes in the order of the routers |
| `Access` | the abstract promise about a session id |
| `Sessions` | every way in and out, the second factor, the kill switch, call by call; implements `Access` |
| `SessionClaims` | three statements of the repository that the code does not live up to |
| `MCSessions`, `SessionsProofs` | as above, for the sessions |
| `Documents` | find, change, save: logins' counters, roles, profile, addresses, wishlist, tickets, settings, audit log |
| `MCDocuments`, `DocumentsProofs` | as above, for the documents |
| `Processes` | the web process from start to exit, the worker, the queue and the process manager |
| `MCProcesses`, `ProcessesProofs` | as above, for the processes |

Some operators are used by no action (`SentWhole`, `CurrentAnyway`, `PresentedKept` and the like, each
next to the operator it imitates): each is a plausible mistake in one operation, and `PROJECT.json`
(`mutants`) names the property that notices when the operation is replaced by it.

### Orders

`db[o]` is the stored document. Its `writer` is a history variable: which part of the program wrote
the status last. It lets a property speak of what *the program* claims apart from what an
administrator decided, for `updateStatus` may write any status at any time
(`orderAdminController.js:35`). `charge`, `contested`, `issued` and `returned` are the provider's
side. `acked` collects the events that were answered 200; the provider delivers all others again and
again, so a delivery needs no message in flight: an event that is `Sent` can be received by any free
request at any time, which covers loss, delay, duplication and reordering at once.

| Code | Actions |
| --- | --- |
| `placeOrder` from `Order.create` on, `placeOrderWhatsApp` | `PlaceOrder`, `InitiatePayment` / `InitiateFails`, `SaveReference`, `Respond`; `PlaceOrderWhatsApp` |
| the customer at the provider (external) | `CustomerPays`, `CustomerDisputes` |
| `processPaymentEvent` (`paymentService.js:48`) | `HookFind` / `HookIgnore`, `HookSave`, `HookEnqueue` or `HookAudit` |
| failure of the queue or the audit log, which is caught | `HookSwallows` |
| `updateStatus` | `UpdateFind`, `UpdateSave`, `UpdateAudit` |
| `issueRefund` | `RefundCheck`, `RefundCall` / `RefundDeclined`, `RefundSave`, `RefundAudit` |
| a process that dies, a write that throws | `CheckoutDies`, `HookDies`, `UpdateDies`, `RefundDies` |

A provider's *reference* is modelled by its kind, because that is what goes wrong: Stripe knows a
session and an intent, Flutterwave the shop's number and its own transaction, Paystack one number
for everything. The records `Stripe`, `Paystack` and `Flutterwave` say which kind each adapter hands
out when, and which its refund API wants.

`OrderLifecycle` has none of this: an order, its status, and the rule that the program writes `paid`
only if captured, `disputed` only if contested, `refunded` only if money went back. What an
administrator writes is free (`Override`), `paid` without a capture included: that is what
`updateStatus` does. That comments and the repository's README call the webhook the only way from
`pending` to `paid` is a statement of its own, which `claim_only_webhook_pays` refutes.

`Approvers` are the names a refund request may give as its second approver. `issueRefund` compares
the name with the actor's and looks it up nowhere, so the runs include the name of nobody.

### ReadCache

A page is represented by its *revision*: how many writes have touched it. `promise[v]` is a history
variable: the revisions at the moment version `v` became current. A reader notes `floor`, the
promise in force when it began; `FreshServed` says it is not served less. Every call of
Redis (connect, read the version, look up, store, increment) and of the database is a step, and
every call of Redis has its failing twin.

`FreshReads` only has `Save`, `Promise`, `Begin` and `Serve`. A reader that cannot read the version
falls back to version 0 (`config/cache.js:45`) and may hit whatever is still stored there;
`FreshReads` says so openly with `ServeUnversioned` instead of hiding it.

### Checkout

`request[r]` carries the session as it was loaded (`read`) and as the handler has left it (`own`).
express-session waits for the store before it lets the response go, so the end of a request is two
steps: `Store` writes `own` if it differs (or fails, `StoreFails`), and only then `Answer` tells the
customer. Between the two the process may die (`Dies`), and then a cart is gone for an order its
customer never hears of; `CartKeptUntilOrdered` says that the order is on record with its payment
open, not that the customer knows. A call that throws in a handler (`Throws`) is answered 500 by the
error handler, and the copy is stored all the same: `addToCart` has changed it before it awaits.
`torn[s]` is a history variable that marks a session whose
requests have overlapped or whose store has failed: for such a session the code promises nothing,
since one of two overlapping requests is lost whole. `wanted` counts what the customer has put into
the cart, less what was taken out. Amounts are whole naira and `Round` is `Math.round`; that the
floating-point product `subtotal * 0.075` rounds like the exact one was compared for all subtotals
to three million.

`Orders` and `Checkout` meet at `Order.create`: `Checkout` says what goes into an order and how
often one is made, `Orders` what happens to it. They share no variable that either would read of
the other, so they are not composed.

### Sessions

`store` is what Redis or MongoDB keeps (`config/session.js:29`), `index` what Redis keeps. `Redis` says
whether `REDIS_URL` is set. Where it is not, MongoDB keeps the sessions, which then behave as they do
in Redis, but `getRedisClient` throws: no entry of the index is ever written and every kill ends in
`KillThrows`, without counting as a failure. The proofs are for both; the run `sessions` has a Redis
(without one it would see fewer behaviours), `claim_enrolment` and `claim_own_account` have none.
`request[r]` has the copy the session middleware loaded and where the handler stands. `tracking`
holds the writes of the index that nobody waits for (`trackUserSession`, and `untrackUserSession` in
`logout`): each is applied, or fails, at any later time. `holder`, `cleared` and `lost` are history
variables: for whom an id was generated, whether it may be full, and whether the index can still
find it.

| Code | Actions |
| --- | --- |
| `server.js:99` on: session, CSRF token, `loadUser`, gates of the routers | `Load`, `LoadUser` / `LoadNobody` / `LoadUserFails`, `Admitted` in `Roles` |
| `register`, `login`, the two verify callbacks of passport | `Register`, `Login`, `OAuthKnown`, `OAuthNew` |
| `req.session.regenerate` and what follows it, in all four places | `Regenerate` / `RegenerateFails`, `Track` / `TrackFails` |
| `setupTwoFactor`, `verifyTwoFactorSetup`, `verifyTwoFactorLogin` | `Setup`, `Confirm`, `Challenge` |
| `logout` | `Logout` / `LogoutFails` |
| `changePassword`, `killUser`, then `killUserSessions` | `ChangePassword`, `KillUser`; `KillRead`, `KillDelete`, `KillUnindex` / `KillThrows`, `Killed` |
| `killAll`, `killAllSessions` | `KillAll`, `KillScan` |
| the end of a response | `EndNew`, `EndChanged`, `EndUnchanged` |
| an administrator, the clock, a process that dies | `UpdateRole`, `ToggleActive`, `Expire`, `Dies` |

A password, a code or a provider's answer is right or wrong by choice: `Decline` is every refusal.
`Access` keeps of this only what an id is worth: closed, anonymous, pending or full, for the one user
it was generated for. `View` is the refinement mapping.

`INCIDENT_RESPONSE.md:25` promises of a kill that it "invalidates every active session for that
account immediately". It does not (`KillInvalidates`, run `claim_kill_immediate`): a session whose index
entry is still being written, or was lost, is not found, and one that a request holds may be stored
again. `KillEnds` is what remains, and is proved: the kill closes the sessions
stored when it reads the index, without those the index has lost (`lost`), those whose entry is on its
way (`Outstanding`), and those that some request holds when they are deleted.

### Documents

Every operation is `Begin`, `Find`, and a save; `updateRole` reads the approver in between
(`Approve`), and the administrators' operations enter the audit log after the save (`Audit`). `read`
is the document as it was found. `Sent` computes what a save leaves of the scalars; the arrays have
the operations above. `wrong` and `raced` are history variables: how many wrong passwords there
really were, and whether two logins of the user have overlapped since that was last known exactly;
`form` and `mixed` are the same for the settings, `changes` for the audit log. The time is in minutes
and only moves while it can end a lock.

A login compares the password between `Find` and its save. `WrongPassword` and `RightPassword` are
both possible at any time.

### Processes

The web process is `starting`, `up`, `draining`, `closing` or `down`; `armed` says that its ten-second
timer runs. The timer has no clock: it may go off whenever it runs. A call of the queue waits while
Redis is away (`maxRetriesPerRequest: null`, `config/queueConnection.js:16`), so a request that is
`queueing` may never be answered. `job[m]` counts the attempts made, the stalls, and every time the
job was worked on (`runs`). Web process and worker share the queue and the manager that starts them
again, and are in one module for that reason.

## What the runs check

| Run | Instance | Distinct states | Properties |
| --- | --- | --- | --- |
| `orders_safety` | 1 order at any of 3 providers, 2 webhook requests, 1 status change (cancel or pay) and 1 refund, 1 crash | 865,156 | `StatusTruthful`, `AckedIsSettled`, `DisputeRecorded`, `SettledIsConfirmed`, `ConfirmationsBounded`, `SettledRefunds`, `RefundHandleKept`, `ImplementsLifecycle` |
| `orders_refunds` | 1 order of twice the small total, 1 webhook request, 2 refund requests naming their actor, a name of nobody or none, amounts part or all, threshold 2, 1 crash, with fairness | 362,578 | `TypeOK`, `RefundTrail`, `HighValueNamesAnother`, `ChargedSettles`, `DisputeReaches` |
| `read_cache` | 1 page, 2 readers, 2 writers, 2 writes, 1 failure, with fairness | 136,126 | `TypeOK`, `FreshServed`, `ImplementsFreshReads`, `StaleEnds`, `Answered` |
| `checkout` | 1 session, 2 requests at once and 5 in all, a product with one in stock, or withdrawn, a coupon of one use (fixed or percent), 1 edit, 1 failure | 2,633,393 | `TypeOK`, `CouponOverrun`, `CouponCounted`, `TotalsAddUp`, `OrderedOnce`, `CartKeptUntilOrdered` |
| `sessions` | 2 addresses, each unknown at first or a super_admin's with a second factor; 3 session ids, 2 requests at once and 3 in all, 1 edit or expiry, 1 failure | 974,930 | `TypeOK`, `SecondFactor`, `DeadStaysDead`, `ImplementsAccess` |
| `documents` | 2 super_admins and a customer, 2 requests at once and 5 in all, threshold 2, locks of at most 3 minutes, 4 minutes, 1 failure; in each behaviour one of four groups of operations that touch the same documents | 702,916 | `TypeOK`, `CountersExact`, `AuditTrail`, `SettingsAsSubmitted`, `LockStands`, `EscalationApproved`, `EditsKept` |
| `processes` | 2 connections, 2 confirmations, 2 attempts, 1 stall, a worker of 1 job, 1 failure, 2 signals, with fairness | 175,008 | `TypeOK`, `WorkBounded`, `CleanExit`, `Stops`, `ConfirmationsEnd` |

And the runs that end in a counterexample, each a statement of the repository:

| Run | The repository says | The counterexample |
| --- | --- | --- |
| `claim_only_webhook_pays` | `paymentService.js:46`: the webhook is "the ONLY path that ever moves an order from "pending" to "paid""; also `checkoutController.js:98`, `README.md:53` | an administrator's status change moves a pending order to `paid`, with nothing captured |
| `claim_refunded_once` | `paymentService.js:140`: "Cannot refund an order in status" | two requests read `paid`; the second has the provider pay after the first has marked the order refunded |
| `claim_enrolment` | `authController.js:117`: staff without a second factor "must set it up before proceeding" | the session opened for that is pending, and `routes/auth.js:16` refuses a pending session on the routes that set it up |
| `claim_own_account` | `routes/admin.js:20`: the gate is for "every /admin route" | the router is mounted at `/` before those of the account and the legal pages; a customer's full session is refused its own account |
| `claim_kill_immediate` | `INCIDENT_RESPONSE.md:25`: a kill "invalidates every active session for that account immediately"; also `accountController.js:80` | a session is open and the write of its index entry, which nobody waits for, has not arrived; a kill for its account finds no session and ends |

### Why the bounds are enough

- *One order.* No action of `Orders` reads or writes two orders, except that requests are a shared
  pool. Two requests on one order are the interesting case; on two orders they commute.
- *Two of each actor.* Every hazard here is a race of two steps of one actor around one step of
  another. Two webhook deliveries are needed for a duplicate confirmation, two refund requests for a
  double refund, two readers for one that fills while the other reads, two checkouts for a coupon
  to be overrun. The proofs cover any number.
- *One failure.* One crash reaches every state with one step missing. `RefundTrail`, `CouponCounted`
  and `CouponOverrun` count failures, so that more of them would only move both sides.
- *One administrator.* Two refund requests race alike whether one administrator or two have made them,
  and a name other than the actor's is there in any case. That a save of `refundIssuedBy` depends on
  who made the requests is in the model and the proofs; no checked property looks at it.
- *Amounts 1 and 2, threshold 2.* A whole refund at the threshold and partial ones below it: the
  comparison has one value on either side.
- *Five requests of a session.* One to fill the cart, one for the coupon, three checkouts: the
  fewest with which the coupon can be overrun beyond its bound if the check of the limit is
  off by one.
- *Two addresses and three ids in `sessions`.* An administrator kills another's sessions, and a
  session could pass from one user to another. The ids are the one a request holds, the one a
  password change opens, and one that is opened by another request meanwhile; three requests are a
  login, an operation on its session, and one that interferes.
- *Groups of operations in `documents`.* Operations of different groups share no field of a
  document: logins, profile and activity are saved with the same scalars, roles with activity, the
  arrays with one version. Five requests reach the threshold, a lock, its doubling and a login that
  overlaps; the theorems need no groups.
- *Two attempts, one stall.* The least with which a job is retried, found stalled and given up.
- The bounds (`MaxUpdates`, `MaxFailures`, `MaxWrites`, `MaxBegun`, `MaxEdits`, `MaxTime`,
  `MaxSignals`) are guards of the
  actions that count; the theorems hold for every value of them.

Deadlock is not an error in these runs: orders end, and bounded counters stop the actors. The one
exception is `processes`, where TLC looks for deadlocks too: the manager always starts again.
Symmetry (requests, administrators, users, ids) is used only where no liveness is checked.

### Fairness

- `SF` on the delivery of each event that has been sent and not been answered: the providers
  redeliver until they see 200. It is strong because a delivery needs a free request slot, and slots
  are a bound of the model; a Node process does not run out of them.
- `WF` on the steps of a webhook request being served, and of a cache reader: the event loop goes on,
  and calls of MongoDB and Redis end or throw.
- `WF` on the expiry of cache entries: they are stored with `EX` (`config/cache.js:84`).
- `WF` on the timer of the shutdown, which the event loop runs whatever else it waits for; on the
  worker's start, restart and end, and on the progress of each job, which are the manager's and
  BullMQ's doing. `ConfirmationsEnd` assumes besides that Redis is not away for ever.
- None on the end of a request that is drained, the closing of the database, or the return of Redis:
  that `Stops` holds without them is its point.
- None on customers, administrators, failures, or on the increment of the version: nobody has to
  pay, and an administrator's request may hang.

## What is proved

`OrdersProofs`, `CacheProofs`, `CheckoutProofs`, `CheckoutTotalsProofs`, `SessionsProofs`,
`DocumentsProofs` and `ProcessesProofs` prove for all values of the constants (any number of orders,
users, requests, administrators, pages, browsers, products and jobs, any totals, coupons and
bounds), from the named assumptions of the modules alone (`OrdersAssumption`, `CacheAssumption`,
`CheckoutAssumption`, `SessionsAssumption`, `AccountsAssumption`, `DocumentsAssumption`,
`ProcessesAssumption`). The assumptions say what kind of thing each constant is, and that the
requests that are counted, the products and the mails are finite: a process serves finitely many
requests at once, and a cart is a list. Orders may be infinitely many. With this every safety
invariant, action property and refinement that a passing run checks is a theorem:

| Theorem | Says |
| --- | --- |
| `Types`, `CacheTypes`, `TypesKept`, `SessionTypes`, `DocumentTypes`, `ProcessTypes` | `TypeOK`; in it: the provider never returns more than the total; a cache key has one entry; no quantity and no amount is negative |
| `Truthful` | `StatusTruthful` |
| `AckedSettled`, `DisputesRecorded` | what a 200 promises |
| `SettledConfirmed`, `ConfirmedBounded` | `SettledIsConfirmed`, `ConfirmationsBounded` |
| `RefundsTrailed` | `RefundTrail` |
| `HandleKept`, `HighValueNamed` | the two action properties of `Orders`; the second says that a request of the threshold amount names somebody other than its actor, not that an administrator approved it |
| `SettledOrdersRefund` | `SettledRefunds`: an order that a webhook settled holds the reference its provider refunds by, except at Stripe, where it never does |
| `Implements` | `Orders` implements `OrderLifecycle` |
| `CacheFresh` | `FreshServed` |
| `CacheImplements` | `ReadCache` implements `FreshReads` |
| `CouponsCounted`, `CouponsOverrun` | `CouponCounted`, `CouponOverrun` |
| `CartsKept` | the action property `CartKeptUntilOrdered` |
| `AmountsAddUp`, `CartsOrderedOnce` | `TotalsAddUp`, `OrderedOnce` |
| `SecondFactorHolds`, `DeadNeverRise` | `SecondFactor`, `DeadStaysDead` |
| `ImplementsAccessHolds` | `Sessions` implements `Access` |
| `CountersHold`, `LockHolds`, `EscalationHolds` | `CountersExact`, `LockStands`, `EscalationApproved` |
| `EditsHold`, `AuditHolds`, `SettingsHold` | `EditsKept`, `AuditTrail`, `SettingsAsSubmitted` |
| `WorksBounded`, `ExitsClean` | `WorkBounded`, `CleanExit` |

These state what no run checks; but for `KillEnds` the definitions are in the proof modules:

| Theorem | Says |
| --- | --- |
| `SettlementsOwed` | while an order stands at `pending` and its payment is captured, the success is sent, unanswered, and finds the order (if administrators set no order to `pending`) |
| `DisputesOwed` | the same of a dispute that the order does not show, where the references match |
| `KillEndsHolds` | `KillEnds`: which sessions a kill does close |
| `LagBounded` | an entry of the current version is behind the database by no more writes than there are that wait for their increment, plus failures |
| `ReadersComeForward` | each call of `getOrSet` leads to a later one or to the answer |
| `JobsComeForward`, `JobsEnd` | a job never returns to where it was, never leaves an end, and has an end: its `Rank` is bounded by its attempts and stalls |
| `ShutdownStands` | a shutdown that has begun is not called off |

`SettlementsOwed`, `DisputesOwed`, `ReadersComeForward`, `JobsComeForward` with `JobsEnd`, and
`ShutdownStands` are the safety halves of the liveness properties `ChargedSettles`,
`DisputeReaches`, `Answered`, `ConfirmationsEnd` and `Stops`: what has to happen stays possible, and
nothing leads away from it. That it then does happen is fairness, and TLC's part.

**The argument for orders.** `StatusTruthful` is not inductive: whether `HookSave` may write `paid`
depends on what `HookFind` saw before an await. The invariant `IInv` therefore says of every request
in flight what it has made sure of: a webhook job carries an event that was sent (`HookInv`), a
refund job past its call has money returned (`RefundInv`), an answered event has had its effect
(`AckInv`), and how far checkout has come bounds the state of the payment and the reference on the
order (`PaymentInv`). What one request has made sure of survives the steps of all others because it
only speaks of facts that are never undone. `Grows` lists these; it is proved once for each action,
and the preservation of every other request's part follows from it.

A delivery that finds its order settled is answered and does nothing, so all that confirm one
payment had found the order open and were being served at the same time: `ConfirmInv` counts those
that still are (`Successes`) together with the mails, and says that there is no mail while the order
is open. A refund that is neither in the audit log nor in the hands of the request that will enter
it is `Missing`; a step can add one to them only by failing (`TrailInv`). For the refund references,
`RefsInv` says of a delivery that has read the reference of the success that the order holds it for
good: once the customer has paid, neither checkout nor anybody else replaces it (`PaidKept`).

**The argument for the cache.** A fill reads the version *before* the database, so what it stores
under version `v` is at least what was promised when `v` became current (`EntryInv`), however late
it stores. A reader reads the version after it began, so the version it holds promises at least its
`floor` (`ReaderInv`). Promises only grow (`PromiseInv`). An increment promises what its writer
finds, so the database is ahead of the newest promise by the writes whose increment is `Due` or
failed (`LagInv`). The first three together are inductive; the refinement maps an answer to `Serve`
when the version was known and to `ServeUnversioned` otherwise, and all other steps of a reader to
stuttering.

**The argument for the checkout.** `Counting` is the set of requests that have created an order with
the coupon and not counted it, `Pending` those and the ones that have only passed the check. A use
is counted by taking a request out of both, so `used` plus either is kept; only the check lets
`Pending` grow, when `used` is below the limit and `Pending` can hold no more than all requests
(`CouponInv`). For the carts, `RequestInv` says of a request that its copy of the session was read
from what is stored now, unless the session is torn, and that only an edit or an order has changed
the cart in it; `PairInv` that two requests of a session tear it and that no two hold the same
order, which is why confirming one order disturbs no other request.

Quantities and amounts are sums over the products, and `CheckoutProofs` leaves them open
(`TypeOver`). `SumProofs` supplies what is needed: a sum over a finite set depends on its terms
only, is a natural number or an integer when they are, and takes in one more term whichever was
summed first. Each is an induction on the subsets of the set, done without the induction rule, which
takes an operator: the subsets for which it fails would have a minimal one, as the subset relation
is well-founded, and taking an element out of that leaves a smaller one. With these `AmountsInv`
carries the amounts of the order in hand through `placeOrder`. `OrderedOnce` follows since what the
customer wanted, less what was ordered, covers what any copy of the session still holds, which only
a torn session could break.

**The argument for the sessions.** `Core` says of every request in flight what its point in the
handler implies (`JobOK`: a copy that is full belongs to a cleared id, a request past `loadUser`
that was admitted holds the session its gate asks for) and of the store that a session shows no more
than its id has earned (`Stores`). The copies are the difficulty, since any of them may be stored
later: so `Stores` and `JobOK` say the same of a session wherever it is. `SecondFactor` and the
refinement follow. For the kill switch, `Tracked` says that every session of a user that is stored
or held is in the index, on its way there, or lost; `KillOK` follows a kill through its calls: what
it still owes is in what it has found, and after the deletion nobody holds it, which stays so
because an id that is neither stored nor held cannot be loaded.

**The argument for the documents.** A version never goes back, and two documents of one user with
the same version have the same arrays (`ReadBefore`, kept by every save: `Onward`). So whoever finds
the version unchanged is about to replace the array that he has read, which gives `EditsKept`. A
login in flight had read no lock in force (`JobOK`), so a save that changes one had not seen it
(`LockStands`); a role that is about to be saved was seconded when it needed to be, and
`NeedsSecond` speaks of the role that was *read*, which is why a save is needed in which the written
field differs from the read one (`RoleGuards`). `CountersExact` becomes inductive (`Counted`) with
what the logins in flight have read: never more failures than there were, and, until two overlap,
exactly what is stored. `SettingsInv` says the same of the settings, and `AuditTrail` is kept by
counting the requests between the save and the entry.

**The argument for the processes.** A job's attempts and stalls are counted when it is put back, its
`runs` when it is taken: between the two it is active. `runs` is attempts made plus stalls, plus one
while it is active (`RunInv`), and a job is put back only below either limit. `Rank` orders the
points of a job's life, first by `runs` and then by `Stage`, and every step that changes a job
raises it.

**Only model-checked.** Liveness (`ChargedSettles`, `DisputeReaches`, `StaleEnds`, `Answered`,
`Stops`, `ConfirmationsEnd`), for TLAPS 1.4 does not reason about `ENABLED`; and the
counterexamples.



## Behaviour worth knowing

Met while modelling; the models have all of it unless it says otherwise.

*Orders and payments*

- An administrator can move an order from `pending` to `paid` by hand (`claim_only_webhook_pays`), and
  out of `refunded` again. The other properties speak of the statuses the program writes only.
- The second approver of a high refund is a text in the request that must differ from the actor's id
  (`paymentService.js:148`); nothing checks that it names an administrator, or anybody, although
  `paymentService.js:15` and `:129` and `README.md:55` speak of a second, distinct admin.
- An order settled through Stripe cannot be refunded through it: the webhook stores the session's id
  (`paymentService.js:67`), the refund API is given it as a payment intent (`stripeAdapter.js:72`).
  `SettledRefunds` says so of every settled order.
- A webhook that has read `pending` writes `paid` over a cancellation made before its save, although
  `paymentService.js:61` means to leave such a state alone.
- Deliveries of one success that overlap each queue a confirmation; `ConfirmationsBounded` says how
  many there can be.
- A Stripe or Flutterwave dispute names an identifier that the order does not hold, so
  `processPaymentEvent` does not find the order. `DisputeRecorded` and `DisputeReaches` are about the
  providers whose references match.
- A process that dies between the provider's refund and `order.save()` leaves a refund that is known
  to the provider only. `RefundTrail` says it is at most one per such failure.
- `refundIssuedBy` is not sent when the same administrator is already in it, so the fields of two
  concurrent refunds may come from different requests.

*Checkout and cache*

- The session is stored before the answer leaves: a process that dies in between leaves an empty cart,
  an order with an open payment, and a customer who was told of neither.
- A payment that could not be started is retried by placing the order again: a second order
  (`checkoutController.js:124` speaks of "the same order").
- Nothing decreases `product.stock`: quantities are cut down to the stock when an order is
  made, and two orders may each take all of it.
- A request that fails to read the cache version may be served an entry of version 0. An increment
  of the version that fails leaves the outdated entry current until it expires (`config/cache.js:56`).

*Sessions and access*

- Staff without a second factor cannot give one: the routes to do so want a session that is not
  pending (`routes/auth.js:16`, run `claim_enrolment`).
- The administrators' router gates everything mounted after it (`server.js:138`, run
  `claim_own_account`).
- A kill does not close every session of an account at once (`claim_kill_immediate`): the index may not
  know of one, and a request that began before stores its session again when it ends, if it has
  changed it. Without `REDIS_URL` a kill only throws, and a password change that was saved reports a
  failure.
- A customer who becomes staff while logged in keeps a full session without a second factor.
- The second approver of a promotion is a name in the request; nothing asks that person, who may
  even be inactive (`userAdminController.js:29`).

*Documents*

- A right password may leave a lock that was set while it was compared, with a counter of 0.
- The lock is 2^(attempts - threshold + 1) minutes; the comment at `authController.js:11` has no
  `+ 1`.
- Two overlapping updates of the settings mix, switch by switch (`mixed` in `Documents`), and of two
  that both find no settings one fails.
- Two toggles of the same product at once may put it on the wishlist twice; the next one removes
  both.

*Processes*

- A webhook that confirms an order hangs on `queue.add` while Redis is away, for the connection of
  the queue retries for ever. The rest of the shop fails at once, `/ready` answers 503.
- A handler without a `catch` that rejects (`setupTwoFactor`, `authController.js:138`) ends the
  process.
- `disconnectDB` closes MongoDB only. The ten seconds of `server.js:185` equal PM2's `kill_timeout`,
  so either may come first.
- The worker has a handler for SIGTERM only (`worker.js:45`), and PM2 sends SIGINT first: a deployment
  interrupts its jobs, which are then found stalled and done again.
- Resend reports a refusal in its result and does not throw: such a mail counts as sent.

## What is not modelled

- Signature checks of webhooks (a delivery that fails one changes nothing), rendering, request
  validation, rate limits, CSRF tokens, logging.
- The format of order numbers (that one may be taken is an action), the dates of coupons (expiry is a
  switch), several coupon codes at once, a Redis that restarts empty.
- Which address is marked as default: nothing reads the mark but a page. Creating a ticket, a
  newsletter entry or a message, which is one insert.
- The text shown during maintenance (`settingsAdminController.js:21`), which nothing but a page reads.
- Hashing, TOTP and OAuth themselves: their answers are chosen freely.
- A cluster of web processes: they share nothing but the databases, which the other modules already
  treat so; `Processes` has one of them.
- Pagination (`utils/pagination.js`) and the list of products viewed (`utils/recentlyViewed.js`): small
  total functions that the tests cover. Two things about pages are known and left at that: the count
  and the page are read one after the other, and products with equal sort keys may change places
  between two pages.
- Browser scripts, seeds, migrations, the load test: no state of the serving program.

Components without a module are listed in `PROJECT.json` with the reason.

## The plan

In this order; what stands is marked.

1. `OrderLifecycle`, `Orders`, `OrdersProofs` - done.
2. `FreshReads`, `ReadCache`, `CacheProofs` - done.
3. `Checkout`, `CheckoutProofs` - done.
4. `Roles`, `Access`, `Sessions`, `SessionsProofs` - done.
5. `Documents`, `DocumentsProofs` - done.
6. `Processes`, `ProcessesProofs` - done.
7. `RefundTrail` and `ConfirmationsBounded` in `OrdersProofs` - done.
8. `SumProofs`, `CheckoutTotalsProofs`: the sums of `Checkout` - done.
9. An abstract specification of a purchase, of which `OrderedOnce` and `CartKeptUntilOrdered` are
   two consequences, and the proof that `Checkout` implements it for sessions that are not torn.
10. The administration of coupons as operations of `Checkout`, with concurrent edits.

Runs are kept few: one for each question.
