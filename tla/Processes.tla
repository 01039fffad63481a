----------------------------- MODULE Processes -----------------------------
(***************************************************************************)
(* The processes.  The web process connects, serves, and on a signal       *)
(* drains its requests before it closes the database and exits, or is made *)
(* to exit by a timer.  Some of its requests queue a confirmation; the     *)
(* worker, a process of its own, takes the jobs of the queue, mails and    *)
(* retries.  The process manager starts both again.  The queue is kept by  *)
(* Redis, which may be away: a call of the queue then waits until it is    *)
(* back, while a call of the sessions or of the cache fails.               *)
(***************************************************************************)
EXTENDS Naturals, FiniteSets

CONSTANTS
  Request,      \* connections of the web process
  Mail,         \* bound: the confirmations that can be queued
  Attempts,     \* defaultJobOptions.attempts
  MaxStalled,   \* how often a job may be found without a worker
  Concurrency,  \* jobs a worker takes at once
  MaxFailures,  \* bound: processes that end unasked, refused connections, absences of Redis
  MaxSignals    \* bound: signals

ASSUME ProcessesAssumption ==
  /\ IsFiniteSet(Mail)
  /\ Attempts \in Nat \ {0} /\ MaxStalled \in Nat /\ Concurrency \in Nat \ {0}
  /\ MaxFailures \in Nat /\ MaxSignals \in Nat

VARIABLES
  web,       \* the web process
  armed,     \* its forceExitTimer is running
  code,      \* how it has ended: with 0 or 1, by a crash or by a kill
  request,   \* request[r]: what the connection is doing
  redis,     \* Redis answers
  worker,    \* the worker process
  job,       \* job[m]: the confirmation m in the queue
  failures, signals

webVars == <<web, armed, code, request>>
queueVars == <<worker, job>>
vars == <<webVars, redis, queueVars, failures, signals>>

Serving == {"up", "draining"}
Ended == {"completed", "failed"}
Job == [state : {"none", "waiting", "active", "delayed", "completed", "failed"},
        held : BOOLEAN, to : BOOLEAN, made : 0..Attempts, stalled : 0..MaxStalled, runs : Nat]
NoJob == [state |-> "none", held |-> FALSE, to |-> FALSE, made |-> 0, stalled |-> 0, runs |-> 0]

Held == {m \in Mail : job[m].held}
Set(m, changed) == job' = [job EXCEPT ![m] = changed]
Fails == failures < MaxFailures /\ failures' = failures + 1

Init ==
  /\ web = "starting" /\ armed = FALSE /\ code = "none"
  /\ request = [r \in Request |-> "none"]
  /\ redis = TRUE
  /\ worker = "starting"
  /\ job = [m \in Mail |-> NoJob]
  /\ failures = 0 /\ signals = 0

(***************************************************************************)
(* The web process: start.                                                 *)
(***************************************************************************)
\* app.listen, after the database and, for its sessions, Redis are connected: the
\* deployment modelled sets REDIS_URL; without it Redis is not asked for.
Listen ==
  /\ web = "starting" /\ redis
  /\ web' = "up"
  /\ UNCHANGED <<armed, code, request, redis, queueVars, failures, signals>>

\* The process ends: what it was serving is cut.
Exit(how) ==
  /\ web' = "down" /\ armed' = FALSE /\ code' = how
  /\ request' = [r \in Request |-> "none"]

\* No MongoDB, or no Redis for the sessions.
StartFails ==
  /\ web = "starting"
  /\ Exit("1") /\ Fails
  /\ UNCHANGED <<redis, queueVars, signals>>

\* The process manager starts again what has ended.
RestartWeb ==
  /\ web = "down"
  /\ web' = "starting" /\ code' = "none"
  /\ UNCHANGED <<armed, request, redis, queueVars, failures, signals>>

(***************************************************************************)
(* Requests.  One that confirms an order waits for the queue.              *)
(***************************************************************************)
\* The http server hands the application a request: a connection that is kept alive may
\* still ask while the others are drained.
Accept(r) ==
  /\ web \in Serving /\ request[r] = "none"
  /\ request' = [request EXCEPT ![r] = "handled"]
  /\ UNCHANGED <<web, armed, code, redis, queueVars, failures, signals>>

Enqueue(r) ==
  /\ request[r] = "handled"
  /\ request' = [request EXCEPT ![r] = "queueing"]
  /\ UNCHANGED <<web, armed, code, redis, queueVars, failures, signals>>

Added(r, m, to) ==
  /\ request[r] = "queueing" /\ redis
  /\ job[m].state = "none"
  /\ Set(m, [state |-> "waiting", held |-> FALSE, to |-> to, made |-> 0, stalled |-> 0, runs |-> 0])
  /\ request' = [request EXCEPT ![r] = "handled"]
  /\ UNCHANGED <<web, armed, code, redis, worker, failures, signals>>

\* The queue answers with an error, which is logged and no more.
AddFails(r) ==
  /\ request[r] = "queueing" /\ redis
  /\ request' = [request EXCEPT ![r] = "handled"]
  /\ UNCHANGED <<web, armed, code, redis, queueVars, failures, signals>>

Answer(r) ==
  /\ request[r] = "handled"
  /\ request' = [request EXCEPT ![r] = "none"]
  /\ UNCHANGED <<web, armed, code, redis, queueVars, failures, signals>>

\* A handler without a catch rejects, or anything else ends the process.
Crash ==
  /\ web \in Serving
  /\ Exit("crash") /\ Fails
  /\ UNCHANGED <<redis, queueVars, signals>>

(***************************************************************************)
(* gracefulShutdown.  A second signal changes nothing.                     *)
(***************************************************************************)
Signal ==
  /\ web \in Serving /\ signals < MaxSignals /\ signals' = signals + 1
  /\ web' = "draining" /\ armed' = TRUE
  /\ UNCHANGED <<code, request, redis, queueVars, failures>>

\* Before the handlers of the signals are set.
SignalEarly ==
  /\ web = "starting" /\ signals < MaxSignals /\ signals' = signals + 1
  /\ Exit("killed")
  /\ UNCHANGED <<redis, queueVars, failures>>

DrainedAtOnce == web = "draining"
Drained == web = "draining" /\ \A r \in Request : request[r] = "none"

DisarmedEarly == FALSE
Disarmed == armed

ServerClosed ==
  /\ Drained
  /\ web' = "closing" /\ armed' = Disarmed
  /\ UNCHANGED <<code, request, redis, queueVars, failures, signals>>

\* disconnectDB ends, or throws; it may also never end.
DatabaseClosed ==
  /\ web = "closing"
  /\ Exit("0")
  /\ UNCHANGED <<redis, queueVars, failures, signals>>

ForceExit ==
  /\ armed
  /\ Exit("1")
  /\ UNCHANGED <<redis, queueVars, failures, signals>>

\* kill_timeout is as long as the timer.
ManagerKills ==
  /\ armed
  /\ Exit("killed")
  /\ UNCHANGED <<redis, queueVars, failures, signals>>

(***************************************************************************)
(* Redis.                                                                  *)
(***************************************************************************)
RedisAway ==
  /\ redis /\ redis' = FALSE /\ Fails
  /\ UNCHANGED <<webVars, queueVars, signals>>

RedisBack ==
  /\ ~redis /\ redis' = TRUE
  /\ UNCHANGED <<webVars, queueVars, failures, signals>>

(***************************************************************************)
(* The worker.                                                             *)
(***************************************************************************)
StartWorker ==
  /\ worker = "starting" /\ worker' = "up"
  /\ UNCHANGED <<webVars, redis, job, failures, signals>>

\* What it was working on stays active, and nobody works on it.
WorkerEnds == worker' = "down" /\ job' = [m \in Mail |-> [job[m] EXCEPT !.held = FALSE]]

WorkerFails ==
  /\ worker \in {"starting", "up", "closing"} /\ Fails
  /\ WorkerEnds
  /\ UNCHANGED <<webVars, redis, signals>>

RestartWorker ==
  /\ worker = "down" /\ worker' = "starting"
  /\ UNCHANGED <<webVars, redis, job, failures, signals>>

SignalWorker ==
  /\ worker = "up" /\ signals < MaxSignals /\ signals' = signals + 1
  /\ worker' = "closing"
  /\ UNCHANGED <<webVars, redis, job, failures>>

\* SIGINT, the signal a process manager sends unless told otherwise, has no handler.
InterruptWorker ==
  /\ worker \in {"starting", "up", "closing"} /\ signals < MaxSignals /\ signals' = signals + 1
  /\ WorkerEnds
  /\ UNCHANGED <<webVars, redis, failures>>

WorkerClosed ==
  /\ worker = "closing" /\ Held = {}
  /\ WorkerEnds
  /\ UNCHANGED <<webVars, redis, failures, signals>>

(***************************************************************************)
(* Jobs.                                                                   *)
(***************************************************************************)
Take(m) ==
  /\ worker = "up" /\ redis
  /\ Cardinality(Held) < Concurrency
  /\ job[m].state = "waiting"
  /\ Set(m, [job[m] EXCEPT !.state = "active", !.held = TRUE, !.runs = @ + 1])
  /\ UNCHANGED <<webVars, redis, worker, failures, signals>>

\* Without a recipient, without a key, sent, or refused by an error in the result: all
\* the same to the queue.
Completed(m) ==
  /\ job[m].held /\ redis
  /\ Set(m, [job[m] EXCEPT !.held = FALSE, !.state = "completed"])
  /\ UNCHANGED <<webVars, redis, worker, failures, signals>>

\* The call throws, whether or not the mail has gone out.
RetriedForEver(m) == [job[m] EXCEPT !.held = FALSE, !.state = "delayed"]
Retried(m) ==
  [job[m] EXCEPT !.held = FALSE, !.made = @ + 1,
                 !.state = IF job[m].made + 1 < Attempts THEN "delayed" ELSE "failed"]

Thrown(m) ==
  /\ job[m].held /\ job[m].to /\ redis
  /\ Set(m, Retried(m))
  /\ UNCHANGED <<webVars, redis, worker, failures, signals>>

BackOff(m) ==
  /\ worker = "up" /\ redis
  /\ job[m].state = "delayed"
  /\ Set(m, [job[m] EXCEPT !.state = "waiting"])
  /\ UNCHANGED <<webVars, redis, worker, failures, signals>>

StalledOnce(m) ==
  /\ worker = "up" /\ redis
  /\ job[m].state = "active" /\ ~job[m].held /\ job[m].stalled = 0
  /\ Set(m, [job[m] EXCEPT !.state = "waiting", !.stalled = @ + 1])
  /\ UNCHANGED <<webVars, redis, worker, failures, signals>>
Stalled(m) ==
  /\ worker = "up" /\ redis
  /\ job[m].state = "active" /\ ~job[m].held
  /\ Set(m, IF job[m].stalled < MaxStalled
            THEN [job[m] EXCEPT !.state = "waiting", !.stalled = @ + 1]
            ELSE [job[m] EXCEPT !.state = "failed"])
  /\ UNCHANGED <<webVars, redis, worker, failures, signals>>

Serve(r) ==
  \/ Accept(r) \/ Enqueue(r) \/ AddFails(r) \/ Answer(r)
  \/ \E m \in Mail, to \in BOOLEAN : Added(r, m, to)

Shutdown == Signal \/ SignalEarly \/ ServerClosed \/ DatabaseClosed \/ ForceExit \/ ManagerKills

Work(m) == Take(m) \/ Completed(m) \/ Thrown(m) \/ BackOff(m) \/ Stalled(m)

Next ==
  \/ Listen \/ StartFails \/ RestartWeb \/ Crash
  \/ \E r \in Request : Serve(r)
  \/ Shutdown
  \/ RedisAway \/ RedisBack
  \/ StartWorker \/ WorkerFails \/ RestartWorker
  \/ SignalWorker \/ InterruptWorker \/ WorkerClosed
  \/ \E m \in Mail : Work(m)

(* A timer that is running goes off; the manager starts what has ended;    *)
(* the worker goes on as long as Redis answers.  Nothing makes a request   *)
(* end, the database close or Redis come back.                             *)
Fairness ==
  /\ WF_vars(ForceExit)
  /\ WF_vars(StartWorker) /\ WF_vars(RestartWorker)
  /\ WF_vars(WorkerClosed)
  /\ \A m \in Mail : WF_vars(Work(m))

Spec == Init /\ [][Next]_vars /\ Fairness

---------------------------------------------------------------------------

(* Every variable keeps its type; the timer runs exactly from the signal   *)
(* to the end of the process, and only a process that serves has requests. *)
TypeOK ==
  /\ web \in {"starting", "up", "draining", "closing", "down"}
  /\ code \in {"none", "0", "1", "crash", "killed"}
  /\ request \in [Request -> {"none", "handled", "queueing"}]
  /\ redis \in BOOLEAN
  /\ worker \in {"starting", "up", "closing", "down"}
  /\ job \in [Mail -> Job]
  /\ failures \in 0..MaxFailures /\ signals \in 0..MaxSignals
  /\ armed <=> web \in {"draining", "closing"}
  /\ web \notin Serving => \A r \in Request : request[r] = "none"

(* A confirmation is worked on no more often than it may be attempted and  *)
(* found without a worker, however the workers end and Redis goes away: so *)
(* many mails may reach a customer for one order (defaultJobOptions).      *)
WorkBounded ==
  \A m \in Mail : /\ job[m].runs <= Attempts + MaxStalled
                  /\ job[m].held => job[m].state = "active" /\ worker \in {"up", "closing"}

(* The web process ends with 0 only when a signal has come and everything  *)
(* it was serving has been answered; a request is cut by a crash, the      *)
(* timer or the manager only (gracefulShutdown).                           *)
CleanExit ==
  [][web # "down" /\ web' = "down" /\ code' = "0"
       => armed /\ \A r \in Request : request[r] = "none"]_vars

(* After a signal the web process ends, also when a request never does,    *)
(* the database never closes or Redis never comes back (gracefulShutdown). *)
Stops == armed ~> web = "down"

(* If Redis is not away for good, every confirmation that was queued is    *)
(* completed or given up in the end, whatever the workers go through       *)
(* (worker, defaultJobOptions).                                            *)
ConfirmationsEnd ==
  <>[]redis => \A m \in Mail : job[m].state # "none" ~> job[m].state \in Ended
=============================================================================
