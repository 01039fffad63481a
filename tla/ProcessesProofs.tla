-------------------------- MODULE ProcessesProofs ---------------------------
(***************************************************************************)
(* Proofs about Processes, for any number of connections, confirmations,   *)
(* attempts, signals and failures.                                         *)
(*                                                                         *)
(* Each time a job is worked on ends in an attempt made, in a worker that  *)
(* has ended or in the end of the job: RunInv counts them.                 *)
(***************************************************************************)
EXTENDS Processes, TLAPS

RunInv(j) ==
  /\ j.held => j.state = "active"
  /\ j.state = "none" => j.runs = 0
  /\ j.state \in {"none", "waiting", "delayed"} => j.runs = j.made + j.stalled
  /\ j.state \in {"active", "completed"} => j.runs = j.made + j.stalled + 1
  /\ j.state # "failed" => j.made < Attempts
  /\ j.state = "failed" => \/ j.runs = j.made + j.stalled
                           \/ j.runs = j.made + j.stalled + 1 /\ j.made < Attempts

IInv ==
  /\ TypeOK
  /\ \A m \in Mail : RunInv(job[m])
  /\ \A m \in Mail : job[m].held => worker \in {"up", "closing"}

LEMMA InitIInv == Init => IInv
<1> SUFFICES ASSUME Init PROVE IInv
  OBVIOUS
<1>1. NoJob \in Job /\ RunInv(NoJob) /\ ~NoJob.held
  BY ProcessesAssumption DEF NoJob, Job, RunInv
<1>2. QED
  BY <1>1, ProcessesAssumption DEF Init, IInv, TypeOK

\* A step of the web process, or of Redis, that leaves the queue alone.
LEMMA WebStep ==
  ASSUME IInv, UNCHANGED queueVars, TypeOK'
  PROVE  IInv'
BY DEF IInv, queueVars

\* A step that changes one job.
LEMMA JobStep ==
  ASSUME IInv, NEW m \in Mail, NEW j \in Job, Set(m, j), RunInv(j),
         UNCHANGED <<web, armed, code, redis, worker, failures, signals>>,
         j.held => worker \in {"up", "closing"},
         request' \in [Request -> {"none", "handled", "queueing"}],
         web \notin Serving => \A r \in Request : request'[r] = "none"
  PROVE  IInv'
<1>1. job' = [job EXCEPT ![m] = j] /\ job \in [Mail -> Job]
  BY DEF Set, IInv, TypeOK
<1>2. job' \in [Mail -> Job]
  BY <1>1
<1>3. TypeOK'
  BY <1>2 DEF IInv, TypeOK, Serving
<1>4. ASSUME NEW x \in Mail PROVE RunInv(job'[x]) /\ (job'[x].held => worker' \in {"up", "closing"})
  BY <1>1 DEF IInv
<1>5. QED
  BY <1>3, <1>4 DEF IInv

LEMMA JobFacts ==
  ASSUME IInv, NEW m \in Mail
  PROVE  /\ job[m] \in Job /\ RunInv(job[m])
         /\ job[m].made \in Nat /\ job[m].stalled \in Nat /\ job[m].runs \in Nat
BY ProcessesAssumption DEF IInv, TypeOK, Job

\* The process has ended, however: the manager's view of it is consistent.
LEMMA ExitStep ==
  ASSUME IInv, NEW how \in {"0", "1", "crash", "killed"}, Exit(how),
         UNCHANGED <<redis, queueVars>>,
         failures' \in 0..MaxFailures, signals' \in 0..MaxSignals
  PROVE  IInv'
<1>1. TypeOK'
  BY DEF IInv, TypeOK, Exit, queueVars, Serving
<1>2. QED
  BY <1>1, WebStep DEF queueVars

LEMMA CountersStep ==
  ASSUME TypeOK
  PROVE  /\ Fails => failures' \in 0..MaxFailures
         /\ signals < MaxSignals /\ signals' = signals + 1 => signals' \in 0..MaxSignals
BY ProcessesAssumption DEF TypeOK, Fails

(* One step for each action of the web process.                            *)
LEMMA WebStepsIInv ==
  ASSUME IInv, Listen \/ StartFails \/ RestartWeb \/ Crash \/ Shutdown \/ RedisAway \/ RedisBack
  PROVE  IInv'
<1> TypeOK
  BY DEF IInv
<1>1. CASE Listen \/ RestartWeb
  <2>1. TypeOK'
    BY <1>1 DEF TypeOK, Listen, RestartWeb, queueVars, Serving
  <2>2. QED
    BY <1>1, <2>1, WebStep DEF Listen, RestartWeb
<1>2. CASE StartFails
  BY <1>2, ExitStep, CountersStep DEF StartFails, TypeOK
<1>3. CASE Crash
  BY <1>3, ExitStep, CountersStep DEF Crash, TypeOK
<1>4. CASE Signal
  <2>1. TypeOK'
    BY <1>4, CountersStep DEF TypeOK, Signal, queueVars, Serving
  <2>2. QED
    BY <1>4, <2>1, WebStep DEF Signal
<1>5. CASE SignalEarly
  BY <1>5, ExitStep, CountersStep DEF SignalEarly, TypeOK
<1>6. CASE ServerClosed
  <2>1. TypeOK'
    BY <1>6 DEF TypeOK, ServerClosed, Drained, Disarmed, queueVars, Serving
  <2>2. QED
    BY <1>6, <2>1, WebStep DEF ServerClosed
<1>7. CASE DatabaseClosed \/ ForceExit \/ ManagerKills
  BY <1>7, ExitStep DEF DatabaseClosed, ForceExit, ManagerKills, TypeOK
<1>8. CASE RedisAway \/ RedisBack
  <2>1. TypeOK'
    <3>1. /\ UNCHANGED <<web, armed, code, request, worker, job>> /\ redis' \in BOOLEAN
          /\ failures' \in 0..MaxFailures /\ signals' \in 0..MaxSignals
      BY <1>8, CountersStep DEF TypeOK, RedisAway, RedisBack, queueVars, webVars
    <3>2. QED
      BY <3>1 DEF TypeOK, Serving
  <2>2. QED
    BY <1>8, <2>1, WebStep DEF RedisAway, RedisBack
<1>9. QED
  BY <1>1, <1>2, <1>3, <1>4, <1>5, <1>6, <1>7, <1>8 DEF Shutdown

LEMMA RequestStepsIInv ==
  ASSUME IInv, NEW r \in Request, Serve(r)
  PROVE  IInv'
<1>1. CASE Accept(r) \/ Enqueue(r) \/ AddFails(r) \/ Answer(r)
  <2>1. TypeOK'
    BY <1>1 DEF IInv, TypeOK, Accept, Enqueue, AddFails, Answer, queueVars
  <2>2. QED
    BY <1>1, <2>1, WebStep DEF Accept, Enqueue, AddFails, Answer
<1>2. CASE \E m \in Mail, to \in BOOLEAN : Added(r, m, to)
  <2>1. PICK m \in Mail, to \in BOOLEAN : Added(r, m, to)
    BY <1>2
  <2> DEFINE j == [state |-> "waiting", held |-> FALSE, to |-> to, made |-> 0, stalled |-> 0, runs |-> 0]
  <2>2. j \in Job /\ RunInv(j) /\ ~j.held
    <3>1. j \in Job
      BY ProcessesAssumption DEF Job
    <3>2. j.state = "waiting" /\ ~j.held /\ j.made = 0 /\ j.stalled = 0 /\ j.runs = 0
      OBVIOUS
    <3> HIDE DEF j
    <3>3. QED
      BY <3>1, <3>2, ProcessesAssumption DEF RunInv
  <2>3. /\ request' \in [Request -> {"none", "handled", "queueing"}]
        /\ web \notin Serving => \A q \in Request : request'[q] = "none"
    BY <2>1 DEF IInv, TypeOK, Added
  <2> HIDE DEF j
  <2>4. Set(m, j) /\ UNCHANGED <<web, armed, code, redis, worker, failures, signals>>
    BY <2>1 DEF Added, j
  <2>5. QED
    BY <2>2, <2>3, <2>4, JobStep
<1>3. QED
  BY <1>1, <1>2 DEF Serve

LEMMA WorkStepsIInv ==
  ASSUME IInv, NEW m \in Mail, Work(m)
  PROVE  IInv'
<1> DEFINE old == job[m]
<1>1. old \in Job /\ RunInv(old) /\ old.made \in Nat /\ old.stalled \in Nat /\ old.runs \in Nat
  BY JobFacts
<1>2. /\ request \in [Request -> {"none", "handled", "queueing"}]
      /\ web \notin Serving => \A q \in Request : request[q] = "none"
      /\ old.held => worker \in {"up", "closing"}
  BY DEF IInv, TypeOK
<1>3. UNCHANGED <<web, armed, code, request, redis, worker, failures, signals>>
  BY DEF Work, Take, Completed, Thrown, BackOff, Stalled, webVars
<1>4. SUFFICES \E j \in Job : Set(m, j) /\ RunInv(j) /\ (j.held => worker \in {"up", "closing"})
  BY <1>2, <1>3, JobStep
<1>5. CASE Take(m)
  <2> DEFINE j == [old EXCEPT !.state = "active", !.held = TRUE, !.runs = @ + 1]
  <2>1. old.state = "waiting"
    BY <1>5 DEF Take
  <2>2. /\ j \in Job
        /\ j.state = "active" /\ j.made = old.made /\ j.stalled = old.stalled
        /\ j.runs = old.runs + 1
    <3>1. j \in Job
      <4>1. old.runs + 1 \in Nat /\ TRUE \in BOOLEAN
        BY <1>1
      <4>2. [old EXCEPT !.state = "active", !.held = TRUE] \in Job
        BY <1>1 DEF Job
      <4>3. j = [[old EXCEPT !.state = "active", !.held = TRUE] EXCEPT !.runs = old.runs + 1]
        BY <1>1 DEF Job
      <4>4. QED
        BY <4>1, <4>2, <4>3 DEF Job
    <3>2. /\ j.state = "active" /\ j.made = old.made /\ j.stalled = old.stalled
          /\ j.runs = old.runs + 1
      BY <1>1 DEF Job
    <3>3. QED
      BY <3>1, <3>2
  <2>3. RunInv(j)
    BY <1>1, <2>1, <2>2 DEF RunInv
  <2>4. QED
    BY <1>5, <2>2, <2>3 DEF Take
<1>6. CASE Completed(m)
  <2> DEFINE j == [old EXCEPT !.held = FALSE, !.state = "completed"]
  <2>1. j \in Job /\ RunInv(j) /\ ~j.held
    BY <1>1, <1>6 DEF Completed, Job, RunInv
  <2>2. QED
    BY <1>6, <2>1 DEF Completed
<1>7. CASE Thrown(m)
  <2> DEFINE j == [old EXCEPT !.held = FALSE, !.made = @ + 1,
                              !.state = IF old.made + 1 < Attempts THEN "delayed" ELSE "failed"]
  <2>1. old.state = "active" /\ old.made + 1 \in 0..Attempts
    BY <1>1, <1>7, ProcessesAssumption DEF Thrown, RunInv
  <2>2. /\ j \in Job
        /\ j.state = IF old.made + 1 < Attempts THEN "delayed" ELSE "failed"
        /\ ~j.held /\ j.made = old.made + 1 /\ j.stalled = old.stalled /\ j.runs = old.runs
    BY <1>1, <2>1 DEF Job
  <2>3. RunInv(j)
    BY <1>1, <2>1, <2>2, ProcessesAssumption DEF RunInv
  <2>4. QED
    BY <1>7, <2>2, <2>3 DEF Thrown, Retried
<1>8. CASE BackOff(m)
  <2> DEFINE j == [old EXCEPT !.state = "waiting"]
  <2>1. j \in Job /\ RunInv(j) /\ ~j.held
    BY <1>1, <1>8 DEF BackOff, Job, RunInv
  <2>2. QED
    BY <1>8, <2>1 DEF BackOff
<1>9. CASE Stalled(m) /\ old.stalled < MaxStalled
  <2> DEFINE j == [old EXCEPT !.state = "waiting", !.stalled = @ + 1]
  <2>1. old.stalled + 1 \in 0..MaxStalled
    BY <1>1, <1>9, ProcessesAssumption
  <2>2. old.state = "active" /\ ~old.held
    BY <1>9 DEF Stalled
  <2>3. /\ j \in Job
        /\ j.state = "waiting" /\ ~j.held
        /\ j.made = old.made /\ j.stalled = old.stalled + 1 /\ j.runs = old.runs
    BY <1>1, <2>1, <2>2 DEF Job
  <2>4. RunInv(j)
    BY <1>1, <2>2, <2>3 DEF RunInv
  <2>5. QED
    BY <1>9, <2>3, <2>4 DEF Stalled
<1>10. CASE Stalled(m) /\ ~(old.stalled < MaxStalled)
  <2> DEFINE j == [old EXCEPT !.state = "failed"]
  <2>1. j \in Job /\ RunInv(j) /\ ~j.held
    BY <1>1, <1>10 DEF Stalled, Job, RunInv
  <2>2. QED
    BY <1>10, <2>1 DEF Stalled
<1>11. QED
  BY <1>5, <1>6, <1>7, <1>8, <1>9, <1>10 DEF Work

LEMMA WorkerStepsIInv ==
  ASSUME IInv, StartWorker \/ WorkerFails \/ RestartWorker \/ SignalWorker \/ InterruptWorker
               \/ WorkerClosed
  PROVE  IInv'
<1> TypeOK
  BY DEF IInv
<1>1. CASE StartWorker \/ RestartWorker \/ SignalWorker
  <2>1. TypeOK' /\ job' = job
    BY <1>1, CountersStep DEF TypeOK, StartWorker, RestartWorker, SignalWorker, webVars
  <2>2. \A m \in Mail : job[m].held => worker' \in {"up", "closing"}
    BY <1>1 DEF IInv, StartWorker, RestartWorker, SignalWorker
  <2>3. QED
    BY <2>1, <2>2 DEF IInv
<1>2. CASE WorkerFails \/ InterruptWorker \/ WorkerClosed
  <2>1. /\ WorkerEnds /\ UNCHANGED <<web, armed, code, request, redis>>
        /\ failures' \in 0..MaxFailures /\ signals' \in 0..MaxSignals
    BY <1>2, CountersStep DEF TypeOK, WorkerFails, InterruptWorker, WorkerClosed, webVars
  <2>2. ASSUME NEW m \in Mail
        PROVE  job'[m] \in Job /\ RunInv(job'[m]) /\ ~job'[m].held
    <3>1. job'[m] = [job[m] EXCEPT !.held = FALSE]
      BY <2>1 DEF WorkerEnds
    <3>2. QED
      BY <3>1, JobFacts DEF Job, RunInv
  <2>3. job' \in [Mail -> Job]
    BY <2>1, <2>2 DEF WorkerEnds
  <2>4. TypeOK'
    BY <2>1, <2>3 DEF TypeOK, WorkerEnds
  <2>5. QED
    BY <2>2, <2>4 DEF IInv
<1>3. QED
  BY <1>1, <1>2

LEMMA NextIInv == IInv /\ [Next]_vars => IInv'
<1> SUFFICES ASSUME IInv, [Next]_vars PROVE IInv'
  OBVIOUS
<1>1. CASE UNCHANGED vars
  BY <1>1 DEF vars, webVars, queueVars, IInv, TypeOK, Serving
<1>2. CASE Next
  BY <1>2, WebStepsIInv, RequestStepsIInv, WorkStepsIInv, WorkerStepsIInv DEF Next
<1>3. QED
  BY <1>1, <1>2

LEMMA SpecIInv == Spec => []IInv
BY InitIInv, NextIInv, PTL DEF Spec

----------------------------------------------------------------------------

(* Every variable keeps its type; the timer runs exactly from the signal   *)
(* to the end of the process, and only a process that serves has requests. *)
THEOREM ProcessTypes == Spec => []TypeOK
<1>1. IInv => TypeOK
  BY DEF IInv
<1>2. QED
  BY <1>1, SpecIInv, PTL

(* For any number of workers that end and of confirmations, none is worked *)
(* on more often than it may be attempted and found without a worker.      *)
THEOREM WorksBounded == Spec => []WorkBounded
<1>1. IInv => WorkBounded
  <2> SUFFICES ASSUME IInv, NEW m \in Mail
               PROVE  /\ job[m].runs <= Attempts + MaxStalled
                      /\ job[m].held => job[m].state = "active" /\ worker \in {"up", "closing"}
    BY DEF WorkBounded
  <2>1. job[m] \in Job /\ RunInv(job[m])
    BY JobFacts
  <2>2. job[m].runs <= Attempts + MaxStalled
    BY <2>1, ProcessesAssumption DEF Job, RunInv
  <2>3. QED
    BY <2>1, <2>2 DEF IInv, RunInv
<1>2. QED
  BY <1>1, SpecIInv, PTL

(* The web process ends with 0 only after a signal and with every request  *)
(* answered, for any number of connections.                                *)
THEOREM ExitsClean == Spec => CleanExit
<1> DEFINE Clean == web # "down" /\ web' = "down" /\ code' = "0"
                      => armed /\ \A r \in Request : request[r] = "none"
<1>1. IInv /\ [Next]_vars => Clean
  <2> SUFFICES ASSUME TypeOK, [Next]_vars, web # "down", web' = "down", code' = "0"
               PROVE  armed /\ \A r \in Request : request[r] = "none"
    BY DEF IInv
  <2>1. CASE DatabaseClosed
    BY <2>1 DEF DatabaseClosed, TypeOK, Serving
  <2>2. ~(UNCHANGED web)
    OBVIOUS
  <2>3. ~(StartFails \/ Crash \/ SignalEarly \/ ForceExit \/ ManagerKills)
    BY DEF StartFails, Crash, SignalEarly, ForceExit, ManagerKills, Exit
  <2>4. ~(Listen \/ RestartWeb \/ Signal \/ ServerClosed)
    BY DEF Listen, RestartWeb, Signal, ServerClosed
  <2>5. ~(UNCHANGED vars \/ RedisAway \/ RedisBack \/ \E r \in Request : Serve(r))
    BY <2>2 DEF vars, webVars, RedisAway, RedisBack, Serve, Accept, Enqueue, Added, AddFails, Answer
  <2>6. ~(StartWorker \/ WorkerFails \/ RestartWorker \/ SignalWorker \/ InterruptWorker \/ WorkerClosed)
    BY <2>2 DEF webVars, StartWorker, WorkerFails, RestartWorker, SignalWorker, InterruptWorker,
                WorkerClosed
  <2>7. ~(\E m \in Mail : Work(m))
    BY <2>2 DEF webVars, Work, Take, Completed, Thrown, BackOff, Stalled
  <2>8. QED
    BY <2>1, <2>3, <2>4, <2>5, <2>6, <2>7 DEF Next, Shutdown
<1>2. (Clean => [web # "down" /\ web' = "down" /\ code' = "0"
                   => armed /\ \A r \in Request : request[r] = "none"]_vars)
  OBVIOUS
<1>3. QED
  BY <1>1, SpecIInv, PTL DEF Spec, CleanExit

----------------------------------------------------------------------------
(* What liveness rests on: how far a job and a shutdown have come.         *)

\* How far a job has come since it was last taken by a worker.
Stage(j) == IF j.held \/ j.state = "none" THEN 0
            ELSE IF j.state = "active" THEN 1
            ELSE IF j.state = "waiting" THEN 3 ELSE 2
Rank(j) == 4 * j.runs + Stage(j)

\* Whatever happens to a job brings it forward, and nothing happens to one that ended.
Forward(old, new) == /\ old.state \in Ended => new = old
                     /\ new # old => Rank(old) < Rank(new)
JobsForward == [][\A m \in Mail : Forward(job[m], job'[m])]_vars
RankBounded == \A m \in Mail : Rank(job[m]) \in 0 .. 4 * (Attempts + MaxStalled) + 3

\* A shutdown that has begun is not called off: the timer runs until the process ends.
ShutdownGoesOn == [][armed => armed' \/ web' = "down"]_vars

\* The comparison of ranks, from what changes in a job.
LEMMA RankGrows ==
  ASSUME NEW old, NEW new, old.runs \in Nat, old.state \notin Ended,
         \/ new.runs = old.runs /\ Stage(old) < Stage(new)
         \/ new.runs = old.runs + 1 /\ Stage(new) = 0
  PROVE  Forward(old, new)
<1>1. Stage(old) \in 0..3 /\ Stage(new) \in 0..3
  BY DEF Stage
<1>2. Rank(old) = 4 * old.runs + Stage(old) /\ Rank(new) = 4 * new.runs + Stage(new)
  BY DEF Rank
<1>3. Rank(old) < Rank(new)
  BY <1>1, <1>2
<1>4. QED
  BY <1>3 DEF Forward

LEMMA SameForward == ASSUME NEW j PROVE Forward(j, j)
BY DEF Forward

\* A job that is queued goes from nowhere to the back of the queue.
LEMMA AddedForward ==
  ASSUME IInv, NEW r \in Request, NEW m \in Mail, NEW to \in BOOLEAN, Added(r, m, to)
  PROVE  Forward(job[m], job'[m])
<1> DEFINE j == [state |-> "waiting", held |-> FALSE, to |-> to, made |-> 0, stalled |-> 0, runs |-> 0]
<1>1. job[m].state = "none" /\ job'[m] = j
  BY DEF Added, Set, IInv, TypeOK
<1>2. j.state = "waiting" /\ ~j.held /\ j.runs = 0
  OBVIOUS
<1> HIDE DEF j
<1>3. job[m].runs = 0 /\ ~job[m].held
  BY <1>1, JobFacts DEF RunInv
<1>4. Stage(job[m]) = 0 /\ Stage(j) = 3
  BY <1>1, <1>2, <1>3 DEF Stage
<1>5. QED
  BY <1>1, <1>2, <1>3, <1>4, RankGrows DEF Ended

\* A job on which a worker, or the queue itself, takes a step.
LEMMA WorkForward ==
  ASSUME IInv, NEW m \in Mail, Work(m)
  PROVE  Forward(job[m], job'[m])
<1> DEFINE old == job[m]
<1>1. old \in Job /\ RunInv(old) /\ old.runs \in Nat
  BY JobFacts
<1>2. ASSUME NEW j, Set(m, j) PROVE job'[m] = j
  BY <1>2 DEF Set, IInv, TypeOK
<1>3. CASE Take(m)
  <2> DEFINE j == [old EXCEPT !.state = "active", !.held = TRUE, !.runs = @ + 1]
  <2>1. old.state = "waiting" /\ job'[m] = j
    BY <1>2, <1>3 DEF Take
  <2>2. j.held /\ j.runs = old.runs + 1
    BY <1>1 DEF Job
  <2>3. Stage(j) = 0
    BY <2>2 DEF Stage
  <2> HIDE DEF j
  <2>4. QED
    BY <1>1, <2>1, <2>2, <2>3, RankGrows DEF Ended
<1>4. CASE Completed(m)
  <2> DEFINE j == [old EXCEPT !.held = FALSE, !.state = "completed"]
  <2>1. old.held /\ old.state = "active" /\ job'[m] = j
    BY <1>1, <1>2, <1>4 DEF Completed, RunInv
  <2>2. ~j.held /\ j.state = "completed" /\ j.runs = old.runs
    BY <1>1 DEF Job
  <2> HIDE DEF j
  <2>3. Stage(old) = 0 /\ Stage(j) = 2
    BY <2>1, <2>2 DEF Stage
  <2>4. QED
    BY <1>1, <2>1, <2>2, <2>3, RankGrows DEF Ended
<1>5. CASE Thrown(m)
  <2> DEFINE j == [old EXCEPT !.held = FALSE, !.made = @ + 1,
                              !.state = IF old.made + 1 < Attempts THEN "delayed" ELSE "failed"]
  <2>1. old.held /\ old.state = "active" /\ job'[m] = j
    BY <1>1, <1>2, <1>5 DEF Thrown, Retried, RunInv
  <2>2. ~j.held /\ j.state \in {"delayed", "failed"} /\ j.runs = old.runs
    BY <1>1 DEF Job
  <2> HIDE DEF j
  <2>3. Stage(old) = 0 /\ Stage(j) = 2
    BY <2>1, <2>2 DEF Stage
  <2>4. QED
    BY <1>1, <2>1, <2>2, <2>3, RankGrows DEF Ended
<1>6. CASE BackOff(m)
  <2> DEFINE j == [old EXCEPT !.state = "waiting"]
  <2>1. old.state = "delayed" /\ ~old.held /\ job'[m] = j
    BY <1>1, <1>2, <1>6 DEF BackOff, RunInv
  <2>2. ~j.held /\ j.state = "waiting" /\ j.runs = old.runs
    BY <1>1, <2>1 DEF Job
  <2> HIDE DEF j
  <2>3. Stage(old) = 2 /\ Stage(j) = 3
    BY <2>1, <2>2 DEF Stage
  <2>4. QED
    BY <1>1, <2>1, <2>2, <2>3, RankGrows DEF Ended
<1>7. CASE Stalled(m)
  <2> DEFINE back == [old EXCEPT !.state = "waiting", !.stalled = @ + 1]
             given == [old EXCEPT !.state = "failed"]
  <2>1. old.state = "active" /\ ~old.held /\ job'[m] \in {back, given}
    BY <1>2, <1>7 DEF Stalled
  <2>2. /\ back.state = "waiting" /\ ~back.held /\ back.runs = old.runs
        /\ given.state = "failed" /\ ~given.held /\ given.runs = old.runs
    BY <1>1, <2>1 DEF Job
  <2> HIDE DEF back, given
  <2>3. Stage(old) = 1 /\ Stage(back) = 3 /\ Stage(given) = 2
    BY <2>1, <2>2 DEF Stage
  <2>4. Forward(old, back) /\ Forward(old, given)
    BY <1>1, <2>1, <2>2, <2>3, RankGrows DEF Ended
  <2>5. QED
    BY <2>1, <2>4
<1>8. QED
  BY <1>3, <1>4, <1>5, <1>6, <1>7 DEF Work

\* What a worker that ends leaves behind is found without one.
LEMMA WorkerEndsForward ==
  ASSUME IInv, NEW m \in Mail, WorkerEnds
  PROVE  Forward(job[m], job'[m])
<1> DEFINE old == job[m]
           j == [old EXCEPT !.held = FALSE]
<1>1. old \in Job /\ RunInv(old) /\ old.runs \in Nat /\ job'[m] = j
  BY JobFacts DEF WorkerEnds
<1>2. ~j.held /\ j.state = old.state /\ j.runs = old.runs
  BY <1>1 DEF Job
<1>3. CASE ~old.held
  <2>1. j = old
    BY <1>1, <1>3 DEF Job
  <2>2. QED
    BY <1>1, <2>1, SameForward
<1>4. CASE old.held
  <2>1. old.state = "active"
    BY <1>1, <1>4 DEF RunInv
  <2> HIDE DEF j
  <2>2. Stage(old) = 0 /\ Stage(j) = 1
    BY <1>2, <1>4, <2>1 DEF Stage
  <2>3. QED
    BY <1>1, <1>2, <2>1, <2>2, RankGrows DEF Ended
<1>5. QED
  BY <1>3, <1>4

LEMMA JobsStep ==
  ASSUME IInv, [Next]_vars, NEW m \in Mail
  PROVE  Forward(job[m], job'[m])
<1>1. CASE job' = job
  BY <1>1, SameForward
<1>2. ASSUME NEW n \in Mail, Work(n) PROVE Forward(job[m], job'[m])
  <2>1. CASE n = m
    BY <1>2, <2>1, WorkForward
  <2>2. CASE n # m
    <3>1. job'[m] = job[m]
      BY <1>2, <2>2 DEF Work, Take, Completed, Thrown, BackOff, Stalled, Set, IInv, TypeOK
    <3>2. QED
      BY <3>1, SameForward
  <2>3. QED
    BY <2>1, <2>2
<1>3. ASSUME NEW r \in Request, NEW n \in Mail, NEW to \in BOOLEAN, Added(r, n, to)
      PROVE  Forward(job[m], job'[m])
  <2>1. CASE n = m
    BY <1>3, <2>1, AddedForward
  <2>2. CASE n # m
    <3>1. job'[m] = job[m]
      BY <1>3, <2>2 DEF Added, Set, IInv, TypeOK
    <3>2. QED
      BY <3>1, SameForward
  <2>3. QED
    BY <2>1, <2>2
<1>4. CASE WorkerEnds
  BY <1>4, WorkerEndsForward
<1>5. \/ job' = job \/ WorkerEnds \/ \E n \in Mail : Work(n)
      \/ \E r \in Request, n \in Mail, to \in BOOLEAN : Added(r, n, to)
  <2>1. CASE UNCHANGED vars
    BY <2>1 DEF vars, queueVars
  <2>2. CASE Listen \/ StartFails \/ RestartWeb \/ Crash \/ RedisAway \/ RedisBack
    BY <2>2 DEF Listen, StartFails, RestartWeb, Crash, RedisAway, RedisBack, queueVars
  <2>3. CASE Shutdown
    BY <2>3 DEF Shutdown, Signal, SignalEarly, ServerClosed, DatabaseClosed, ForceExit,
                ManagerKills, queueVars
  <2>4. CASE \E r \in Request : Serve(r)
    BY <2>4 DEF Serve, Accept, Enqueue, AddFails, Answer, queueVars
  <2>5. CASE StartWorker \/ WorkerFails \/ RestartWorker \/ SignalWorker \/ InterruptWorker
             \/ WorkerClosed
    BY <2>5 DEF StartWorker, WorkerFails, RestartWorker, SignalWorker, InterruptWorker,
                WorkerClosed
  <2>6. QED
    BY <2>1, <2>2, <2>3, <2>4, <2>5 DEF Next
<1>6. QED
  BY <1>1, <1>2, <1>3, <1>4, <1>5

\* A confirmation that has been queued can only come forward: no sequence of retries,
\* stalls and workers that end leads a job back to where it was, and one that is
\* completed or failed is never taken up again (worker, defaultJobOptions).
THEOREM JobsComeForward == Spec => JobsForward
<1>1. IInv /\ [Next]_vars => \A m \in Mail : Forward(job[m], job'[m])
  BY JobsStep
<1>2. QED
  BY <1>1, SpecIInv, PTL DEF Spec, JobsForward

\* And there is an end to it: a job can change no more often than this, whatever happens
\* to the workers and to Redis.
THEOREM JobsEnd == Spec => []RankBounded
<1>1. IInv => RankBounded
  <2> SUFFICES ASSUME IInv, NEW m \in Mail
               PROVE  Rank(job[m]) \in 0 .. 4 * (Attempts + MaxStalled) + 3
    BY DEF RankBounded
  <2> DEFINE j == job[m]
  <2>1. j \in Job /\ RunInv(j) /\ j.runs \in Nat
    BY JobFacts
  <2>2. j.runs <= Attempts + MaxStalled
    BY <2>1, ProcessesAssumption DEF Job, RunInv
  <2>3. Rank(j) = 4 * j.runs + Stage(j) /\ Stage(j) \in 0..3
    BY DEF Rank, Stage
  <2>4. QED
    BY <2>1, <2>2, <2>3, ProcessesAssumption
<1>2. QED
  BY <1>1, SpecIInv, PTL

\* From the signal on the timer runs until the process ends: neither the requests that
\* are drained nor the closing of the database stop it (gracefulShutdown).
THEOREM ShutdownStands == Spec => ShutdownGoesOn
<1>1. IInv /\ [Next]_vars => (armed => armed' \/ web' = "down")
  <2> SUFFICES ASSUME TypeOK, [Next]_vars, armed PROVE armed' \/ web' = "down"
    BY DEF IInv
  <2>1. ~Listen /\ ~StartFails /\ ~RestartWeb
    BY DEF TypeOK, Listen, StartFails, RestartWeb
  <2>2. CASE Crash \/ Shutdown
    BY <2>2 DEF Crash, Shutdown, Signal, SignalEarly, ServerClosed, Disarmed, DatabaseClosed,
                ForceExit, ManagerKills, Exit
  <2>3. CASE UNCHANGED vars \/ RedisAway \/ RedisBack \/ \E r \in Request : Serve(r)
    BY <2>3 DEF vars, webVars, RedisAway, RedisBack, Serve, Accept, Enqueue, Added, AddFails,
                Answer
  <2>4. CASE \/ StartWorker \/ WorkerFails \/ RestartWorker \/ SignalWorker \/ InterruptWorker
             \/ WorkerClosed
    BY <2>4 DEF webVars, StartWorker, WorkerFails, RestartWorker, SignalWorker,
                InterruptWorker, WorkerClosed
  <2>5. CASE \E m \in Mail : Work(m)
    BY <2>5 DEF webVars, Work, Take, Completed, Thrown, BackOff, Stalled
  <2>6. QED
    BY <2>1, <2>2, <2>3, <2>4, <2>5 DEF Next
<1>2. QED
  BY <1>1, SpecIInv, PTL DEF Spec, ShutdownGoesOn
=============================================================================
