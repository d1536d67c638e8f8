---------------------------- MODULE TaskManager ----------------------------
(***************************************************************************)
(* The worker pool of zi/concurrency/detail/task_manager_impl.hpp.         *)
(*                                                                         *)
(* A step is one critical section of mutex_: what a thread does between    *)
(* taking the mutex (entering a method, or returning from a condition      *)
(* variable) and giving it up (returning, or waiting).  A thread that      *)
(* waits is a member of the condition variable's wait set; it has been     *)
(* woken, and competes for the mutex again, once it is no longer one.      *)
(***************************************************************************)
EXTENDS Naturals, Sequences, FiniteSets

CONSTANTS
    Managers,          \* threads that call start, stop, add_ and remove_workers
    Workers,           \* names for the threads the pool creates
    Tasks,             \* submissions: a task pushed twice is two of them
    NoTask,            \* the empty shared_ptr
    InitLimit,         \* the constructor's worker_limit
    MaxLimit,          \* bound on worker_limit_
    Spurious,          \* who may return from wait without a notification
    PushWhileStarting  \* may clients push while start() has not returned?

ASSUME TaskManagerAssumption ==
    /\ IsFiniteSet(Workers)
    /\ NoTask \notin Tasks
    /\ InitLimit \in Nat /\ MaxLimit \in Nat /\ InitLimit <= MaxLimit
    /\ Spurious \subseteq {"workers", "managers"}
    /\ PushWhileStarting \in BOOLEAN

VARIABLES
    worker_count, worker_limit, idle_workers, active_workers, state, tasks,
    workers_cv, manager_cv,    \* the threads waiting on each
    wpc,                       \* where each worker is in run()
    task,                      \* run()'s local: the task a worker executes
    mpc,                       \* the method a manager is blocked in
    fresh, done, dropped,      \* history: not pushed yet, executed, cleared
    owed                       \* history: what the last stop or join must wait for

counts  == <<worker_count, worker_limit, idle_workers, active_workers>>
history == <<fresh, done, dropped, owed>>
vars == <<counts, state, tasks, workers_cv, manager_cv, wpc, task, mpc, history>>

At(pc)    == {w \in Workers : wpc[w] = pc}
Entered   == At("loop") \cup At("wait") \cup At("exec")
Executing == {task[w] : w \in At("exec")}
Queued    == {tasks[i] : i \in DOMAIN tasks}

Init ==
    /\ worker_count = 0 /\ idle_workers = 0 /\ active_workers = 0
    /\ worker_limit = InitLimit
    /\ state = "IDLE"
    /\ tasks = <<>>
    /\ workers_cv = {} /\ manager_cv = {}
    /\ wpc = [w \in Workers |-> "none"]
    /\ task = [w \in Workers |-> NoTask]
    /\ mpc = [m \in Managers |-> "ready"]
    /\ fresh = Tasks /\ done = {} /\ dropped = {} /\ owed = {}

-----------------------------------------------------------------------------
(* The managers.  Blocks(m, pc) is manager_cv_.wait inside the method pc.  *)

Blocks(m, pc) ==
    /\ mpc' = [mpc EXCEPT ![m] = pc]
    /\ manager_cv' = manager_cv \cup {m}

Returns == UNCHANGED <<mpc, manager_cv>>

\* (An operator whose comment begins "Broken:" is a wrong version of the one
\* that follows it.  No specification uses it: it shows which mistake in the
\* code the properties of this module would catch.)

\* Broken: the loop fills the pool up to its guard and forgets count.
CreatedToTheBrim(count, limit) == limit + 1 - active_workers

\* The threads create_workers_nl's loop starts, when it gets that far: the
\* loop ends when count is used up or active_workers_ exceeds worker_limit_.
Created(count, limit) ==
    IF active_workers + count <= limit + 1 THEN count
    ELSE limit + 1 - active_workers

\* create_workers_nl returns at once, or starts threads and waits ONCE: no
\* loop around the wait tests that the threads have in fact come up.
CreateReturns(count, limit) ==
    /\ count = 0 \/ active_workers >= limit
    /\ Returns
    /\ UNCHANGED <<active_workers, wpc>>

CreateBlocks(m, count, limit, pc) ==
    /\ count > 0 /\ active_workers < limit
    /\ active_workers' = active_workers + Created(count, limit)
    /\ \E S \in SUBSET At("none") :
          /\ Cardinality(S) = Created(count, limit)
          /\ wpc' = [w \in Workers |-> IF w \in S THEN "created" ELSE wpc[w]]
    /\ Blocks(m, pc)

\* kill_workers_nl returns at once when nothing is active; otherwise it
\* retires count workers, wakes all, and waits until that many are left.
Retired(count) == IF count > active_workers THEN 0 ELSE active_workers - count

KillReturns(count) ==
    /\ Returns
    /\ \/ /\ count = 0 \/ active_workers = 0
          /\ UNCHANGED <<active_workers, workers_cv>>
       \/ /\ count > 0 /\ active_workers > 0
          /\ active_workers' = Retired(count)
          /\ workers_cv' = {}
          /\ worker_count = active_workers'

KillBlocks(m, count, pc) ==
    /\ count > 0 /\ active_workers > 0
    /\ active_workers' = Retired(count)
    /\ workers_cv' = {}
    /\ worker_count # active_workers'
    /\ Blocks(m, pc)

Start(m) ==
    /\ mpc[m] = "ready"
    /\ state = "IDLE"
    /\ \/ CreateReturns(worker_limit, worker_limit) /\ state' = "RUNNING"
       \/ CreateBlocks(m, worker_limit, worker_limit, "starting") /\ state' = "STARTING"
    /\ UNCHANGED <<worker_count, worker_limit, idle_workers, tasks, workers_cv, task, history>>

Started(m) ==
    /\ mpc[m] = "starting" /\ m \notin manager_cv
    /\ mpc' = [mpc EXCEPT ![m] = "ready"]
    /\ state' = "RUNNING"
    /\ UNCHANGED <<counts, tasks, workers_cv, manager_cv, wpc, task, history>>

Stop(m, and_join) ==
    /\ mpc[m] = "ready"
    /\ state = "RUNNING"
    /\ IF and_join THEN UNCHANGED <<tasks, dropped>>
                   ELSE tasks' = <<>> /\ dropped' = dropped \cup Queued
    /\ \/ KillReturns(active_workers) /\ state' = "IDLE"
       \/ KillBlocks(m, active_workers, "stopping") /\ state' = "STOPPING"
    /\ owed' = Executing \cup (IF and_join /\ active_workers > 0 THEN Queued ELSE {})
    /\ UNCHANGED <<worker_count, worker_limit, idle_workers, wpc, task, fresh, done>>

AddWorkers(m, count) ==
    /\ mpc[m] = "ready"
    /\ worker_limit + count <= MaxLimit
    /\ worker_limit' = worker_limit + count
    /\ \/ /\ state \in {"IDLE", "STOPPING"}
          /\ Returns /\ UNCHANGED <<active_workers, wpc>>
       \/ /\ state \in {"STARTING", "RUNNING"}
          /\ CreateBlocks(m, count, worker_limit', "adding")
    /\ UNCHANGED <<worker_count, idle_workers, state, tasks, workers_cv, task, history>>

Added(m) ==
    /\ mpc[m] = "adding" /\ m \notin manager_cv
    /\ mpc' = [mpc EXCEPT ![m] = "ready"]
    /\ UNCHANGED <<counts, state, tasks, workers_cv, manager_cv, wpc, task, history>>

RemoveWorkers(m, n) ==
    LET count == IF n > worker_limit THEN worker_limit ELSE n IN
    /\ mpc[m] = "ready"
    /\ worker_limit > 0
    /\ worker_limit' = worker_limit - count
    /\ \/ /\ state \in {"IDLE", "STOPPING"}
          /\ Returns /\ UNCHANGED <<active_workers, workers_cv>>
       \/ /\ state \in {"STARTING", "RUNNING"}
          /\ KillReturns(count) \/ KillBlocks(m, count, "removing")
    /\ UNCHANGED <<worker_count, idle_workers, state, tasks, wpc, task, history>>

\* A woken manager in kill_workers_nl's loop: wait again, or return.
Killing(m) ==
    /\ mpc[m] \in {"removing", "stopping"} /\ m \notin manager_cv
    /\ \/ /\ worker_count # active_workers
          /\ manager_cv' = manager_cv \cup {m}
          /\ UNCHANGED <<mpc, state>>
       \/ /\ worker_count = active_workers
          /\ mpc' = [mpc EXCEPT ![m] = "ready"]
          /\ state' = IF mpc[m] = "stopping" THEN "IDLE" ELSE state
          /\ UNCHANGED manager_cv
    /\ UNCHANGED <<counts, tasks, workers_cv, wpc, task, history>>

-----------------------------------------------------------------------------
(* The clients, which may be any threads, the tasks themselves included.   *)

\* Broken: a single idle worker does not count.
WakeForPushIfMany ==
    workers_cv' = IF state = "RUNNING" /\ idle_workers > 1 THEN {} ELSE workers_cv

WakeForPush ==
    workers_cv' = IF state = "RUNNING" /\ idle_workers > 0 THEN {} ELSE workers_cv

MayPush(t) == t \in fresh /\ (state = "STARTING" => PushWhileStarting)

PushBack(t) ==
    /\ MayPush(t)
    /\ tasks' = Append(tasks, t)
    /\ fresh' = fresh \ {t}
    /\ WakeForPush
    /\ UNCHANGED <<counts, state, manager_cv, wpc, task, mpc, done, dropped, owed>>

PushFront(t) ==
    /\ MayPush(t)
    /\ tasks' = <<t>> \o tasks
    /\ fresh' = fresh \ {t}
    /\ WakeForPush
    /\ UNCHANGED <<counts, state, manager_cv, wpc, task, mpc, done, dropped, owed>>

Clear ==
    /\ tasks # <<>>
    /\ tasks' = <<>>
    /\ dropped' = dropped \cup Queued
    /\ owed' = owed \ Queued
    /\ UNCHANGED <<counts, state, workers_cv, manager_cv, wpc, task, mpc, fresh, done>>

-----------------------------------------------------------------------------
(* The workers: run() from its prologue to its return.                     *)

\* Broken: every arrival and departure wakes the manager.
NotifyManagerAlways(cond) ==
    IF manager_cv # {}
    THEN \E m \in manager_cv : manager_cv' = manager_cv \ {m}
    ELSE UNCHANGED manager_cv

\* Broken: the manager is never told.
NotifyManagerNever(cond) == UNCHANGED manager_cv

NotifyManagerIf(cond) ==
    IF cond /\ manager_cv # {}
    THEN \E m \in manager_cv : manager_cv' = manager_cv \ {m}
    ELSE UNCHANGED manager_cv

Enter(w) ==
    /\ wpc[w] = "created"
    /\ wpc' = [wpc EXCEPT ![w] = "loop"]
    /\ worker_count' = worker_count + 1
    /\ NotifyManagerIf(worker_count' = active_workers)
    /\ UNCHANGED <<worker_limit, idle_workers, active_workers, state, tasks,
                   workers_cv, task, mpc, history>>

\* The worker reaches the guard of the inner loop with idle workers counted
\* as idle, and sleeps, takes a task, or leaves the pool.
Sleep(w, idle) ==
    /\ worker_count <= active_workers /\ tasks = <<>>
    /\ idle_workers' = idle + 1
    /\ wpc' = [wpc EXCEPT ![w] = "wait"]
    /\ workers_cv' = workers_cv \cup {w}
    /\ UNCHANGED <<worker_count, tasks, task, manager_cv>>

\* Broken: front() without pop_front().
RestWithFront == tasks

Rest == Tail(tasks)

Take(w, idle) ==
    /\ tasks # <<>>
    /\ worker_count <= active_workers \/ state = "STOPPING"
    /\ task' = [task EXCEPT ![w] = Head(tasks)]
    /\ tasks' = Rest
    /\ wpc' = [wpc EXCEPT ![w] = "exec"]
    /\ idle_workers' = idle
    /\ UNCHANGED <<worker_count, workers_cv, manager_cv>>

\* Broken: a surplus worker leaves although a join has left it tasks to do.
SurplusNow == worker_count > active_workers

Surplus == worker_count > active_workers /\ (tasks = <<>> \/ state # "STOPPING")

Leave(w, idle) ==
    /\ Surplus
    /\ worker_count' = worker_count - 1
    /\ wpc' = [wpc EXCEPT ![w] = "none"]
    /\ idle_workers' = idle
    /\ NotifyManagerIf(worker_count' = active_workers)
    /\ UNCHANGED <<tasks, task, workers_cv>>

Decide(w, idle) ==
    /\ Sleep(w, idle) \/ Take(w, idle) \/ Leave(w, idle)
    /\ UNCHANGED <<worker_limit, active_workers, state, mpc, history>>

\* Broken: --idle_workers_ after the inner loop instead of inside it, and
\* --idle_workers_ missing.
LoopUncounts(w) == wpc[w] = "loop" /\ Decide(w, idle_workers - 1)
AwakeStillIdle(w) == wpc[w] = "wait" /\ w \notin workers_cv /\ Decide(w, idle_workers)

Loop(w) == wpc[w] = "loop" /\ Decide(w, idle_workers)

Awake(w) == wpc[w] = "wait" /\ w \notin workers_cv /\ Decide(w, idle_workers - 1)

\* task->execute() has returned.
Finish(w) ==
    /\ wpc[w] = "exec"
    /\ wpc' = [wpc EXCEPT ![w] = "loop"]
    /\ task' = [task EXCEPT ![w] = NoTask]
    /\ done' = done \cup {task[w]}
    /\ UNCHANGED <<counts, state, tasks, workers_cv, manager_cv, mpc, fresh, dropped, owed>>

-----------------------------------------------------------------------------
(* A condition variable may return without a notification.                 *)

SpuriousWorker(w) ==
    /\ "workers" \in Spurious
    /\ w \in workers_cv
    /\ workers_cv' = workers_cv \ {w}
    /\ UNCHANGED <<counts, state, tasks, manager_cv, wpc, task, mpc, history>>

SpuriousManager(m) ==
    /\ "managers" \in Spurious
    /\ m \in manager_cv
    /\ manager_cv' = manager_cv \ {m}
    /\ UNCHANGED <<counts, state, tasks, workers_cv, wpc, task, mpc, history>>

-----------------------------------------------------------------------------
ManagerStep(m) ==
    \/ Start(m) \/ Started(m) \/ Added(m) \/ Killing(m) \/ SpuriousManager(m)
    \/ \E and_join \in BOOLEAN : Stop(m, and_join)
    \/ \E count \in 1..MaxLimit : AddWorkers(m, count) \/ RemoveWorkers(m, count)

ClientStep == Clear \/ \E t \in Tasks : PushBack(t) \/ PushFront(t)

WorkerStep(w) == Enter(w) \/ Loop(w) \/ Awake(w) \/ Finish(w) \/ SpuriousWorker(w)

Next ==
    \/ \E m \in Managers : ManagerStep(m)
    \/ ClientStep
    \/ \E w \in Workers : WorkerStep(w)

Spec == Init /\ [][Next]_vars

\* A thread that can run is run: the operating system schedules every thread
\* and hands the mutex to every contender, and every task terminates.
Fairness ==
    /\ \A w \in Workers : WF_vars(Enter(w) \/ Loop(w) \/ Awake(w) \/ Finish(w))
    /\ \A m \in Managers : WF_vars(Started(m) \/ Added(m) \/ Killing(m))

FairSpec == Spec /\ Fairness

-----------------------------------------------------------------------------
(* Properties that hold of every manager, whoever wakes up when.           *)

\* The ranges of the fields of task_manager_impl.hpp:53-65; the counters are
\* unsigned and must not be decremented below zero.
TypeOK ==
    /\ worker_count \in Nat /\ worker_limit \in Nat
    /\ idle_workers \in Nat /\ active_workers \in Nat
    /\ state \in {"IDLE", "STARTING", "RUNNING", "STOPPING"}
    /\ tasks \in Seq(Tasks)
    /\ workers_cv \subseteq At("wait")
    /\ manager_cv \subseteq {m \in Managers : mpc[m] # "ready"}
    /\ wpc \in [Workers -> {"none", "created", "loop", "wait", "exec"}]
    /\ task \in [Workers -> Tasks \cup {NoTask}]
    /\ \A w \in Workers : wpc[w] = "exec" <=> task[w] # NoTask
    /\ mpc \in [Managers -> {"ready", "starting", "adding", "removing", "stopping"}]
    /\ fresh \subseteq Tasks /\ done \subseteq Tasks
    /\ dropped \subseteq Tasks /\ owed \subseteq Tasks

\* worker_count_ and idle_workers_ are kept by increments and decrements
\* spread over run(); they always equal the number of threads between the
\* prologue of run() and its return, and of those inside workers_cv_.wait.
Accounting ==
    /\ worker_count = Cardinality(Entered)
    /\ idle_workers = Cardinality(At("wait"))

\* active_workers_ follows worker_limit_ while the pool is up and is zero
\* while it is down, whatever resizing, starting and stopping overlap.
PoolSize ==
    active_workers = IF state \in {"STARTING", "RUNNING"} THEN worker_limit ELSE 0

\* Every submission is in exactly one place, and in the queue or in a
\* worker's hands at most once: none is lost, none is executed twice.
TaskConservation ==
    /\ Tasks = fresh \cup Queued \cup Executing \cup done \cup dropped
    /\ fresh \cap (Queued \cup Executing \cup done \cup dropped) = {}
    /\ Queued \cap (Executing \cup done \cup dropped) = {}
    /\ Executing \cap (done \cup dropped) = {}
    /\ done \cap dropped = {}
    /\ \A i, j \in DOMAIN tasks : tasks[i] = tasks[j] => i = j
    /\ \A v, w \in At("exec") : task[v] = task[w] => v = w

\* start()'s assertions (task_manager_impl.hpp:202-203): an idle pool has no
\* workers.
StartAssertions ==
    state = "IDLE" => worker_count = 0 /\ idle_workers = 0

-----------------------------------------------------------------------------
(* Properties of a pool that one thread manages.                           *)

\* After stop() no thread of the pool is left, one that has been created and
\* has not reached run()'s prologue included: the pool can be started anew.
IdlePoolIsEmpty == state = "IDLE" => StartAssertions /\ At("none") = Workers

\* When start, add_workers or remove_workers has returned, exactly
\* worker_limit_ threads are in run(): none still to come, none still to go.
PoolIsFull ==
    (state = "RUNNING" /\ \A m \in Managers : mpc[m] = "ready")
        => At("created") = {} /\ worker_count = worker_limit

\* When stop() returns no task is executing and all that executed has
\* finished; when join() returns, all that was queued has been executed,
\* unless clear() took it out (test/task_manager_test.cpp:70-72).
StopWaitsForTasks ==
    state = "IDLE" => Executing = {} /\ owed \subseteq done

\* start, stop, add_workers and remove_workers return.
OperationsReturn == \A m \in Managers : mpc[m] # "ready" ~> mpc[m] = "ready"

\* A queued task of a running pool that has workers is taken by one, unless
\* the pool is stopped, shrunk or cleared first: the notification of a push
\* never goes to waste.
QueuedTasksAreServed ==
    \A t \in Tasks :
        (t \in Queued /\ state = "RUNNING" /\ active_workers > 0)
            ~> (t \notin Queued \/ state # "RUNNING" \/ \E m \in Managers : mpc[m] = "removing")

Phase ==
    CASE state = "IDLE" -> "closed"
      [] state \in {"STARTING", "RUNNING"} -> "open"
      [] state = "STOPPING" -> "closing"

Pool == INSTANCE TaskPool WITH phase <- Phase, queue <- tasks, running <- Executing

\* The pool keeps the promise of module TaskPool: front() and pop_front() hand
\* each submission to one worker in order, stop() and join() return only when
\* what they owe is done, and a stopped pool executes nothing.
PoolSpec == Pool!Spec

=============================================================================
