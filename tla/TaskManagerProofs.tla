------------------------- MODULE TaskManagerProofs -------------------------
(***************************************************************************)
(* What is proved of module TaskManager for every set of workers, tasks    *)
(* and managers and every limit.                                           *)
(***************************************************************************)
EXTENDS TaskManager, FiniteSetTheorems, SequenceTheorems, TLAPS

\* A set of workers is finite and its cardinality a natural number.
LEMMA WorkerSets ==
    ASSUME NEW S \in SUBSET Workers
    PROVE  IsFiniteSet(S) /\ Cardinality(S) \in Nat
  BY TaskManagerAssumption, FS_Subset, FS_CardinalityType

\* Moving one worker from one point of run() to another changes the two sets.
LEMMA OneMoves ==
    ASSUME TypeOK, NEW w \in Workers,
           NEW pc, wpc' = [wpc EXCEPT ![w] = pc]
    PROVE  \A x : At(x)' = IF x = pc THEN At(x) \cup {w} ELSE At(x) \ {w}
  BY DEF TypeOK, At

\* The threads that have entered run() are where they were.
SameEntered ==
    /\ At("loop")' = At("loop")
    /\ At("wait")' = At("wait")
    /\ At("exec")' = At("exec")

\* Threads that are created leave the other points alone.
LEMMA SomeCreated ==
    ASSUME TypeOK, NEW S \in SUBSET At("none"),
           wpc' = [w \in Workers |-> IF w \in S THEN "created" ELSE wpc[w]]
    PROVE  /\ wpc' \in [Workers -> {"none", "created", "loop", "wait", "exec"}]
           /\ SameEntered
           /\ At("created")' = At("created") \cup S
           /\ \A w \in Workers : wpc'[w] = "exec" <=> wpc[w] = "exec"
  BY DEF TypeOK, At, SameEntered

-----------------------------------------------------------------------------
\* The part of the invariant that types the state and ties the two counters
\* to the threads they count; neither half is inductive without the other.
Typed == TypeOK /\ Accounting

CreateOutcome ==
    /\ active_workers' \in Nat
    /\ wpc' \in [Workers -> {"none", "created", "loop", "wait", "exec"}]
    /\ mpc' \in [Managers -> {"ready", "starting", "adding", "removing", "stopping"}]
    /\ manager_cv' \subseteq {n \in Managers : mpc'[n] # "ready"}
    /\ SameEntered
    /\ \A w \in Workers : wpc'[w] = "exec" <=> wpc[w] = "exec"

KillOutcome ==
    /\ active_workers' \in Nat
    /\ mpc' \in [Managers -> {"ready", "starting", "adding", "removing", "stopping"}]
    /\ manager_cv' \subseteq {n \in Managers : mpc'[n] # "ready"}
    /\ workers_cv' \subseteq workers_cv

\* A wait or return in create_workers_nl, and one in kill_workers_nl.
LEMMA CreateTyped ==
    ASSUME Typed, NEW m \in Managers, NEW pc \in {"starting", "adding"},
           \E count, limit \in Nat :
               CreateReturns(count, limit) \/ CreateBlocks(m, count, limit, pc)
    PROVE  CreateOutcome
  <1> PICK count \in Nat, limit \in Nat :
             CreateReturns(count, limit) \/ CreateBlocks(m, count, limit, pc)
    OBVIOUS
  <1>1. CASE CreateReturns(count, limit)
    BY <1>1 DEF CreateOutcome, CreateReturns, Returns, Typed, TypeOK, At, SameEntered
  <1>2. CASE CreateBlocks(m, count, limit, pc)
    <2>1. PICK S \in SUBSET At("none") :
             wpc' = [w \in Workers |-> IF w \in S THEN "created" ELSE wpc[w]]
      BY <1>2 DEF CreateBlocks
    <2>2. active_workers' \in Nat
      BY <1>2 DEF CreateBlocks, Created, Typed, TypeOK
    <2>3. /\ mpc' \in [Managers -> {"ready", "starting", "adding", "removing", "stopping"}]
          /\ manager_cv' \subseteq {n \in Managers : mpc'[n] # "ready"}
      BY <1>2 DEF CreateBlocks, Blocks, Typed, TypeOK
    <2>4. /\ wpc' \in [Workers -> {"none", "created", "loop", "wait", "exec"}]
          /\ \A w \in Workers : wpc'[w] = "exec" <=> wpc[w] = "exec"
      BY <2>1 DEF Typed, TypeOK, At
    <2>5. SameEntered
      BY <2>1, SomeCreated DEF Typed
    <2>. QED BY <2>2, <2>3, <2>4, <2>5 DEF CreateOutcome
  <1>. QED BY <1>1, <1>2

LEMMA KillTyped ==
    ASSUME Typed, NEW m \in Managers, NEW pc \in {"removing", "stopping"},
           \E count \in Nat : KillReturns(count) \/ KillBlocks(m, count, pc)
    PROVE  KillOutcome
  <1> PICK count \in Nat : KillReturns(count) \/ KillBlocks(m, count, pc)
    OBVIOUS
  <1>1. CASE KillReturns(count)
    BY <1>1 DEF KillOutcome, KillReturns, Retired, Returns, Typed, TypeOK
  <1>2. CASE KillBlocks(m, count, pc)
    BY <1>2 DEF KillOutcome, KillBlocks, Blocks, Retired, Typed, TypeOK
  <1>. QED BY <1>1, <1>2

LEMMA NotifyTyped ==
    ASSUME TypeOK, NEW cond, NotifyManagerIf(cond)
    PROVE  manager_cv' \subseteq manager_cv
  BY DEF NotifyManagerIf

\* Accounting is untouched while the sets it counts and the counters are.
LEMMA SameAccounting ==
    ASSUME Accounting, UNCHANGED <<worker_count, idle_workers>>,
           SameEntered
    PROVE  Accounting'
  BY DEF Accounting, Entered, SameEntered

LEMMA ManagerTyped ==
    ASSUME Typed, NEW m \in Managers, ManagerStep(m)
    PROVE  Typed'
  <1> USE TaskManagerAssumption
  <1>1. CASE Start(m)
    <2>1. CreateOutcome
      <3>1. worker_limit \in Nat
        BY DEF Typed, TypeOK
      <3>2. \/ CreateReturns(worker_limit, worker_limit)
            \/ CreateBlocks(m, worker_limit, worker_limit, "starting")
        BY <1>1 DEF Start
      <3>. QED BY <3>1, <3>2, CreateTyped
    <2>2. TypeOK'
      BY <1>1, <2>1 DEF CreateOutcome, Start, Typed, TypeOK, SameEntered, history
    <2>3. Accounting'
      BY <1>1, <2>1, SameAccounting DEF CreateOutcome, Start, Typed
    <2>. QED BY <2>2, <2>3 DEF Typed
  <1>2. CASE Started(m) \/ Added(m) \/ Killing(m) \/ SpuriousManager(m)
    <2>1. TypeOK'
      BY <1>2 DEF Started, Added, Killing, SpuriousManager, Typed, TypeOK, At, counts, history
    <2>2. UNCHANGED <<worker_count, idle_workers, wpc>>
      BY <1>2 DEF Started, Added, Killing, SpuriousManager, counts
    <2>. QED BY <2>1, <2>2 DEF Typed, Accounting, Entered, At
  <1>3. ASSUME NEW and_join \in BOOLEAN, Stop(m, and_join)
        PROVE  Typed'
    <2>1. KillOutcome
      <3>1. active_workers \in Nat
        BY DEF Typed, TypeOK
      <3>2. KillReturns(active_workers) \/ KillBlocks(m, active_workers, "stopping")
        BY <1>3 DEF Stop
      <3>. QED BY <3>1, <3>2, KillTyped
    <2>2. Queued \subseteq Tasks /\ Executing \subseteq Tasks
      BY DEF Typed, TypeOK, Queued, Executing, At
    <2>3. tasks' \in Seq(Tasks) /\ dropped' \subseteq Tasks /\ owed' \subseteq Tasks
      <3>1. tasks' \in Seq(Tasks) /\ dropped' \subseteq Tasks
        <4>1. CASE and_join
          BY <1>3, <4>1 DEF Stop, Typed, TypeOK
        <4>2. CASE ~and_join
          BY <1>3, <4>2, <2>2 DEF Stop, Typed, TypeOK
        <4>. QED BY <4>1, <4>2
      <3>2. owed' \subseteq Tasks
        BY <1>3, <2>2 DEF Stop
      <3>. QED BY <3>1, <3>2
    <2>5. TypeOK'
      BY <1>3, <2>1, <2>3 DEF KillOutcome, Stop, Typed, TypeOK, At
    <2>4. Accounting'
      BY <1>3 DEF Stop, Typed, Accounting, Entered, At
    <2>. QED BY <2>4, <2>5 DEF Typed
  <1>4. ASSUME NEW count \in 1..MaxLimit, AddWorkers(m, count)
        PROVE  Typed'
    <2>0. worker_limit' \in Nat
      BY <1>4 DEF AddWorkers, Typed, TypeOK
    <2>1. CreateOutcome
      <3>1. CASE CreateBlocks(m, count, worker_limit', "adding")
        <4>1. count \in Nat
          OBVIOUS
        <4>. QED BY <3>1, <4>1, <2>0, CreateTyped
      <3>2. CASE Returns /\ UNCHANGED <<active_workers, wpc>>
        BY <3>2 DEF CreateOutcome, Returns, Typed, TypeOK, At, SameEntered
      <3>. QED BY <1>4, <3>1, <3>2 DEF AddWorkers
    <2>2. TypeOK'
      BY <1>4, <2>0, <2>1 DEF CreateOutcome, AddWorkers, Typed, TypeOK, SameEntered, history
    <2>3. Accounting'
      BY <1>4, <2>1, SameAccounting DEF CreateOutcome, AddWorkers, Typed
    <2>. QED BY <2>2, <2>3 DEF Typed
  <1>5. ASSUME NEW count \in 1..MaxLimit, RemoveWorkers(m, count)
        PROVE  Typed'
    <2> DEFINE n == IF count > worker_limit THEN worker_limit ELSE count
    <2>0. n \in Nat /\ worker_limit' \in Nat
      BY <1>5 DEF RemoveWorkers, Typed, TypeOK
    <2>1. KillOutcome
      <3>1. CASE KillReturns(n) \/ KillBlocks(m, n, "removing")
        BY <3>1, <2>0, KillTyped
      <3>2. CASE Returns /\ UNCHANGED <<active_workers, workers_cv>>
        BY <3>2 DEF KillOutcome, Returns, Typed, TypeOK
      <3>. QED BY <1>5, <3>1, <3>2 DEF RemoveWorkers
    <2>2. TypeOK'
      BY <1>5, <2>0, <2>1 DEF KillOutcome, RemoveWorkers, Typed, TypeOK, At, history
    <2>3. Accounting'
      BY <1>5 DEF RemoveWorkers, Typed, Accounting, Entered, At
    <2>. QED BY <2>2, <2>3 DEF Typed
  <1>. QED BY <1>1, <1>2, <1>3, <1>4, <1>5 DEF ManagerStep

LEMMA ClientTyped ==
    ASSUME Typed, ClientStep
    PROVE  Typed'
  <1>1. Queued \subseteq Tasks
    BY DEF Typed, TypeOK, Queued
  <1>2. TypeOK'
    <2>1. CASE Clear
      BY <1>1, <2>1 DEF Clear, Typed, TypeOK, At, counts
    <2>2. ASSUME NEW t \in Tasks, PushBack(t) \/ PushFront(t)
          PROVE  TypeOK'
      <3>1. tasks' \in Seq(Tasks)
        <4>1. tasks \in Seq(Tasks) /\ <<t>> \in Seq(Tasks)
          BY DEF Typed, TypeOK
        <4>2. Append(tasks, t) \in Seq(Tasks) /\ <<t>> \o tasks \in Seq(Tasks)
          BY <4>1, AppendProperties, ConcatProperties
        <4>. QED BY <2>2, <4>2 DEF PushBack, PushFront
      <3>2. workers_cv' \subseteq workers_cv
        BY <2>2 DEF PushBack, PushFront, WakeForPush
      <3>. QED BY <2>2, <3>1, <3>2 DEF PushBack, PushFront, Typed, TypeOK, At, counts
    <2>. QED BY <2>1, <2>2 DEF ClientStep
  <1>3. UNCHANGED <<worker_count, idle_workers, wpc>>
    BY DEF ClientStep, Clear, PushBack, PushFront, counts
  <1>. QED BY <1>2, <1>3 DEF Typed, Accounting, Entered, At

\* The two counted sets after one worker has moved.
LEMMA CountedMoves ==
    ASSUME TypeOK, NEW w \in Workers,
           NEW pc \in {"none", "loop", "wait", "exec"}, wpc' = [wpc EXCEPT ![w] = pc]
    PROVE  /\ Entered' = IF pc = "none" THEN Entered \ {w} ELSE Entered \cup {w}
           /\ At("wait")' = IF pc = "wait" THEN At("wait") \cup {w} ELSE At("wait") \ {w}
  BY DEF TypeOK, Entered, At

LEMMA CountedSets ==
    /\ Entered \in SUBSET Workers /\ At("wait") \in SUBSET Workers
    /\ IsFiniteSet(Entered) /\ IsFiniteSet(At("wait"))
    /\ Cardinality(Entered) \in Nat /\ Cardinality(At("wait")) \in Nat
  <1>1. Entered \in SUBSET Workers /\ At("wait") \in SUBSET Workers
    BY DEF Entered, At
  <1>. QED BY <1>1, WorkerSets

LEMMA DecideTyped ==
    ASSUME Typed, NEW w \in Entered, task[w] = NoTask, w \notin workers_cv,
           \E idle \in Nat : Decide(w, idle) /\ idle = Cardinality(At("wait") \ {w})
    PROVE  Typed'
  <1> PICK idle \in Nat : Decide(w, idle) /\ idle = Cardinality(At("wait") \ {w})
    OBVIOUS
  <1>0. /\ w \in Workers /\ Entered \cup {w} = Entered
        /\ (At("wait") \ {w}) \cup {w} = At("wait") \cup {w}
        /\ w \notin At("wait") \ {w}
        /\ IsFiniteSet(At("wait") \ {w})
    BY CountedSets, FS_RemoveElement
  <1>1. CASE Sleep(w, idle)
    <2>1. TypeOK'
      BY <1>0, <1>1 DEF Decide, Sleep, Typed, TypeOK, At, history
    <2>2. Entered' = Entered /\ At("wait")' = (At("wait") \ {w}) \cup {w}
      BY <1>0, <1>1, CountedMoves DEF Sleep, Typed
    <2>3. idle_workers' = Cardinality(At("wait"))'
      BY <1>0, <1>1, <2>2, FS_AddElement DEF Sleep
    <2>4. worker_count' = Cardinality(Entered)'
      BY <1>1, <2>2 DEF Sleep, Typed, Accounting
    <2>. QED BY <2>1, <2>3, <2>4 DEF Typed, Accounting
  <1>2. CASE Take(w, idle)
    <2>1. TypeOK'
      <3>1. Head(tasks) \in Tasks /\ Tail(tasks) \in Seq(Tasks)
        BY <1>2, HeadTailProperties DEF Take, Typed, TypeOK
      <3>2. workers_cv' \subseteq At("wait")'
        BY <1>0, <1>2 DEF Decide, Take, Typed, TypeOK, At
      <3>. QED
        BY <1>0, <1>2, <3>1, <3>2, TaskManagerAssumption
           DEF Decide, Take, Rest, Typed, TypeOK, history
    <2>2. Entered' = Entered /\ At("wait")' = At("wait") \ {w}
      BY <1>0, <1>2, CountedMoves DEF Take, Typed
    <2>. QED BY <1>2, <2>1, <2>2 DEF Take, Typed, Accounting
  <1>3. CASE Leave(w, idle)
    <2>1. TypeOK'
      <3>1. worker_count' \in Nat
        BY <1>3 DEF Leave, Surplus, Typed, TypeOK
      <3>2. manager_cv' \subseteq manager_cv
        BY <1>3, NotifyTyped DEF Leave, Typed
      <3>3. workers_cv' \subseteq At("wait")'
        BY <1>0, <1>3 DEF Decide, Leave, Typed, TypeOK, At
      <3>. QED
        BY <1>0, <1>3, <3>1, <3>2, <3>3 DEF Decide, Leave, Typed, TypeOK, history
    <2>2. Entered' = Entered \ {w} /\ At("wait")' = At("wait") \ {w}
      BY <1>0, <1>3, CountedMoves DEF Leave, Typed
    <2>3. worker_count' = Cardinality(Entered)'
      BY <1>3, <2>2, CountedSets, FS_RemoveElement DEF Leave, Typed, Accounting
    <2>4. idle_workers' = Cardinality(At("wait"))'
      BY <1>3, <2>2 DEF Leave
    <2>. QED BY <2>1, <2>3, <2>4 DEF Typed, Accounting
  <1>. QED BY <1>1, <1>2, <1>3 DEF Decide

LEMMA WorkerTyped ==
    ASSUME Typed, NEW w \in Workers, WorkerStep(w)
    PROVE  Typed'
  <1>1. CASE Enter(w)
    <2>0. w \notin Entered /\ At("wait") \ {w} = At("wait")
      BY <1>1 DEF Enter, Entered, At
    <2>1. manager_cv' \subseteq manager_cv
      BY <1>1, NotifyTyped DEF Enter, Typed
    <2>2. TypeOK'
      BY <1>1, <2>1 DEF Enter, Typed, TypeOK, At, history
    <2>3. Entered' = Entered \cup {w} /\ At("wait")' = At("wait")
      BY <1>1, <2>0, CountedMoves DEF Enter, Typed
    <2>4. worker_count' = Cardinality(Entered)'
      BY <1>1, <2>0, <2>3, CountedSets, FS_AddElement DEF Enter, Typed, Accounting
    <2>. QED BY <1>1, <2>2, <2>3, <2>4 DEF Enter, Typed, Accounting
  <1>2. CASE Loop(w)
    <2>1. /\ w \in Entered /\ task[w] = NoTask /\ w \notin workers_cv
          /\ At("wait") \ {w} = At("wait")
      BY <1>2 DEF Loop, Entered, At, Typed, TypeOK
    <2>. QED BY <1>2, <2>1, DecideTyped DEF Loop, Typed, TypeOK, Accounting
  <1>3. CASE Awake(w)
    <2>1. w \in Entered /\ task[w] = NoTask /\ w \notin workers_cv /\ w \in At("wait")
      BY <1>3 DEF Awake, Entered, At, Typed, TypeOK
    <2>2. Cardinality(At("wait") \ {w}) = idle_workers - 1 /\ idle_workers - 1 \in Nat
      <3>1. Cardinality(At("wait") \ {w}) = idle_workers - 1
        BY <2>1, CountedSets, FS_RemoveElement DEF Typed, Accounting
      <3>2. Cardinality(At("wait") \ {w}) \in Nat
        BY CountedSets, FS_RemoveElement, FS_CardinalityType
      <3>. QED BY <3>1, <3>2
    <2>3. Decide(w, idle_workers - 1)
      BY <1>3 DEF Awake
    <2>. QED BY <2>1, <2>2, <2>3, DecideTyped
  <1>4. CASE Finish(w)
    <2>1. TypeOK'
      BY <1>4 DEF Finish, Typed, TypeOK, At, counts
    <2>2. Entered' = Entered /\ At("wait")' = At("wait")
      BY <1>4 DEF Finish, Typed, TypeOK, Entered, At
    <2>. QED BY <1>4, <2>1, <2>2 DEF Finish, Typed, Accounting, counts
  <1>5. CASE SpuriousWorker(w)
    BY <1>5 DEF SpuriousWorker, Typed, TypeOK, Accounting, Entered, At, counts, history
  <1>. QED BY <1>1, <1>2, <1>3, <1>4, <1>5 DEF WorkerStep

\* The counters are those of the threads: worker_count_ and idle_workers_ are
\* right in every reachable state, and never fall below zero.
THEOREM TypeCorrect == Spec => []TypeOK /\ []Accounting
  <1>1. Init => Typed
    <2> SUFFICES ASSUME Init PROVE Typed
      OBVIOUS
    <2>1. TypeOK
      BY TaskManagerAssumption DEF Init, TypeOK, At
    <2>2. Entered = {} /\ At("wait") = {}
      BY DEF Init, Entered, At
    <2>. QED BY <2>1, <2>2, FS_EmptySet DEF Init, Typed, Accounting
  <1>2. Typed /\ [Next]_vars => Typed'
    <2> SUFFICES ASSUME Typed, [Next]_vars PROVE Typed'
      OBVIOUS
    <2>1. CASE UNCHANGED vars
      BY <2>1 DEF Typed, TypeOK, Accounting, Entered, At, vars, counts, history
    <2>. QED BY <2>1, ManagerTyped, ClientTyped, WorkerTyped DEF Next
  <1>3. Typed => TypeOK /\ Accounting
    BY DEF Typed
  <1>. QED BY <1>1, <1>2, <1>3, PTL DEF Spec

\* worker_count_ is the number of the workers that have entered the loop and
\* not left it, and idle_workers_ that of those that sleep, however many
\* managers start, stop and resize the pool at once.
THEOREM CountersAreRight == Spec => []Accounting
  BY TypeCorrect, PTL

-----------------------------------------------------------------------------
\* PoolSize with what makes it inductive: a thread blocked in start() or
\* stop() is the only one there, and nobody else moves the state meanwhile.
PoolInv ==
    /\ PoolSize
    /\ \A m \in Managers : /\ mpc[m] = "starting" => state = "STARTING"
                           /\ mpc[m] = "stopping" => state = "STOPPING"
    /\ \A m, n \in Managers :
          (mpc[m] = mpc[n] /\ mpc[m] \in {"starting", "stopping"}) => m = n

LEMMA PoolManagerStep ==
    ASSUME TypeOK, PoolInv, NEW m \in Managers, ManagerStep(m)
    PROVE  PoolInv'
  <1> USE TaskManagerAssumption
  <1>1. CASE Start(m)
    <2>1. CASE CreateReturns(worker_limit, worker_limit)
      BY <1>1, <2>1 DEF Start, CreateReturns, CreateBlocks, Returns, PoolInv, PoolSize, TypeOK
    <2>2. CASE CreateBlocks(m, worker_limit, worker_limit, "starting")
      <3>1. active_workers' = worker_limit /\ state' = "STARTING" /\ worker_limit' = worker_limit
        BY <1>1, <2>2 DEF Start, CreateReturns, CreateBlocks, Created, PoolInv, PoolSize, TypeOK
      <3>2. mpc' = [mpc EXCEPT ![m] = "starting"]
        BY <2>2 DEF CreateBlocks, Blocks
      <3>. QED BY <1>1, <3>1, <3>2 DEF Start, PoolInv, PoolSize, TypeOK
    <2>. QED BY <1>1, <2>1, <2>2 DEF Start
  <1>2. CASE Started(m)
    BY <1>2 DEF Started, PoolInv, PoolSize, TypeOK, counts
  <1>3. CASE Added(m)
    BY <1>3 DEF Added, PoolInv, PoolSize, TypeOK, counts
  <1>4. CASE Killing(m)
    BY <1>4 DEF Killing, PoolInv, PoolSize, TypeOK, counts
  <1>5. CASE SpuriousManager(m)
    BY <1>5 DEF SpuriousManager, PoolInv, PoolSize, counts
  <1>6. ASSUME NEW and_join \in BOOLEAN, Stop(m, and_join)
        PROVE  PoolInv'
    <2>1. CASE KillReturns(active_workers) /\ state' = "IDLE"
      <3>1. active_workers' = 0
        BY <1>6, <2>1 DEF KillReturns, Retired, TypeOK
      <3>. QED BY <1>6, <2>1, <3>1 DEF Stop, KillReturns, Returns, PoolInv, PoolSize
    <2>2. CASE KillBlocks(m, active_workers, "stopping") /\ state' = "STOPPING"
      <3>1. active_workers' = 0 /\ mpc' = [mpc EXCEPT ![m] = "stopping"]
        BY <1>6, <2>2 DEF KillBlocks, Blocks, Retired, TypeOK
      <3>. QED BY <1>6, <2>2, <3>1 DEF Stop, PoolInv, PoolSize, TypeOK
    <2>. QED BY <1>6, <2>1, <2>2 DEF Stop
  <1>7. ASSUME NEW count \in 1..MaxLimit, AddWorkers(m, count)
        PROVE  PoolInv'
    <2>1. CASE state \in {"IDLE", "STOPPING"}
      BY <1>7, <2>1 DEF AddWorkers, Returns, PoolInv, PoolSize
    <2>2. CASE CreateBlocks(m, count, worker_limit', "adding") /\ state \in {"STARTING", "RUNNING"}
      <3>1. active_workers' = worker_limit'
        BY <1>7, <2>2 DEF AddWorkers, CreateBlocks, Created, PoolInv, PoolSize, TypeOK
      <3>2. mpc' = [mpc EXCEPT ![m] = "adding"]
        BY <2>2 DEF CreateBlocks, Blocks
      <3>. QED BY <1>7, <2>2, <3>1, <3>2 DEF AddWorkers, PoolInv, PoolSize, TypeOK
    <2>. QED BY <1>7, <2>1, <2>2 DEF AddWorkers
  <1>8. ASSUME NEW n \in 1..MaxLimit, RemoveWorkers(m, n)
        PROVE  PoolInv'
    <2> DEFINE count == IF n > worker_limit THEN worker_limit ELSE n
    <2>0. count \in Nat /\ count > 0 /\ worker_limit' = worker_limit - count /\ count <= worker_limit
      BY <1>8 DEF RemoveWorkers, TypeOK
    <2>1. CASE state \in {"IDLE", "STOPPING"}
      BY <1>8, <2>1 DEF RemoveWorkers, Returns, PoolInv, PoolSize
    <2> HIDE DEF count
    <2>2. CASE KillReturns(count) /\ state \in {"STARTING", "RUNNING"}
      <3>1. active_workers' = worker_limit'
        BY <2>0, <2>2 DEF KillReturns, Retired, PoolInv, PoolSize, TypeOK
      <3>. QED BY <1>8, <2>2, <3>1 DEF RemoveWorkers, KillReturns, Returns, PoolInv, PoolSize
    <2>3. CASE KillBlocks(m, count, "removing") /\ state \in {"STARTING", "RUNNING"}
      <3>1. active_workers' = worker_limit' /\ mpc' = [mpc EXCEPT ![m] = "removing"]
        BY <2>0, <2>3 DEF KillBlocks, Blocks, Retired, PoolInv, PoolSize, TypeOK
      <3>. QED BY <1>8, <2>3, <3>1 DEF RemoveWorkers, PoolInv, PoolSize, TypeOK
    <2>. QED BY <1>8, <2>1, <2>2, <2>3 DEF RemoveWorkers, count
  <1>. QED BY <1>1, <1>2, <1>3, <1>4, <1>5, <1>6, <1>7, <1>8 DEF ManagerStep

LEMMA PoolInvariant == Spec => []PoolInv
  <1>1. Init => PoolInv
    BY DEF Init, PoolInv, PoolSize
  <1>2. TypeOK /\ PoolInv /\ [Next]_vars => PoolInv'
    <2> SUFFICES ASSUME TypeOK, PoolInv, [Next]_vars PROVE PoolInv'
      OBVIOUS
    <2>1. ASSUME UNCHANGED <<worker_limit, active_workers, state, mpc>> PROVE PoolInv'
      BY <2>1 DEF PoolInv, PoolSize
    <2>2. CASE UNCHANGED vars
      BY <2>1, <2>2 DEF vars, counts
    <2>3. CASE ClientStep
      BY <2>1, <2>3 DEF ClientStep, Clear, PushBack, PushFront, counts
    <2>4. ASSUME NEW w \in Workers, WorkerStep(w) PROVE PoolInv'
      BY <2>1, <2>4 DEF WorkerStep, Enter, Loop, Awake, Decide, Finish, SpuriousWorker, counts
    <2>. QED BY <2>2, <2>3, <2>4, PoolManagerStep DEF Next
  <1>. QED BY <1>1, <1>2, TypeCorrect, PTL DEF Spec

\* Whatever managers overlap, the pool aims at worker_limit_ workers while it
\* is up and at none while it is down.
THEOREM PoolHasItsSize == Spec => []PoolSize
  <1>1. PoolInv => PoolSize
    BY DEF PoolInv
  <1>. QED BY <1>1, PoolInvariant, PTL


-----------------------------------------------------------------------------
\* A deque as the set of its elements.
Elements(s) == {s[i] : i \in DOMAIN s}
Distinct(s) == \A i, j \in DOMAIN s : s[i] = s[j] => i = j

LEMMA ElementsAppend ==
    ASSUME NEW s \in Seq(Tasks), NEW t \in Tasks
    PROVE  /\ Elements(Append(s, t)) = Elements(s) \cup {t}
           /\ Distinct(s) /\ t \notin Elements(s) => Distinct(Append(s, t))
  <1> DEFINE a == Append(s, t)
  <1>1. /\ Len(s) \in Nat /\ DOMAIN s = 1..Len(s)
        /\ Len(a) = Len(s) + 1 /\ DOMAIN a = 1..Len(a)
        /\ \A i \in 1..Len(s) : a[i] = s[i]
        /\ a[Len(s) + 1] = t
    BY AppendProperties, LenProperties
  <1> HIDE DEF a
  <1>2. \A i \in DOMAIN a : i \in DOMAIN s \/ i = Len(s) + 1
    BY <1>1
  <1>3. \A i \in DOMAIN s : i \in DOMAIN a /\ i # Len(s) + 1
    BY <1>1
  <1>4. Elements(a) = Elements(s) \cup {t}
    BY <1>1, <1>2, <1>3 DEF Elements
  <1>5. Distinct(s) /\ t \notin Elements(s) => Distinct(a)
    BY <1>1, <1>2, <1>3 DEF Elements, Distinct
  <1>. QED BY <1>4, <1>5 DEF a

LEMMA ElementsPrepend ==
    ASSUME NEW s \in Seq(Tasks), NEW t \in Tasks
    PROVE  /\ Elements(<<t>> \o s) = Elements(s) \cup {t}
           /\ Distinct(s) /\ t \notin Elements(s) => Distinct(<<t>> \o s)
  <1> DEFINE a == <<t>> \o s
  <1>1. /\ <<t>> \in Seq(Tasks) /\ Len(<<t>>) = 1 /\ <<t>>[1] = t
        /\ Len(s) \in Nat /\ DOMAIN s = 1..Len(s)
    BY LenProperties
  <1>2. /\ a \in Seq(Tasks) /\ Len(a) = Len(s) + 1
        /\ \A i \in 1..(Len(s) + 1) : a[i] = IF i <= 1 THEN <<t>>[i] ELSE s[i - 1]
    BY <1>1, ConcatProperties
  <1>3. DOMAIN a = 1..(Len(s) + 1)
    BY <1>2, LenProperties
  <1> HIDE DEF a
  <1>4. /\ 1 \in DOMAIN a /\ a[1] = t
        /\ \A i \in DOMAIN a : i # 1 => i - 1 \in DOMAIN s /\ a[i] = s[i - 1]
        /\ \A i \in DOMAIN s : i + 1 \in DOMAIN a /\ a[i + 1] = s[i]
    BY <1>1, <1>2, <1>3
  <1>5. Elements(a) = Elements(s) \cup {t}
    BY <1>4 DEF Elements
  <1>6. ASSUME Distinct(s), t \notin Elements(s), NEW i \in DOMAIN a, NEW j \in DOMAIN a, a[i] = a[j]
        PROVE  i = j
    <2>1. CASE i = 1 \/ j = 1
      BY <1>4, <1>6, <2>1 DEF Elements
    <2>2. CASE i # 1 /\ j # 1
      <3>1. i - 1 = j - 1
        BY <1>4, <1>6, <2>2 DEF Distinct
      <3>. QED BY <1>3, <3>1
    <2>. QED BY <2>1, <2>2
  <1>. QED BY <1>5, <1>6 DEF a, Distinct

LEMMA ElementsTail ==
    ASSUME NEW s \in Seq(Tasks), s # <<>>
    PROVE  /\ Head(s) \in Tasks /\ Tail(s) \in Seq(Tasks)
           /\ Elements(s) = Elements(Tail(s)) \cup {Head(s)}
           /\ Distinct(s) => Distinct(Tail(s)) /\ Head(s) \notin Elements(Tail(s))
  <1> DEFINE r == Tail(s)
  <1>1. /\ Len(s) \in Nat \ {0} /\ DOMAIN s = 1..Len(s) /\ Head(s) = s[1]
        /\ Head(s) \in Tasks /\ r \in Seq(Tasks) /\ Len(r) = Len(s) - 1
        /\ \A i \in 1..Len(r) : r[i] = s[i + 1]
    BY HeadTailProperties, LenProperties, EmptySeq
  <1>2. DOMAIN r = 1..(Len(s) - 1)
    BY <1>1, LenProperties
  <1> HIDE DEF r
  <1>3. /\ 1 \in DOMAIN s /\ Head(s) = s[1]
        /\ \A i \in DOMAIN s : i # 1 => i - 1 \in DOMAIN r /\ s[i] = r[i - 1]
        /\ \A i \in DOMAIN r : i + 1 \in DOMAIN s /\ i + 1 # 1 /\ r[i] = s[i + 1]
    BY <1>1, <1>2
  <1>4. Elements(s) = Elements(r) \cup {Head(s)}
    <2>1. ASSUME NEW i \in DOMAIN s PROVE s[i] \in Elements(r) \cup {Head(s)}
      BY <1>3, <2>1 DEF Elements
    <2>2. ASSUME NEW i \in DOMAIN r PROVE r[i] \in Elements(s)
      BY <1>3, <2>2 DEF Elements
    <2>. QED BY <1>3, <2>1, <2>2 DEF Elements
  <1>5. Distinct(s) => Head(s) \notin Elements(r)
    BY <1>3 DEF Elements, Distinct
  <1>6. ASSUME Distinct(s), NEW i \in DOMAIN r, NEW j \in DOMAIN r, r[i] = r[j]
        PROVE  i = j
    <2>1. i + 1 = j + 1
      BY <1>3, <1>6 DEF Distinct
    <2>. QED BY <1>2, <2>1
  <1>. QED BY <1>1, <1>4, <1>5, <1>6 DEF r, Distinct

\* By TypeOK, what executes can be read off run()'s local variable alone.
InHand == {task[w] : w \in {u \in Workers : task[u] # NoTask}}

LEMMA ExecutingIsInHand ==
    ASSUME TypeOK
    PROVE  /\ Executing = InHand /\ Queued = Elements(tasks)
           /\ InHand \subseteq Tasks /\ Elements(tasks) \subseteq Tasks
  <1>1. At("exec") = {u \in Workers : task[u] # NoTask}
    BY DEF TypeOK, At
  <1>2. InHand \subseteq Tasks
    BY DEF TypeOK, InHand
  <1>3. Elements(tasks) \subseteq Tasks
    BY DEF TypeOK, Elements
  <1>. QED BY <1>1, <1>2, <1>3 DEF Executing, Queued, InHand, Elements

\* TaskConservation in these terms.
Conserved ==
    /\ Tasks = fresh \cup Elements(tasks) \cup InHand \cup done \cup dropped
    /\ fresh \cap (Elements(tasks) \cup InHand \cup done \cup dropped) = {}
    /\ Elements(tasks) \cap (InHand \cup done \cup dropped) = {}
    /\ InHand \cap (done \cup dropped) = {}
    /\ done \cap dropped = {}
    /\ Distinct(tasks)
    /\ \A v, w \in Workers : task[v] = task[w] /\ task[v] # NoTask => v = w

LEMMA ConservedIsConservation == TypeOK => (Conserved <=> TaskConservation)
  <1> SUFFICES ASSUME TypeOK PROVE Conserved <=> TaskConservation
    OBVIOUS
  <1>1. At("exec") = {u \in Workers : task[u] # NoTask}
    BY DEF TypeOK, At
  <1>2. Distinct(tasks) <=> \A i, j \in DOMAIN tasks : tasks[i] = tasks[j] => i = j
    BY DEF Distinct
  <1>. QED BY <1>1, <1>2, ExecutingIsInHand DEF Conserved, TaskConservation

LEMMA QueueEmptied ==
    ASSUME TypeOK, Conserved, tasks' = <<>>, dropped' = dropped \cup Queued,
           UNCHANGED <<task, fresh, done>>
    PROVE  Conserved'
  <1>1. Elements(tasks)' = {} /\ Distinct(tasks)' /\ InHand' = InHand
    BY DEF Elements, Distinct, InHand
  <1>. QED BY <1>1, ExecutingIsInHand DEF Conserved

LEMMA QueueKept ==
    ASSUME Conserved, UNCHANGED <<tasks, task, fresh, done, dropped>>
    PROVE  Conserved'
  BY DEF Conserved, InHand

LEMMA TaskPushed ==
    ASSUME TypeOK, Conserved, NEW t \in Tasks, PushBack(t) \/ PushFront(t)
    PROVE  Conserved'
  <1>1. t \in fresh /\ t \notin Elements(tasks) /\ Distinct(tasks) /\ tasks \in Seq(Tasks)
    BY DEF PushBack, PushFront, MayPush, Conserved, TypeOK
  <1>2. Elements(tasks)' = Elements(tasks) \cup {t} /\ Distinct(tasks)'
    <2>1. CASE PushBack(t)
      <3>1. tasks' = Append(tasks, t)
        BY <2>1 DEF PushBack
      <3>. QED BY <1>1, <3>1, ElementsAppend
    <2>2. CASE PushFront(t)
      <3>1. tasks' = <<t>> \o tasks
        BY <2>2 DEF PushFront
      <3>. QED BY <1>1, <3>1, ElementsPrepend
    <2>. QED BY <2>1, <2>2
  <1>3. InHand' = InHand /\ fresh' = fresh \ {t} /\ UNCHANGED <<task, done, dropped>>
    BY DEF PushBack, PushFront, InHand
  <1>. QED BY <1>1, <1>2, <1>3 DEF Conserved

LEMMA TaskTaken ==
    ASSUME TypeOK, Conserved, NEW w \in Workers, task[w] = NoTask,
           tasks # <<>>, task' = [task EXCEPT ![w] = Head(tasks)], tasks' = Rest,
           UNCHANGED <<fresh, done, dropped>>
    PROVE  Conserved'
  <1>1. /\ Head(tasks) \in Tasks /\ Head(tasks) # NoTask
        /\ Elements(tasks) = Elements(tasks)' \cup {Head(tasks)}
        /\ Distinct(tasks)' /\ Head(tasks) \notin Elements(tasks)'
    BY ElementsTail, TaskManagerAssumption DEF Rest, TypeOK, Conserved
  <1>2. InHand' = InHand \cup {Head(tasks)}
    BY <1>1 DEF InHand, TypeOK
  <1>3. Head(tasks) \notin InHand
    BY <1>1 DEF Conserved
  <1>4. \A u, v \in Workers : task'[u] = task'[v] /\ task'[u] # NoTask => u = v
    BY <1>1, <1>3 DEF InHand, TypeOK, Conserved
  <1>. QED BY <1>1, <1>2, <1>3, <1>4 DEF Conserved

LEMMA TaskFinished ==
    ASSUME TypeOK, Conserved, NEW w \in Workers, Finish(w)
    PROVE  /\ Conserved'
           /\ task[w] \in InHand /\ InHand' = InHand \ {task[w]}
  <1>1. task[w] \in InHand /\ InHand' = InHand \ {task[w]}
    BY DEF Finish, InHand, TypeOK, Conserved
  <1>2. \A u, v \in Workers : task'[u] = task'[v] /\ task'[u] # NoTask => u = v
    BY DEF Finish, TypeOK, Conserved
  <1>3. tasks' = tasks /\ fresh' = fresh /\ dropped' = dropped /\ done' = done \cup {task[w]}
    BY DEF Finish
  <1>. QED BY <1>1, <1>2, <1>3 DEF Conserved

\* No submission is lost and none is handed to two workers, with any number
\* of managers, spurious wake-ups and overlapping stops and resizes.
THEOREM TasksAreConserved == Spec => []TaskConservation
  <1>1. Init => Conserved
    BY DEF Init, Conserved, Elements, Distinct, InHand
  <1>2. TypeOK /\ Conserved /\ [Next]_vars => Conserved'
    <2> SUFFICES ASSUME TypeOK, Conserved, [Next]_vars PROVE Conserved'
      OBVIOUS
    <2>1. CASE UNCHANGED vars
      BY <2>1, QueueKept DEF vars, history
    <2>2. ASSUME NEW m \in Managers, ManagerStep(m) PROVE Conserved'
      <3>1. ASSUME NEW and_join \in BOOLEAN, Stop(m, and_join) PROVE Conserved'
        <4>1. CASE and_join
          BY <3>1, <4>1, QueueKept DEF Stop
        <4>2. CASE ~and_join
          BY <3>1, <4>2, QueueEmptied DEF Stop
        <4>. QED BY <4>1, <4>2
      <3>2. CASE \A and_join \in BOOLEAN : ~Stop(m, and_join)
        BY <2>2, <3>2, QueueKept
           DEF ManagerStep, Start, Started, Added, Killing, SpuriousManager,
               AddWorkers, RemoveWorkers, history
      <3>. QED BY <3>1, <3>2
    <2>3. CASE ClientStep
      BY <2>3, QueueEmptied, TaskPushed DEF ClientStep, Clear
    <2>4. ASSUME NEW w \in Workers, WorkerStep(w) PROVE Conserved'
      <3>1. CASE Enter(w) \/ SpuriousWorker(w)
        BY <3>1, QueueKept DEF Enter, SpuriousWorker, history
      <3>2. CASE Finish(w)
        BY <3>2, TaskFinished
      <3>3. ASSUME \E idle : Decide(w, idle), task[w] = NoTask PROVE Conserved'
        <4> PICK idle : Decide(w, idle)
          BY <3>3
        <4>1. CASE Sleep(w, idle) \/ Leave(w, idle)
          BY <4>1, QueueKept DEF Decide, Sleep, Leave, history
        <4>2. CASE Take(w, idle)
          BY <3>3, <4>2, TaskTaken DEF Decide, Take, history
        <4>. QED BY <4>1, <4>2 DEF Decide
      <3>. QED BY <2>4, <3>1, <3>2, <3>3 DEF WorkerStep, Loop, Awake, TypeOK
    <2>. QED BY <2>1, <2>2, <2>3, <2>4 DEF Next
  <1>. QED BY <1>1, <1>2, TypeCorrect, ConservedIsConservation, PTL DEF Spec

-----------------------------------------------------------------------------
(* A pool that one thread manages, and whose manager is woken only by      *)
(* notifications.  The second condition is needed: create_workers_nl waits *)
(* without testing what it waits for.                                      *)

OneManager == "managers" \notin Spurious /\ \E m : Managers = {m}

\* What the manager can rely on at each of the places it can be.  While it
\* waits for new workers, those that entered and those still to come make up
\* active_workers_, so none leaves; in kill_workers_nl none is to come.
CrewOf(m) ==
    /\ mpc[m] = "ready" =>
          /\ state \in {"IDLE", "RUNNING"}
          /\ At("created") = {} /\ worker_count = active_workers
    /\ mpc[m] \in {"starting", "adding"} =>
          /\ state = IF mpc[m] = "starting" THEN "STARTING" ELSE "RUNNING"
          /\ worker_count + Cardinality(At("created")) = active_workers
          /\ m \notin manager_cv => At("created") = {}
    /\ mpc[m] = "removing" =>
          /\ state = "RUNNING"
          /\ At("created") = {} /\ worker_count >= active_workers
    /\ mpc[m] = "stopping" => At("created") = {}

Crew == \A m \in Managers : CrewOf(m)

LEMMA CreatedSet ==
    /\ IsFiniteSet(At("created")) /\ Cardinality(At("created")) \in Nat
    /\ Cardinality(At("created")) = 0 <=> At("created") = {}
  <1>1. At("created") \in SUBSET Workers
    BY DEF At
  <1>. QED BY <1>1, WorkerSets, FS_EmptySet

\* A worker's arrival at its prologue brings the count to active_workers_
\* exactly when it is the last that was to come, and then wakes the manager.
LEMMA CrewEnter ==
    ASSUME TypeOK, Accounting, Crew, OneManager, NEW m \in Managers,
           NEW w \in Workers, Enter(w)
    PROVE  CrewOf(m)'
  <1>1. w \in At("created") /\ At("created")' = At("created") \ {w}
    BY OneMoves DEF Enter, At, TypeOK
  <1>2. mpc[m] \in {"starting", "adding"} /\ mpc' = mpc /\ state' = state
    BY <1>1 DEF Crew, CrewOf, Enter, TypeOK
  <1>3. worker_count' + Cardinality(At("created"))' = active_workers'
    <2>1. Cardinality(At("created")') = Cardinality(At("created")) - 1
      BY <1>1, CreatedSet, FS_RemoveElement
    <2>2. worker_count + Cardinality(At("created")) = active_workers
      BY <1>2 DEF Crew, CrewOf
    <2>3. worker_count' = worker_count + 1 /\ active_workers' = active_workers
      BY DEF Enter
    <2>. QED BY <2>1, <2>2, <2>3, CreatedSet DEF TypeOK
  <1>4. ASSUME m \notin manager_cv' PROVE At("created")' = {}
    <2>1. m \in manager_cv
      BY <1>1, <1>2 DEF Crew, CrewOf
    <2>2. worker_count' = active_workers'
      BY <2>1, <1>4 DEF Enter, NotifyManagerIf
    <2>3. IsFiniteSet(At("created")') /\ Cardinality(At("created")') \in Nat
      BY <1>1, CreatedSet, FS_RemoveElement, FS_CardinalityType
    <2>4. Cardinality(At("created")') = 0
      BY <1>3, <2>2, <2>3 DEF Enter, TypeOK
    <2>. QED BY <2>3, <2>4, FS_EmptySet
  <1>5. CrewOf(m)' <=> ( /\ state' = IF mpc[m] = "starting" THEN "STARTING" ELSE "RUNNING"
                         /\ worker_count' + Cardinality(At("created"))' = active_workers'
                         /\ m \notin manager_cv' => At("created")' = {} )
    BY <1>2 DEF CrewOf
  <1>. QED BY <1>2, <1>3, <1>4, <1>5 DEF Crew, CrewOf

\* A worker leaves only when the manager has asked it to, and never brings
\* worker_count_ below active_workers_.
LEMMA CrewLeave ==
    ASSUME TypeOK, Accounting, Crew, OneManager, NEW m \in Managers,
           NEW w \in Entered, \E idle : Decide(w, idle)
    PROVE  CrewOf(m)'
  <1> PICK idle : Decide(w, idle)
    OBVIOUS
  <1>0. w \in Workers /\ wpc[w] # "created"
    BY DEF Entered, At
  <1>1. mpc' = mpc /\ state' = state /\ active_workers' = active_workers
    BY DEF Decide
  <1>2. At("created")' = At("created")
    <2>1. PICK pc \in {"none", "wait", "exec"} : wpc' = [wpc EXCEPT ![w] = pc]
      BY DEF Decide, Sleep, Take, Leave
    <2>. QED BY <1>0, <2>1 DEF At, TypeOK
  <1>3. CASE Sleep(w, idle) \/ Take(w, idle)
    <2>1. worker_count' = worker_count /\ manager_cv' = manager_cv
      BY <1>3 DEF Sleep, Take
    <2>. QED BY <1>1, <1>2, <2>1 DEF Crew, CrewOf
  <1>4. CASE Leave(w, idle)
    <2>1. worker_count' = worker_count - 1 /\ worker_count > active_workers
      BY <1>4 DEF Leave, Surplus
    <2>2. mpc[m] \in {"removing", "stopping"}
      BY <2>1, CreatedSet DEF Crew, CrewOf, TypeOK
    <2>. QED BY <1>1, <1>2, <2>1, <2>2 DEF Crew, CrewOf, TypeOK
  <1>. QED BY <1>3, <1>4 DEF Decide

LEMMA CrewManager ==
    ASSUME TypeOK, Accounting, PoolInv, PoolInv', Crew, OneManager,
           NEW m \in Managers, ManagerStep(m)
    PROVE  CrewOf(m)'
  <1> USE TaskManagerAssumption
  <1>0. ASSUME NEW S \in SUBSET At("none"),
               wpc' = [w \in Workers |-> IF w \in S THEN "created" ELSE wpc[w]],
               At("created") = {}
        PROVE  At("created")' = S
    BY <1>0 DEF At, TypeOK
  <1>1. CASE Start(m)
    <2>1. CASE CreateReturns(worker_limit, worker_limit)
      BY <1>1, <2>1 DEF Start, CreateReturns, CreateBlocks, Returns, Crew, CrewOf, PoolInv, PoolSize, TypeOK, At
    <2>2. CASE CreateBlocks(m, worker_limit, worker_limit, "starting")
      <3>1. PICK S \in SUBSET At("none") :
               /\ Cardinality(S) = Created(worker_limit, worker_limit)
               /\ wpc' = [w \in Workers |-> IF w \in S THEN "created" ELSE wpc[w]]
        BY <2>2 DEF CreateBlocks
      <3>2. At("created") = {} /\ worker_count = 0 /\ active_workers = 0
        BY <1>1 DEF Start, Crew, CrewOf, PoolInv, PoolSize
      <3>3. At("created")' = S
        BY <1>0, <3>1, <3>2
      <3>4. Cardinality(S) = worker_limit /\ active_workers' = worker_limit
        BY <2>2, <3>1, <3>2 DEF CreateBlocks, Created, TypeOK
      <3>5. /\ mpc'[m] = "starting" /\ state' = "STARTING" /\ m \in manager_cv'
            /\ worker_count' = 0
        BY <1>1, <2>2, <3>2 DEF Start, CreateReturns, CreateBlocks, Blocks, TypeOK
      <3>. QED BY <3>3, <3>4, <3>5 DEF CrewOf, TypeOK
    <2>. QED BY <1>1, <2>1, <2>2 DEF Start
  <1>2. CASE Started(m) \/ Added(m)
    <2>1. mpc[m] \in {"starting", "adding"} /\ m \notin manager_cv /\ mpc'[m] = "ready"
      BY <1>2 DEF Started, Added, TypeOK
    <2>2. UNCHANGED <<worker_count, active_workers, wpc>>
      BY <1>2 DEF Started, Added, counts
    <2>3. At("created") = {} /\ At("created")' = {}
      BY <2>1, <2>2 DEF Crew, CrewOf, At
    <2>4. worker_count = active_workers
      BY <2>1, <2>3, CreatedSet DEF Crew, CrewOf, TypeOK
    <2>5. state' \in {"IDLE", "RUNNING"}
      <3>1. CASE Started(m)
        BY <3>1 DEF Started
      <3>2. CASE Added(m)
        BY <3>2 DEF Added, Crew, CrewOf
      <3>. QED BY <1>2, <3>1, <3>2
    <2>. QED BY <2>1, <2>2, <2>3, <2>4, <2>5 DEF CrewOf
  <1>3. CASE Killing(m)
    BY <1>3 DEF Killing, Crew, CrewOf, TypeOK, At, counts
  <1>4. CASE SpuriousManager(m)
    BY <1>4 DEF SpuriousManager, OneManager
  <1>5. ASSUME NEW and_join \in BOOLEAN, Stop(m, and_join) PROVE CrewOf(m)'
    BY <1>5 DEF Stop, KillReturns, KillBlocks, Retired, Returns, Blocks, Crew, CrewOf, TypeOK, At
  <1>6. ASSUME NEW count \in 1..MaxLimit, AddWorkers(m, count) PROVE CrewOf(m)'
    <2>0. At("created") = {} /\ worker_count = active_workers /\ state \in {"IDLE", "RUNNING"}
      BY <1>6 DEF AddWorkers, Crew, CrewOf
    <2>1. CASE state = "IDLE"
      BY <1>6, <2>0, <2>1 DEF AddWorkers, Returns, CrewOf, At
    <2>2. CASE CreateBlocks(m, count, worker_limit', "adding") /\ state = "RUNNING"
      <3>1. PICK S \in SUBSET At("none") :
               /\ Cardinality(S) = Created(count, worker_limit')
               /\ wpc' = [w \in Workers |-> IF w \in S THEN "created" ELSE wpc[w]]
        BY <2>2 DEF CreateBlocks
      <3>2. At("created")' = S
        BY <1>0, <3>1, <2>0
      <3>3. active_workers = worker_limit /\ worker_limit' = worker_limit + count
        BY <1>6, <2>2 DEF AddWorkers, PoolInv, PoolSize
      <3>4. Cardinality(S) = count /\ active_workers' = active_workers + count
        BY <2>2, <3>1, <3>3 DEF CreateBlocks, Created, TypeOK
      <3>5. /\ mpc'[m] = "adding" /\ state' = "RUNNING" /\ m \in manager_cv'
            /\ worker_count' = worker_count
        BY <1>6, <2>2 DEF AddWorkers, CreateBlocks, Blocks, TypeOK
      <3>. QED BY <2>0, <3>2, <3>4, <3>5 DEF CrewOf, TypeOK
    <2>. QED BY <1>6, <2>0, <2>1, <2>2 DEF AddWorkers
  <1>7. ASSUME NEW n \in 1..MaxLimit, RemoveWorkers(m, n) PROVE CrewOf(m)'
    <2> DEFINE count == IF n > worker_limit THEN worker_limit ELSE n
    <2>0. /\ At("created") = {} /\ worker_count = active_workers /\ state \in {"IDLE", "RUNNING"}
          /\ wpc' = wpc /\ worker_count' = worker_count /\ state' = state /\ mpc[m] = "ready"
      BY <1>7 DEF RemoveWorkers, Crew, CrewOf
    <2>1. count \in Nat
      BY <1>7 DEF RemoveWorkers, TypeOK
    <2> HIDE DEF count
    <2>2. CASE Returns /\ UNCHANGED <<active_workers, workers_cv>>
      BY <2>0, <2>2 DEF Returns, CrewOf, At
    <2>3. CASE KillReturns(count)
      BY <2>0, <2>1, <2>3 DEF KillReturns, Retired, Returns, CrewOf, At, TypeOK
    <2>4. CASE KillBlocks(m, count, "removing") /\ state = "RUNNING"
      BY <2>0, <2>1, <2>4 DEF KillBlocks, Retired, Blocks, CrewOf, At, TypeOK
    <2>. QED BY <1>7, <2>0, <2>2, <2>3, <2>4 DEF RemoveWorkers, count
  <1>. QED BY <1>1, <1>2, <1>3, <1>4, <1>5, <1>6, <1>7 DEF ManagerStep

\* Everything above, as one inductive invariant of a pool with one manager.
CrewInv == TypeOK /\ Accounting /\ PoolInv /\ Crew

LEMMA CrewStep ==
    ASSUME TypeOK, Accounting, PoolInv, PoolInv', Crew, OneManager, [Next]_vars
    PROVE  Crew'
  <1> SUFFICES ASSUME NEW m \in Managers PROVE CrewOf(m)'
    BY DEF Crew
  <1>1. ASSUME UNCHANGED <<worker_count, active_workers, state, manager_cv, mpc>>,
               At("created")' = At("created")
        PROVE  CrewOf(m)'
    BY <1>1 DEF Crew, CrewOf
  <1>2. CASE UNCHANGED vars
    BY <1>1, <1>2 DEF vars, counts, At
  <1>3. ASSUME NEW n \in Managers, ManagerStep(n) PROVE CrewOf(m)'
    BY <1>3, CrewManager DEF OneManager
  <1>4. CASE ClientStep
    BY <1>1, <1>4 DEF ClientStep, Clear, PushBack, PushFront, counts, At
  <1>5. ASSUME NEW w \in Workers, WorkerStep(w) PROVE CrewOf(m)'
    <2>1. CASE Enter(w)
      BY <2>1, CrewEnter
    <2>2. CASE Loop(w) \/ Awake(w)
      BY <2>2, CrewLeave DEF Loop, Awake, Entered, At
    <2>3. CASE Finish(w)
      BY <1>1, <2>3 DEF Finish, counts, At, TypeOK
    <2>4. CASE SpuriousWorker(w)
      BY <1>1, <2>4 DEF SpuriousWorker, counts, At
    <2>. QED BY <1>5, <2>1, <2>2, <2>3, <2>4 DEF WorkerStep
  <1>. QED BY <1>2, <1>3, <1>4, <1>5 DEF Next

\* stop() takes the last thread out of the pool, so that start()'s assertions
\* hold; and the other three return with exactly worker_limit_ workers.
LEMMA CrewConsequences == CrewInv /\ OneManager => IdlePoolIsEmpty /\ PoolIsFull
  <1> SUFFICES ASSUME CrewInv, OneManager PROVE IdlePoolIsEmpty /\ PoolIsFull
    OBVIOUS
  <1> PICK m : Managers = {m}
    BY DEF OneManager
  <1>1. ASSUME state = "IDLE"
        PROVE  StartAssertions /\ At("none") = Workers
    <2>1. mpc[m] = "ready" /\ At("created") = {} /\ worker_count = active_workers
      BY <1>1 DEF CrewInv, Crew, CrewOf, PoolInv, TypeOK
    <2>2. worker_count = 0
      BY <1>1, <2>1 DEF CrewInv, PoolInv, PoolSize
    <2>3. Entered = {}
      BY <2>2, CountedSets, FS_EmptySet DEF CrewInv, Accounting
    <2>4. At("none") = Workers
      BY <2>1, <2>3 DEF CrewInv, TypeOK, Entered, At
    <2>5. At("wait") = {}
      BY <2>3 DEF Entered
    <2>6. idle_workers = 0
      BY <2>5, FS_EmptySet DEF CrewInv, Accounting
    <2>. QED BY <2>2, <2>4, <2>6 DEF StartAssertions
  <1>2. ASSUME state = "RUNNING", \A n \in Managers : mpc[n] = "ready"
        PROVE  At("created") = {} /\ worker_count = worker_limit
    BY <1>2 DEF CrewInv, Crew, CrewOf, PoolInv, PoolSize
  <1>. QED BY <1>1, <1>2 DEF IdlePoolIsEmpty, PoolIsFull

LEMMA CrewInvariant == ASSUME OneManager PROVE Spec => []CrewInv
  <1>1. Init => Crew
    <2> SUFFICES ASSUME Init, NEW m \in Managers PROVE CrewOf(m)
      BY DEF Crew
    <2>. QED BY DEF Init, CrewOf, At
  <1>2. Init => PoolInv
    BY DEF Init, PoolInv, PoolSize
  <1>3. TypeOK /\ Accounting /\ PoolInv /\ PoolInv' /\ Crew /\ [Next]_vars => Crew'
    BY CrewStep
  <1>. QED BY <1>1, <1>3, TypeCorrect, PoolInvariant, PTL DEF Spec, CrewInv

THEOREM StopEmptiesThePool == ASSUME OneManager PROVE Spec => []IdlePoolIsEmpty
  BY CrewInvariant, CrewConsequences, PTL

THEOREM OperationsLeaveThePoolFull == ASSUME OneManager PROVE Spec => []PoolIsFull
  BY CrewInvariant, CrewConsequences, PTL

-----------------------------------------------------------------------------
\* While a stop or join is waiting, what it owes has been executed, is being
\* executed, or is still queued; and once the last worker has left, nothing
\* it owes is queued, for no worker leaves a closing pool with a queue.
OwedInv ==
    /\ owed \cap fresh = {}
    /\ state = "STOPPING" =>
          /\ owed \subseteq done \cup InHand \cup Elements(tasks)
          /\ worker_count = 0 => owed \cap Elements(tasks) = {}
    /\ state # "STOPPING" => owed \subseteq done

\* A stopping pool is one whose manager is in stop(), and nobody is to come.
LEMMA WhileStopping ==
    ASSUME CrewInv, OneManager, state = "STOPPING"
    PROVE  active_workers = 0 /\ At("created") = {}
  BY DEF CrewInv, OneManager, Crew, CrewOf, PoolInv, PoolSize, TypeOK

\* With no worker counted, nothing is in a worker's hands.
LEMMA NobodyExecutes ==
    ASSUME TypeOK, Accounting, worker_count = 0
    PROVE  Entered = {} /\ Executing = {} /\ InHand = {}
  <1>1. Entered = {}
    BY CountedSets, FS_EmptySet DEF Accounting
  <1>2. Executing = {}
    BY <1>1 DEF Entered, Executing
  <1>. QED BY <1>1, <1>2, ExecutingIsInHand

\* stop() returns at once only when there are no workers at all.
LEMMA StopReturnsAtOnce ==
    ASSUME CrewInv, OneManager, NEW m \in Managers, NEW and_join \in BOOLEAN,
           Stop(m, and_join), KillReturns(active_workers)
    PROVE  active_workers = 0 /\ worker_count = 0
  <1>1. worker_count = active_workers
    BY DEF Stop, CrewInv, Crew, CrewOf
  <1>. QED BY <1>1 DEF KillReturns, Retired, CrewInv, TypeOK

LEMMA OwedStep ==
    ASSUME CrewInv, Conserved, OneManager, OwedInv, [Next]_vars
    PROVE  OwedInv'
  <1> USE DEF CrewInv
  <1>1. ASSUME UNCHANGED <<owed, fresh, done, state, task, tasks, worker_count>> PROVE OwedInv'
    BY <1>1 DEF OwedInv, InHand, Elements
  <1>2. CASE UNCHANGED vars
    BY <1>1, <1>2 DEF vars, counts, history
  <1>3. ASSUME NEW m \in Managers, ManagerStep(m) PROVE OwedInv'
    <2>1. CASE Start(m) \/ Started(m)
      <3>1. state # "STOPPING" /\ state' # "STOPPING" /\ UNCHANGED <<owed, fresh, done>>
        BY <2>1 DEF Start, Started, CreateReturns, CreateBlocks, PoolInv, history
      <3>. QED BY <3>1 DEF OwedInv
    <2>2. CASE Killing(m)
      <3>1. CASE state' = state
        BY <1>1, <2>2, <3>1 DEF Killing, history, counts
      <3>2. CASE state' # state
        <4>1. state = "STOPPING" /\ state' = "IDLE" /\ worker_count = active_workers
          BY <2>2, <3>2 DEF Killing, PoolInv
        <4>2. worker_count = 0 /\ InHand = {}
          BY <4>1, WhileStopping, NobodyExecutes
        <4>. QED BY <2>2, <4>1, <4>2 DEF OwedInv, Killing, history
      <3>. QED BY <3>1, <3>2
    <2>3. CASE Added(m) \/ SpuriousManager(m)
      BY <1>1, <2>3 DEF Added, SpuriousManager, history, counts
    <2>4. ASSUME NEW and_join \in BOOLEAN, Stop(m, and_join) PROVE OwedInv'
      <3>1. owed' \subseteq InHand \cup Elements(tasks) /\ fresh' = fresh /\ done' = done
        BY <2>4, ExecutingIsInHand DEF Stop
      <3>2. owed' \cap fresh' = {}
        BY <3>1 DEF Conserved
      <3>3. CASE KillReturns(active_workers) /\ state' = "IDLE"
        <4>1. owed' = {}
          BY <2>4, <3>3, StopReturnsAtOnce, NobodyExecutes DEF Stop
        <4>. QED BY <3>3, <4>1 DEF OwedInv
      <3>4. CASE KillBlocks(m, active_workers, "stopping") /\ state' = "STOPPING"
        <4>1. worker_count' # 0
          BY <2>4, <3>4 DEF KillBlocks, Stop, Crew, CrewOf
        <4>2. owed' \subseteq done' \cup InHand' \cup Elements(tasks)'
          BY <2>4, <3>1, ExecutingIsInHand DEF Stop, InHand, Elements
        <4>. QED BY <3>2, <3>4, <4>1, <4>2 DEF OwedInv
      <3>. QED BY <2>4, <3>3, <3>4 DEF Stop
    <2>5. ASSUME NEW count \in 1..MaxLimit, AddWorkers(m, count) \/ RemoveWorkers(m, count)
          PROVE  OwedInv'
      BY <1>1, <2>5 DEF AddWorkers, RemoveWorkers, history
    <2>. QED BY <1>3, <2>1, <2>2, <2>3, <2>4, <2>5 DEF ManagerStep
  <1>4. CASE ClientStep
    <2>1. CASE Clear
      <3>1. /\ owed' = owed \ Elements(tasks) /\ Elements(tasks)' = {} /\ InHand' = InHand
            /\ UNCHANGED <<state, fresh, done>>
        BY <2>1, ExecutingIsInHand DEF Clear, Elements, InHand
      <3>. QED BY <3>1 DEF OwedInv
    <2>2. ASSUME NEW t \in Tasks, PushBack(t) \/ PushFront(t) PROVE OwedInv'
      <3>1. tasks' = Append(tasks, t) \/ tasks' = <<t>> \o tasks
        BY <2>2 DEF PushBack, PushFront
      <3>2. Elements(tasks)' = Elements(tasks) \cup {t}
        <4>1. CASE tasks' = Append(tasks, t)
          BY <4>1, ElementsAppend DEF TypeOK
        <4>2. CASE tasks' = <<t>> \o tasks
          BY <4>2, ElementsPrepend DEF TypeOK
        <4>. QED BY <3>1, <4>1, <4>2
      <3>3. /\ t \in fresh /\ fresh' = fresh \ {t} /\ InHand' = InHand
            /\ UNCHANGED <<state, done, owed, worker_count>>
        BY <2>2 DEF PushBack, PushFront, MayPush, InHand, counts
      <3>. QED BY <3>2, <3>3 DEF OwedInv
    <2>. QED BY <1>4, <2>1, <2>2 DEF ClientStep
  <1>5. ASSUME NEW w \in Workers, WorkerStep(w) PROVE OwedInv'
    <2>1. CASE Enter(w)
      <3>1. state # "STOPPING" /\ UNCHANGED <<state, owed, fresh, done>>
        BY <2>1, WhileStopping DEF Enter, At, history
      <3>. QED BY <3>1 DEF OwedInv
    <2>2. CASE Finish(w)
      BY <2>2, TaskFinished DEF Finish, OwedInv, counts
    <2>3. CASE SpuriousWorker(w)
      BY <1>1, <2>3 DEF SpuriousWorker, history, counts
    <2>4. CASE Loop(w) \/ Awake(w)
      <3> PICK idle : Decide(w, idle)
        BY <2>4 DEF Loop, Awake
      <3>0. UNCHANGED <<state, owed, fresh, done>>
        BY DEF Decide, history
      <3>1. CASE Sleep(w, idle)
        BY <1>1, <3>0, <3>1 DEF Sleep
      <3>2. CASE Take(w, idle)
        <4>1. worker_count # 0 /\ worker_count' = worker_count
          BY <2>4, <3>2, NobodyExecutes DEF Take, Loop, Awake, Entered, At
        <4>2. Elements(tasks) = Elements(tasks)' \cup {Head(tasks)} /\ Head(tasks) # NoTask
          BY <3>2, ElementsTail, TaskManagerAssumption DEF Take, Rest, TypeOK
        <4>3. InHand' = InHand \cup {Head(tasks)}
          BY <2>4, <3>2, <4>2 DEF Take, Loop, Awake, InHand, TypeOK
        <4>. QED BY <3>0, <4>1, <4>2, <4>3 DEF OwedInv
      <3>3. CASE Leave(w, idle)
        <4>1. task' = task /\ tasks' = tasks /\ (state = "STOPPING" => tasks = <<>>)
          BY <3>3 DEF Leave, Surplus
        <4>2. InHand' = InHand /\ Elements(tasks)' = Elements(tasks)
              /\ (state = "STOPPING" => Elements(tasks) = {})
          BY <4>1 DEF InHand, Elements
        <4>. QED BY <3>0, <4>2 DEF OwedInv
      <3>. QED BY <3>1, <3>2, <3>3 DEF Decide
    <2>. QED BY <1>5, <2>1, <2>2, <2>3, <2>4 DEF WorkerStep
  <1>. QED BY <1>2, <1>3, <1>4, <1>5 DEF Next

\* The invariants the refinement rests on, together.
PromiseInv == CrewInv /\ Conserved /\ OwedInv

LEMMA PromiseInvariant == ASSUME OneManager PROVE Spec => []PromiseInv
  <1>1. Init => OwedInv
    BY DEF Init, OwedInv
  <1>2. CrewInv /\ Conserved /\ OwedInv /\ [Next]_vars => OwedInv'
    BY OwedStep
  <1>3. CrewInv => TypeOK
    BY DEF CrewInv
  <1>. QED
    BY <1>1, <1>2, <1>3, CrewInvariant, TasksAreConserved, ConservedIsConservation, PTL
       DEF Spec, PromiseInv

\* stop() returns after the tasks that were executing, join() after those
\* that were queued as well.
THEOREM StopWaits == ASSUME OneManager PROVE Spec => []StopWaitsForTasks
  <1>1. PromiseInv => StopWaitsForTasks
    <2> SUFFICES ASSUME PromiseInv, state = "IDLE"
                 PROVE  Executing = {} /\ owed \subseteq done
      BY DEF StopWaitsForTasks
    <2>1. worker_count = 0
      BY CrewConsequences DEF PromiseInv, IdlePoolIsEmpty, StartAssertions
    <2>. QED BY <2>1, NobodyExecutes DEF PromiseInv, CrewInv, OwedInv
  <1>. QED BY <1>1, PromiseInvariant, PTL

-----------------------------------------------------------------------------
\* A step of the pool, seen from the outside.
LEMMA StutterOf ==
    ASSUME TypeOK, TypeOK', Phase' = Phase, UNCHANGED <<tasks, task, fresh, done, dropped, owed>>
    PROVE  UNCHANGED Pool!vars
  <1>1. Executing' = Executing
    <2>1. At("exec") = {u \in Workers : task[u] # NoTask}
      BY DEF TypeOK, At
    <2>2. At("exec")' = {u \in Workers : task'[u] # NoTask}
      BY DEF TypeOK, At
    <2>. QED BY <2>1, <2>2 DEF Executing
  <1>. QED BY <1>1 DEF Pool!vars

LEMMA ManagerRefines ==
    ASSUME PromiseInv, TypeOK', OneManager, NEW m \in Managers, ManagerStep(m)
    PROVE  Pool!Next \/ UNCHANGED Pool!vars
  <1> USE DEF PromiseInv, CrewInv
  <1>0. ASSUME task' = task PROVE Executing' = Executing
    <2>1. At("exec") = {u \in Workers : task[u] # NoTask}
      BY DEF TypeOK, At
    <2>2. At("exec")' = {u \in Workers : task'[u] # NoTask}
      BY DEF TypeOK, At
    <2>. QED BY <1>0, <2>1, <2>2 DEF Executing
  <1>1. CASE Start(m)
    <2>1. Phase = "closed" /\ Phase' = "open"
      BY <1>1 DEF Start, Phase
    <2>2. UNCHANGED <<tasks, Executing, fresh, done, dropped, owed>>
      BY <1>0, <1>1 DEF Start, history
    <2>. QED BY <2>1, <2>2 DEF Pool!Next, Pool!Open
  <1>2. CASE Started(m)
    <2>1. Phase' = Phase
      BY <1>2 DEF Started, Phase, PoolInv
    <2>. QED BY <1>2, <2>1, StutterOf DEF Started, history
  <1>3. CASE Killing(m)
    <2>1. CASE state' = state
      <3>1. Phase' = Phase
        BY <2>1 DEF Phase
      <3>. QED BY <1>3, <3>1, StutterOf DEF Killing, history
    <2>2. CASE state' # state
      <3>1. state = "STOPPING" /\ state' = "IDLE" /\ worker_count = active_workers
        BY <1>3, <2>2 DEF Killing, PoolInv
      <3>2. Executing = {} /\ owed \subseteq done
        BY <3>1, WhileStopping, NobodyExecutes DEF OwedInv
      <3>3. Phase = "closing" /\ Phase' = "closed"
        BY <3>1 DEF Phase
      <3>4. UNCHANGED <<tasks, Executing, fresh, done, dropped, owed>>
        BY <1>0, <1>3 DEF Killing, history
      <3>. QED BY <3>2, <3>3, <3>4 DEF Pool!Next, Pool!Close
    <2>. QED BY <2>1, <2>2
  <1>4. CASE Added(m) \/ SpuriousManager(m)
    <2>1. Phase' = Phase
      BY <1>4 DEF Added, SpuriousManager, Phase
    <2>. QED BY <1>4, <2>1, StutterOf DEF Added, SpuriousManager, history
  <1>5. ASSUME NEW count \in 1..MaxLimit, AddWorkers(m, count) \/ RemoveWorkers(m, count)
        PROVE  UNCHANGED Pool!vars
    <2>1. Phase' = Phase
      BY <1>5 DEF AddWorkers, RemoveWorkers, Phase
    <2>. QED BY <1>5, <2>1, StutterOf DEF AddWorkers, RemoveWorkers, history
  <1>6. ASSUME NEW and_join \in BOOLEAN, Stop(m, and_join)
        PROVE  Pool!Next
    <2>1. /\ Phase = "open" /\ UNCHANGED <<Executing, fresh, done>>
          /\ IF and_join THEN UNCHANGED <<tasks, dropped>>
                         ELSE tasks' = <<>> /\ dropped' = dropped \cup Queued
      BY <1>0, <1>6 DEF Stop, Phase
    <2>2. Pool!Queued = Queued
      BY DEF Pool!Queued, Queued
    <2>3. CASE KillReturns(active_workers) /\ state' = "IDLE"
      <3>1. Executing = {} /\ owed' = {}
        BY <1>6, <2>3, StopReturnsAtOnce, NobodyExecutes DEF Stop
      <3>2. Phase' = "closed"
        BY <2>3 DEF Phase
      <3>. QED BY <2>1, <2>2, <3>1, <3>2 DEF Pool!Next, Pool!CloseWithoutWorkers, Pool!Discard
    <2>4. CASE KillBlocks(m, active_workers, "stopping") /\ state' = "STOPPING"
      <3>1. owed' = Executing \cup (IF and_join THEN Queued ELSE {})
        BY <1>6, <2>4 DEF Stop, KillBlocks
      <3>2. Phase' = "closing"
        BY <2>4 DEF Phase
      <3>. QED BY <2>1, <2>2, <3>1, <3>2 DEF Pool!Next, Pool!BeginClose, Pool!Discard
    <2>. QED BY <1>6, <2>3, <2>4 DEF Stop
  <1>. QED BY <1>1, <1>2, <1>3, <1>4, <1>5, <1>6 DEF ManagerStep

LEMMA ClientRefines ==
    ASSUME PromiseInv, TypeOK', ClientStep
    PROVE  Pool!Next
  <1> USE DEF PromiseInv, CrewInv
  <1>1. Phase' = Phase /\ Executing' = Executing /\ Pool!Queued = Queued
    BY DEF ClientStep, Clear, PushBack, PushFront, Phase, Executing, At, Pool!Queued, Queued
  <1>2. CASE Clear
    BY <1>1, <1>2 DEF Clear, Pool!Next, Pool!Clear, Pool!Discard
  <1>3. ASSUME NEW t \in Tasks, PushBack(t) \/ PushFront(t)
        PROVE  Pool!Next
    <2>1. Pool!Submit(t)
      BY <1>1, <1>3 DEF PushBack, PushFront, MayPush, Pool!Submit
    <2>. QED BY <2>1 DEF Pool!Next
  <1>. QED BY <1>2, <1>3 DEF ClientStep

LEMMA WorkerRefines ==
    ASSUME PromiseInv, TypeOK', OneManager, NEW w \in Workers, WorkerStep(w)
    PROVE  Pool!Next \/ UNCHANGED Pool!vars
  <1> USE DEF PromiseInv, CrewInv
  <1>0. Phase' = Phase
    BY DEF WorkerStep, Enter, Loop, Awake, Decide, Finish, SpuriousWorker, Phase
  <1>1. CASE Enter(w) \/ SpuriousWorker(w)
    BY <1>0, <1>1, StutterOf DEF Enter, SpuriousWorker, history
  <1>2. CASE Finish(w)
    <2>1. task[w] \in Executing /\ Executing = InHand /\ InHand' = InHand \ {task[w]}
      BY <1>2, TaskFinished, ExecutingIsInHand
    <2>2. At("exec")' = At("exec") \ {w} /\ \A u \in At("exec")' : task'[u] = task[u]
      BY <1>2 DEF Finish, At, TypeOK
    <2>3. Executing' = Executing \ {task[w]}
      BY <1>2, <2>2 DEF Executing, Finish, At, Conserved, TypeOK
    <2>4. Pool!Finish(task[w])
      BY <1>0, <1>2, <2>1, <2>3 DEF Finish, Pool!Finish
    <2>5. task[w] \in Tasks
      BY <2>1, ExecutingIsInHand
    <2>. QED BY <2>4, <2>5 DEF Pool!Next
  <1>3. CASE Loop(w) \/ Awake(w)
    <2> PICK idle : Decide(w, idle)
      BY <1>3 DEF Loop, Awake
    <2>0. wpc[w] \in {"loop", "wait"}
      BY <1>3 DEF Loop, Awake
    <2>1. CASE Sleep(w, idle) \/ Leave(w, idle)
      BY <1>0, <2>1, StutterOf DEF Decide, Sleep, Leave, history
    <2>2. CASE Take(w, idle)
      <3>1. Phase # "closed"
        <4>1. state = "IDLE" => worker_count = 0
          BY CrewConsequences DEF IdlePoolIsEmpty, StartAssertions
        <4>2. worker_count # 0
          BY <2>0, NobodyExecutes DEF Entered, At
        <4>. QED BY <4>1, <4>2 DEF Phase, TypeOK
      <3>2. /\ At("exec")' = At("exec") \cup {w}
            /\ \A u \in At("exec") : u # w /\ task'[u] = task[u]
            /\ task'[w] = Head(tasks)
        BY <2>0, <2>2 DEF Take, At, TypeOK
      <3>3. Executing' = Executing \cup {Head(tasks)}
        BY <3>2 DEF Executing
      <3>4. Pool!HandOut
        BY <1>0, <2>2, <3>1, <3>3 DEF Decide, Take, Rest, history, Pool!HandOut
      <3>. QED BY <3>4 DEF Pool!Next
    <2>. QED BY <2>1, <2>2 DEF Decide
  <1>. QED BY <1>1, <1>2, <1>3 DEF WorkerStep

\* The pool implements the promise of module TaskPool.
THEOREM PoolKeepsItsPromise == ASSUME OneManager PROVE Spec => PoolSpec
  <1>1. Init => Pool!Init
    BY DEF Init, Pool!Init, Phase, Executing, At
  <1>2. PromiseInv /\ TypeOK' /\ [Next]_vars => [Pool!Next]_Pool!vars
    <2> SUFFICES ASSUME PromiseInv, TypeOK', [Next]_vars
                 PROVE  Pool!Next \/ UNCHANGED Pool!vars
      OBVIOUS
    <2>1. CASE UNCHANGED vars
      <3>1. Phase' = Phase /\ PromiseInv
        BY <2>1 DEF vars, Phase
      <3>. QED BY <2>1, <3>1, StutterOf DEF vars, history, PromiseInv, CrewInv
    <2>. QED BY <2>1, ManagerRefines, ClientRefines, WorkerRefines DEF Next
  <1>. QED BY <1>1, <1>2, PromiseInvariant, TypeCorrect, PTL DEF Spec, PoolSpec, Pool!Spec
=============================================================================
