----------------------------- MODULE MCThreads -----------------------------
(* Instances for TLC of the reader-writer mutex, of the threads with their  *)
(* registry, of the pool of workers with one manager, and of the programs   *)
(* that test the concurrency library; one of them is used in a behaviour.   *)
(* Of the mutex either every timed call is made, or only that of readers,   *)
(* so that all who wait for the lock go on waiting until they have it.      *)
EXTENDS TaskManager, RWMutex, Threads

CONSTANTS c1, c2, c3, w1, w2, w3, t1, t2

ThreeThreads == {c1, c2, c3}

\* Two threads, and two that call join() and join_all().
TwoThreads == {c1, c2}
TwoCallers == {"caller1", "caller2"}

OneManager   == {"manager"}
ThreeWorkers == {w1, w2, w3}
TwoTasks     == {t1, t2}
WorkersOnly  == {"workers"}

EveryCall    == {"read", "write", "undecided"}
ReadCalls    == {"read"}
ToldFalse    == {FALSE}

VARIABLES
    used,   \* what is used: the mutex, the threads, the pool, or a test
    test, program, mainAt, testAt, tick, held, mem, own, dozing, queue, done_tasks, passed

testVars == <<test, program, mainAt, testAt, tick, held, mem, own, dozing, queue, done_tasks, passed>>

ASSUME RegistryAssumption == ThreadsAssumption

Tests == INSTANCE ConcurrencyTests WITH Times <- 3, Shift <- 100

NoTest ==
    /\ test = "none" /\ program = "none" /\ mainAt = "over" /\ testAt = <<>> /\ tick = 0
    /\ held = Tests!Free /\ mem = <<>> /\ own = <<>> /\ dozing = {} /\ queue = {}
    /\ done_tasks = <<>> /\ passed = TRUE

MCInit ==
    /\ used \in {"mutex", "threads", "pool", "tests"}
    /\ timed_calls \in IF used = "mutex" THEN {EveryCall, ReadCalls} ELSE {{}}
    /\ LockInit /\ RegistryInit /\ Init
    /\ IF used = "tests" THEN Tests!TestInit ELSE NoTest

\* The test is over.
Ended == used = "tests" /\ mainAt = "over" /\ UNCHANGED <<lockVars, thrVars, vars, testVars>>

MCNext ==
    /\ UNCHANGED used
    /\ \/ used = "mutex" /\ LockNext /\ UNCHANGED <<thrVars, vars, testVars>>
       \/ used = "threads" /\ RegistryNext /\ UNCHANGED <<lockVars, vars, testVars>>
       \/ used = "pool" /\ Next /\ UNCHANGED <<lockVars, thrVars, testVars>>
       \/ used = "tests" /\ Tests!TestNext /\ UNCHANGED <<lockVars, thrVars, vars>>
       \/ Ended

MCVars == <<used, lockVars, thrVars, vars, testVars>>

MCSpec ==
    /\ MCInit /\ [][MCNext]_MCVars
    /\ LockFairness /\ RegistryFairness /\ Fairness /\ Tests!TestFairness

-----------------------------------------------------------------------------
\* src/zi/concurrency/test: see ConcurrencyTests.
ExpectationsHold == Tests!ExpectationsHold

\* Everyone who waits for the mutex gets in (rwmutex_impl.hpp:60-283), join()
\* and join_all() return (thread_info.hpp:277-296, all_threads_data.hpp:77-94),
\* and every test ends.
EveryoneComesThrough ==
    /\ EveryoneGetsIn
    /\ JoinsReturn
    /\ Tests!TestsEnd
=============================================================================
