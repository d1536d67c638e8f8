-------------------------- MODULE ConcurrencyTests --------------------------
(***************************************************************************)
(* The programs of src/zi/concurrency/test, for every order in which their *)
(* threads may run; the objects they use do what the modules about them    *)
(* say.  (That of event_test.cpp is Event.)  A test is a main and a team   *)
(* of threads.  A thread that has been started and has not yet run is like *)
(* one that has not been started, so that all are there from the           *)
(* beginning, whatever the main does between two starts.                   *)
(*                                                                         *)
(* this_thread::sleep of a main lasts until the others are at rest, which  *)
(* is what the tests expect of it; time passes only when everyone waits.   *)
(***************************************************************************)
EXTENDS Integers, Sequences, FiniteSets

CONSTANTS
    Times,      \* how often the tests' loops run: 1000, 10000, 4000 or 100 times
    Shift       \* 2^48 of priority_task_container; greater than what is ever inserted

VARIABLES
    test,       \* the test that runs
    program,    \* the periodic function of a test that has one
    mainAt, testAt,     \* where the main and each thread are
    tick,       \* rounds, releases or insertions of the main, or the time
    held,       \* the lock: owner and depth, and the readers
    mem,        \* what the threads share
    own,        \* and what each has for itself
    dozing,     \* those asleep on the condition variable
    queue, done_tasks,  \* the tasks that wait, and those done, in their order
    passed      \* no expectation has failed

testVars == <<test, program, mainAt, testAt, tick, held, mem, own, dozing, queue, done_tasks, passed>>

CvTests    == {"NotifyAll", "NotifyOne", "NotifyMixed"}
MutexTests == {"MutexAll", "RecursiveMutex"}
SemTests   == {"Semaphore", "Semaphore2"}
RwTests    == {"RWMutex", "LotsOfReaders"}
FnTests    == {"PeriodicEnds", "PeriodicStop"}
TaskTests  == {"SimpleTaskManager", "Prioritized", "Prioritized2", "StopClear"}

Testers == 1 .. 4
Team == CASE test \in FnTests \cup {"Prioritized", "Prioritized2"} -> {1}
          [] test \in RwTests \cup {"NotifyMixed"} -> 1 .. 3
          [] test = "Semaphore" -> Testers
          [] OTHER -> 1 .. 2

Free     == [owner |-> 0, depth |-> 0, readers |-> {}]
Main     == 5      \* the main as an owner or a reader of the lock
Fresh    == [n |-> 0, z |-> 0, l |-> FALSE]
Goes(t, x) == testAt' = [testAt EXCEPT ![t] = x]
AllAre(x)  == \A t \in Team : testAt[t] = x

-----------------------------------------------------------------------------
(* condition_variable_test.cpp                                             *)

StillDozing ==
    IF test = "NotifyOne" /\ dozing # {} THEN {dozing \ {t} : t \in dozing} ELSE {{}}

\* cv_tester and cv_tester2: what run() does between taking the mutex, or coming
\* back from the wait, and the next wait or the end.
TurnOfTwo(t) ==
    /\ test \in {"NotifyAll", "NotifyOne"} /\ testAt[t] \in {"ready", "waiting"} /\ t \notin dozing
    /\ mem' = [mem EXCEPT !.v = mem.v + 1, !.other = mem.v + 1,
                          !.ok = @ /\ (testAt[t] = "waiting" => mem.v = mem.other)]
    /\ \E still \in StillDozing :
           IF mem'.v < Times THEN dozing' = still \cup {t} /\ Goes(t, "waiting")
                             ELSE dozing' = still /\ Goes(t, "done")
    /\ UNCHANGED <<held, own>>

\* cv_tester3.  Here ok_ is what the last of the threads with l found.
TurnOfThree(t) ==
    /\ test = "NotifyMixed" /\ testAt[t] \in {"ready", "waiting"} /\ t \notin dozing
    /\ LET m == IF testAt[t] = "waiting" /\ own[t].l
                THEN [mem EXCEPT !.ok = own[t].z = mem.v, !.v = @ + 1, !.l = FALSE]
                ELSE mem
       IN  IF m.v < Times
           THEN /\ own' = [own EXCEPT ![t].z = m.v, ![t].l = ~ m.l]
                /\ mem' = [m EXCEPT !.l = TRUE]
                /\ dozing' = {t} /\ Goes(t, "waiting")
           ELSE /\ mem' = m /\ dozing' = {} /\ Goes(t, "done") /\ UNCHANGED own
    /\ UNCHANGED held

WakesByItself(t) ==
    /\ t \in dozing /\ dozing' = dozing \ {t}
    /\ UNCHANGED <<testAt, held, mem, own>>

-----------------------------------------------------------------------------
(* mutex_test.cpp.  A guard, and each kind of mutex and spinlock, is a     *)
(* lock that one thread has; the recursive ones may be taken again.        *)

LockIt(t) ==
    /\ \/ testAt[t] = "ready" /\ held.owner = 0
       \/ test = "RecursiveMutex" /\ testAt[t] = "counted" /\ own[t].n < Times
    /\ held' = [held EXCEPT !.owner = t, !.depth = @ + 1]
    /\ Goes(t, "locked") /\ UNCHANGED <<mem, own, dozing>>

ReadIt(t) ==
    /\ testAt[t] = "locked"
    /\ own' = [own EXCEPT ![t].z = mem.v]
    /\ Goes(t, "read") /\ UNCHANGED <<held, mem, dozing>>

WriteIt(t) ==
    /\ testAt[t] = "read"
    /\ mem' = [mem EXCEPT !.v = own[t].z + 1]
    /\ own' = [own EXCEPT ![t].n = @ + 1]
    /\ Goes(t, "counted") /\ UNCHANGED <<held, dozing>>

\* The recursive testers unlock as often as they have locked.
UnlockIt(t) ==
    /\ testAt[t] = "counted" /\ (test = "RecursiveMutex" => own[t].n = Times)
    /\ held' = IF held.depth = 1 THEN Free ELSE [held EXCEPT !.depth = @ - 1]
    /\ Goes(t, CASE held.depth > 1 -> "counted" [] own[t].n < Times -> "ready" [] OTHER -> "done")
    /\ UNCHANGED <<mem, own, dozing>>

MutexTester(t) == test \in MutexTests /\ (LockIt(t) \/ ReadIt(t) \/ WriteIt(t) \/ UnlockIt(t))

-----------------------------------------------------------------------------
(* semaphore_test.cpp: mem.other is the semaphore's credit.                *)

ToAcquire == IF test = "Semaphore" THEN 1 ELSE 2

SemaphoreTester(t) ==
    /\ test \in SemTests /\ testAt[t] = "ready"
    /\ IF own[t].n < ToAcquire
       THEN /\ mem.other > 0 /\ mem' = [mem EXCEPT !.other = @ - 1]
            /\ own' = [own EXCEPT ![t].n = @ + 1] /\ UNCHANGED testAt
       ELSE mem' = [mem EXCEPT !.v = @ + 1] /\ Goes(t, "done") /\ UNCHANGED own
    /\ UNCHANGED <<held, dozing>>

-----------------------------------------------------------------------------
(* rwmutex_test.cpp: mem.v is m, mem.other is n.                           *)

\* read_fn adds to m with no more than a read lock: readers that do so at the same
\* time may lose what the other has added.
BeginRead(t) ==
    /\ testAt[t] = "ready" /\ held.owner = 0
    /\ held' = [held EXCEPT !.readers = @ \cup {t}]
    /\ Goes(t, IF mem.other = 1 THEN "locked" ELSE "counted")
    /\ UNCHANGED <<mem, own, dozing>>

EndRead(t) ==
    /\ testAt[t] = "counted"
    /\ held' = [held EXCEPT !.readers = @ \ {t}]
    /\ Goes(t, "done") /\ UNCHANGED <<mem, own, dozing>>

\* write_fn, in a thread that the main of Test_RWMutex starts when the readers are done.
WriteFn(t) ==
    /\ testAt[t] = "ready to write" /\ held.owner = 0 /\ held.readers = {}
    /\ mem' = IF mem.v = Cardinality(Team) THEN [mem EXCEPT !.other = @ + 1] ELSE mem
    /\ Goes(t, "done") /\ UNCHANGED <<held, own, dozing>>

RwTester(t) ==
    test \in RwTests /\ (BeginRead(t) \/ ReadIt(t) \/ WriteIt(t) \/ EndRead(t) \/ WriteFn(t))

-----------------------------------------------------------------------------
(* periodic_function_test.cpp: mem.v is x, mem.other is v_ of pf_tester.   *)

\* interval_tpl::msecs() of nanoseconds; and the constructors of periodic_function,
\* which differ in what the arguments of f are bound to: in milliseconds or in an
\* interval, of a function or a member of an object.
Msecs(ns) == ns \div 1000000 + (IF ns % 1000000 > 500000 THEN 1 ELSE 0)

PeriodicFn(f, n, ms) == [f |-> f, n |-> n, timeout |-> ms, v_ |-> 0]
PeriodicFnEvery(f, n, ns) == PeriodicFn(f, n, Msecs(ns))
PeriodicMember(f, object, n, ms) == [f |-> f, n |-> n, timeout |-> ms, v_ |-> object]
PeriodicConstMember(f, object, n, ms) == PeriodicMember(f, object, n, ms)
PeriodicMemberEvery(f, object, n, ns) == PeriodicMember(f, object, n, Msecs(ns))

Programs == {PeriodicFn("three_times_fn", 3, 1),
             PeriodicMember("doit", 3, 3, 1), PeriodicConstMember("doit_c", 3, 3, 1)} \cup
            UNION {{PeriodicFnEvery("to_n_times", n, 1000000),
                    PeriodicMemberEvery("doit_n", 0, n, 1)} : n \in {4, 5}}

CallF(t) ==
    /\ testAt[t] = "ready"
    /\ LET f == program.f
           x == mem.v + 1
           v_ == mem.other + (CASE f \in {"doit", "doit_c"} -> -1 [] f = "doit_n" -> 1 [] OTHER -> 0)
           goesOn == CASE f \in {"three_times_fn", "to_n_times"} -> x < program.n
                       [] f \in {"doit", "doit_c"} -> v_ > 0
                       [] f = "doit_n" -> v_ < program.n
                       [] f = "just_return_true" -> TRUE
       IN  /\ mem' = [mem EXCEPT !.v = x, !.other = v_]
           /\ own' = [own EXCEPT ![t].z = tick + program.timeout]
           /\ Goes(t, IF goesOn THEN "sleeping" ELSE "done")
    /\ UNCHANGED <<held, dozing>>

IntervalOver(t) ==
    /\ testAt[t] = "sleeping" /\ tick >= own[t].z
    /\ Goes(t, "ready") /\ UNCHANGED <<held, mem, own, dozing>>

PeriodicThread(t) == test \in FnTests /\ (CallF(t) \/ IntervalOver(t))

-----------------------------------------------------------------------------
(* task_manager_test.cpp, and the container of the prioritized manager: a  *)
(* map from a key, which packs priority and arrival, to the task.  mem.v   *)
(* is cnt, mem.other is counter_, mem.l says that the workers run.         *)

Highest == 20
High    == 10
Normal  == 0
Low     == -10
Lowest  == -20
Custom(value) == value

\* The first of the tasks has the least key.
Front       == CHOOSE task \in queue : \A other \in queue : task.key <= other.key
WithoutFront == queue \ {Front}

\* Broken: the greater the value of the priority, the later the task.
PushAscending(priority, x) ==
    /\ queue' = queue \cup {[key |-> priority * Shift + mem.other + 1, x |-> x]}
    /\ mem' = [mem EXCEPT !.other = @ + 1]

\* push_front, and push_back, which calls it; the deque of the other tests' manager
\* does the same when all tasks are alike.
Push(priority, x) ==
    /\ queue' = queue \cup {[key |-> - (priority * Shift) + mem.other + 1, x |-> x]}
    /\ mem' = [mem EXCEPT !.other = @ + 1]

Task(priority, x) == [priority |-> priority, x |-> x]

\* One batch of tasks after the other.
InTurn(batches) ==
    LET each == Len(batches[1])
    IN  [k \in 1 .. Times * each |-> batches[1 + (k - 1) \div each][1 + ((k - 1) % each)]]

SimpleTasks      == InTurn([i \in 1 .. Times |-> <<Task(Normal, i)>>])
PrioritizedTasks ==
    InTurn([i \in 1 .. Times |->
        <<Task(Low, i), Task(High, i), Task(Normal, i), Task(Lowest, i), Task(Highest, i),
          Task(Custom(5), i), Task(Custom(-5), i)>>])
GroupedTasks ==
    InTurn([i \in 1 .. Times |->
        <<Task(Normal, 3), Task(Custom(5), 2), Task(High, 1), Task(Highest, 0)>>])
    \o InTurn([i \in 1 .. Times |-> <<Task(Lowest, 6), Task(Low, 5), Task(Custom(-5), 4)>>])

Insertions == CASE test = "Prioritized"  -> PrioritizedTasks
                [] test = "Prioritized2" -> GroupedTasks
                [] OTHER -> SimpleTasks

TakeTask(w) ==
    /\ testAt[w] = "ready" /\ mem.l /\ queue # {}
    /\ own' = [own EXCEPT ![w].n = Front.x] /\ queue' = WithoutFront
    /\ Goes(w, "has a task") /\ UNCHANGED <<held, mem, done_tasks>>

\* inc_by and inc_by_and_insert, up to their sleep and from there on.
DoubleCnt(w) ==
    /\ testAt[w] = "has a task" /\ held.owner = 0
    /\ held' = [held EXCEPT !.owner = w, !.depth = 1]
    /\ mem' = [mem EXCEPT !.v = 2 * @]
    /\ Goes(w, "sleeping") /\ UNCHANGED <<own, queue, done_tasks>>

IncBy(w) ==
    /\ testAt[w] = "sleeping"
    /\ mem' = [mem EXCEPT !.v = @ \div 2 + own[w].n]
    /\ done_tasks' = Append(done_tasks, own[w].n)
    /\ held' = Free
    /\ Goes(w, "ready") /\ UNCHANGED <<own, queue>>

Worker(w) ==
    test \in TaskTests /\ (TakeTask(w) \/ DoubleCnt(w) \/ IncBy(w)) /\ UNCHANGED dozing

-----------------------------------------------------------------------------
(* The mains.                                                              *)

Turn(t) ==
    /\ \/ /\ TurnOfTwo(t) \/ TurnOfThree(t) \/ MutexTester(t) \/ SemaphoreTester(t)
             \/ RwTester(t) \/ PeriodicThread(t)
          /\ UNCHANGED <<queue, done_tasks>>
       \/ Worker(t)
    /\ UNCHANGED <<test, program, mainAt, tick, passed>>

AtRest == \A t \in Team : ~ ENABLED Turn(t)

Expect(it) == passed' = (passed /\ it)

MainGoes(x) == mainAt' = x

Start == CASE test \in CvTests \cup MutexTests \cup {"PeriodicEnds"} -> "join"
           [] test \in SemTests -> "release"
           [] test \in {"RWMutex", "PeriodicStop"} -> "sleep"
           [] test = "LotsOfReaders" -> "hold"
           [] OTHER -> "insert"

TestInit ==
    /\ test \in CvTests \cup MutexTests \cup SemTests \cup RwTests \cup FnTests \cup TaskTests
    /\ program \in CASE test = "PeriodicEnds" -> Programs
                     [] test = "PeriodicStop" -> {PeriodicFnEvery("just_return_true", 0, 200 * 1000000)}
                     [] OTHER -> {PeriodicFn("none", 0, 0)}
    /\ mainAt = Start
    /\ testAt = [t \in Testers |-> IF t \in Team THEN "ready" ELSE "unused"]
    /\ tick = 0
    /\ held = CASE test = "RWMutex" -> [Free EXCEPT !.readers = {Main}]
                [] test = "LotsOfReaders" -> [Free EXCEPT !.owner = Main]
                [] OTHER -> Free
    /\ mem = [v |-> 0, ok |-> TRUE, l |-> test \in {"SimpleTaskManager", "StopClear"},
              other |-> IF test \in RwTests THEN 1 ELSE program.v_]
    /\ own = [t \in Testers |-> Fresh]
    /\ dozing = {} /\ queue = {} /\ done_tasks = <<>> /\ passed = TRUE

\* The threads of Test_ConditionVariable* are started and joined again and again;
\* vold_, ok_, and what cv_tester3 has, stay.
AgainOrOver(m) ==
    /\ tick' = tick + 1
    /\ IF tick < 1
       THEN /\ testAt' = [t \in Testers |-> IF t \in Team THEN "ready" ELSE "unused"]
            /\ own' = [t \in Testers |-> Fresh] /\ mem' = m /\ UNCHANGED mainAt
       ELSE MainGoes("over") /\ UNCHANGED <<testAt, own, mem>>
    /\ UNCHANGED <<held, dozing, queue, done_tasks>>

JoinTwo ==
    /\ test \in {"NotifyAll", "NotifyOne"} /\ mainAt = "join" /\ AllAre("done")
    /\ Expect(mem.ok /\ mem.v = Times + 1)
    /\ AgainOrOver([mem EXCEPT !.v = 0])

JoinThree ==
    /\ test = "NotifyMixed" /\ mainAt = "join" /\ AllAre("done")
    /\ Expect(mem.ok)
    /\ AgainOrOver(mem)

\* Test_Spinlock, Test_RecursiveMutex, Test_MutexAll and Test_Guard.
JoinMutex ==
    /\ test \in MutexTests /\ mainAt = "join" /\ AllAre("done")
    /\ Expect(mem.v = Cardinality(Team) * Times)
    /\ MainGoes("over") /\ UNCHANGED <<testAt, tick, held, mem, own, dozing, queue, done_tasks>>

\* Two releases of two and four threads, for ten of ten and a hundred; one of four for
\* one of a hundred.
ReleaseCredit ==
    /\ test \in SemTests /\ mainAt = "release"
    /\ mem' = [mem EXCEPT !.other = @ + IF test = "Semaphore" THEN 2 ELSE 4]
    /\ tick' = tick + 1 /\ MainGoes("sleep")
    /\ UNCHANGED <<testAt, held, own, dozing, queue, done_tasks, passed>>

SleepAfterRelease ==
    /\ test \in SemTests /\ mainAt = "sleep" /\ AtRest
    /\ Expect(mem.v = IF test = "Semaphore" THEN tick * 2 ELSE 2)
    /\ MainGoes(IF test = "Semaphore" /\ tick < 2 THEN "release" ELSE "join")
    /\ UNCHANGED <<testAt, tick, held, mem, own, dozing, queue, done_tasks>>

JoinAllThreads ==
    /\ test \in SemTests /\ mainAt = "join" /\ AllAre("done") /\ MainGoes("over")
    /\ UNCHANGED <<testAt, tick, held, mem, own, dozing, queue, done_tasks, passed>>

\* Not that every reader has been counted, which the tests expect and which nothing
\* ensures: that one at least has, and none twice.
CountedSome == mem.v \in 1 .. Cardinality(Team)

SleepOverReaders ==
    /\ test = "RWMutex" /\ mainAt = "sleep" /\ AtRest
    /\ Expect(AllAre("done") /\ CountedSome)
    /\ held' = Free /\ testAt' = [testAt EXCEPT ![4] = "ready to write"] /\ MainGoes("join")
    /\ UNCHANGED <<tick, mem, own, dozing, queue, done_tasks>>

JoinWriter ==
    /\ test = "RWMutex" /\ mainAt = "join" /\ testAt[4] = "done"
    /\ Expect(CountedSome /\ (mem.other = 2) = (mem.v = Cardinality(Team)))
    /\ MainGoes("over") /\ UNCHANGED <<testAt, tick, held, mem, own, dozing, queue, done_tasks>>

LetReadersIn ==
    /\ test = "LotsOfReaders" /\ mainAt = "hold" /\ held' = Free /\ MainGoes("sleep")
    /\ UNCHANGED <<testAt, tick, mem, own, dozing, queue, done_tasks, passed>>

LookAfterReaders ==
    /\ test = "LotsOfReaders" /\ mainAt = "sleep" /\ AtRest /\ held.readers = {}
    /\ Expect(AllAre("done") /\ CountedSome) /\ MainGoes("over")
    /\ UNCHANGED <<testAt, tick, held, mem, own, dozing, queue, done_tasks>>

JoinPeriodic ==
    /\ test \in FnTests /\ mainAt = "join" /\ AllAre("done")
    /\ Expect(mem.v = IF test = "PeriodicEnds" THEN program.n ELSE 3)
    /\ MainGoes("over") /\ UNCHANGED <<testAt, tick, held, mem, own, dozing, queue, done_tasks>>

\* stop(), or the destructor, half a second after the start finds the function asleep.
StopPeriodic ==
    /\ test = "PeriodicStop" /\ mainAt = "sleep" /\ tick = 500 /\ AtRest
    /\ Goes(1, "done") /\ MainGoes("join")
    /\ UNCHANGED <<tick, held, mem, own, dozing, queue, done_tasks, passed>>

TimePasses ==
    /\ test \in FnTests /\ AtRest /\ testAt[1] = "sleeping"
    /\ tick' = IF mainAt = "sleep" /\ 500 < own[1].z THEN 500 ELSE own[1].z
    /\ tick' > tick
    /\ UNCHANGED <<mainAt, testAt, held, mem, own, dozing, queue, done_tasks, passed>>

\* The manager of the first test and of the last is started first, the others are when
\* all is in.
Insert ==
    /\ test \in TaskTests /\ mainAt = "insert"
    /\ IF tick < Len(Insertions)
       THEN /\ Push(Insertions[tick + 1].priority, Insertions[tick + 1].x)
            /\ tick' = tick + 1 /\ UNCHANGED mainAt
       ELSE /\ MainGoes(IF test = "StopClear" THEN "sleep" ELSE "join")
            /\ mem' = [mem EXCEPT !.l = TRUE] /\ UNCHANGED <<queue, tick>>
    /\ UNCHANGED <<testAt, held, own, dozing, done_tasks, passed>>

\* stop() clears the queue and waits for the tasks that are executed, after a sleep in
\* which any number may have been; start() begins anew.
StopTasks ==
    /\ test = "StopClear" /\ mainAt = "sleep"
    /\ queue' = {} /\ mem' = [mem EXCEPT !.l = FALSE] /\ MainGoes("stop")
    /\ UNCHANGED <<testAt, tick, held, own, dozing, done_tasks, passed>>

StartAgain ==
    /\ test = "StopClear" /\ mainAt = "stop" /\ AllAre("ready")
    /\ mem' = [mem EXCEPT !.l = TRUE] /\ MainGoes("join")
    /\ UNCHANGED <<testAt, tick, held, own, dozing, queue, done_tasks, passed>>

SumTo(n) == (n * (n + 1)) \div 2

JoinTasks ==
    /\ test \in TaskTests /\ mainAt = "join" /\ queue = {} /\ AllAre("ready")
    /\ Expect(CASE test = "SimpleTaskManager" -> mem.v = SumTo(Times)
                [] test = "Prioritized" ->
                       /\ mem.v = 7 * SumTo(Times)
                       /\ \A i \in DOMAIN done_tasks : done_tasks[i] = 1 + ((i - 1) % Times)
                [] test = "Prioritized2" ->
                       /\ mem.v = 21 * Times
                       /\ \A i \in DOMAIN done_tasks : done_tasks[i] = (i - 1) \div Times
                [] test = "StopClear" -> mem.v <= SumTo(Times))
    /\ MainGoes("over") /\ UNCHANGED <<testAt, tick, held, mem, own, dozing, queue, done_tasks>>

MainTurn ==
    /\ \/ JoinTwo \/ JoinThree \/ JoinMutex \/ ReleaseCredit \/ SleepAfterRelease \/ JoinAllThreads
       \/ SleepOverReaders \/ JoinWriter \/ LetReadersIn \/ LookAfterReaders
       \/ JoinPeriodic \/ StopPeriodic \/ TimePasses
       \/ Insert \/ StopTasks \/ StartAgain \/ JoinTasks
    /\ UNCHANGED <<test, program>>

WakeUp(t) ==
    WakesByItself(t) /\ UNCHANGED <<test, program, mainAt, tick, queue, done_tasks, passed>>

TestNext == MainTurn \/ \E t \in Testers : Turn(t) \/ WakeUp(t)

TestFairness == WF_testVars(MainTurn) /\ \A t \in Testers : WF_testVars(Turn(t))

-----------------------------------------------------------------------------
\* What the tests of condition variables, mutexes, semaphores, reader-writer mutexes,
\* periodic functions and task managers expect holds for every order of their threads
\* (EXPECT_EQ, EXPECT_TRUE and EXPECT_LT of src/zi/concurrency/test), but for the count
\* of readers.
ExpectationsHold == passed

\* Every test ends.
TestsEnd == <>(mainAt = "over")
=============================================================================
