------------------------------ MODULE Threads ------------------------------
(***************************************************************************)
(* zi::thread and the registry of all threads:                             *)
(* zi/concurrency/pthread/thread.hpp, detail/thread_info.hpp and           *)
(* detail/all_threads_data.hpp.                                            *)
(*                                                                         *)
(* Each thread_info has a mutex of its own and the registry has one; a     *)
(* step is one critical section of one of them, so that start(), ENTRY()   *)
(* and join() are several steps and anything may come in between.  Clients *)
(* start each thread once, and join threads whose object they hold.        *)
(***************************************************************************)
EXTENDS Naturals, FiniteSets

CONSTANTS AllThreads, Callers

ThreadsAssumption == IsFiniteSet(AllThreads) /\ IsFiniteSet(Callers)

VARIABLES
    state_, detached_,   \* thread_info
    pending_count_, running_count_, finished_count_, dying_, threads_,
    entry,               \* how far each thread is in ENTRY()
    call,                \* the call each caller is in, and on which thread
    state_cv_,           \* the callers asleep in join()
    dying_cv_,           \*   and in join_all()
    sleep_cv_            \* the threads asleep in this_thread::sleep()

registry == <<pending_count_, running_count_, finished_count_, dying_, threads_>>
waitqueues  == <<state_cv_, dying_cv_, sleep_cv_>>
thrVars == <<state_, detached_, registry, entry, call, waitqueues>>

Ready == [in |-> "none", of |-> {}]
In(c, m, t) == call[c] = [in |-> m, of |-> {t}]

RegistryInit ==
    /\ state_ = [t \in AllThreads |-> "CREATED"]
    /\ detached_ = [t \in AllThreads |-> FALSE]
    /\ pending_count_ = 0 /\ running_count_ = 0 /\ finished_count_ = 0
    /\ dying_ = FALSE /\ threads_ = {}
    /\ entry = [t \in AllThreads |-> "none"]
    /\ call = [c \in Callers |-> Ready]
    /\ state_cv_ = {} /\ dying_cv_ = {} /\ sleep_cv_ = {}

Moves(t, from, to) == state_' = [state_ EXCEPT ![t] = IF @ = from THEN to ELSE @]
Enters(t, x) == entry' = [entry EXCEPT ![t] = x]
CallsOn(c, m, t) == call' = [call EXCEPT ![c] = [in |-> m, of |-> {t}]]
CallReturns(c) == call' = [call EXCEPT ![c] = Ready]

-----------------------------------------------------------------------------
(* start(): the registry is told first, then the object, then the thread   *)
(* is created.                                                             *)

\* (An operator whose comment begins "Broken:" is a wrong version of the one
\* that follows it; no specification uses it.)

\* Broken: the registry is not told of a thread that is about to start.
RegisterNothing(c, t) ==
    /\ call[c] = Ready /\ state_[t] = "CREATED"
    /\ \A d \in Callers : ~In(d, "initialize", t)
    /\ CallsOn(c, "initialize", t)
    /\ UNCHANGED <<state_, detached_, registry, entry, waitqueues>>

RegisterPending(c, t) ==
    /\ call[c] = Ready /\ state_[t] = "CREATED"
    /\ \A d \in Callers : ~In(d, "initialize", t)
    /\ pending_count_' = pending_count_ + 1
    /\ CallsOn(c, "initialize", t)
    /\ UNCHANGED <<state_, detached_, running_count_, finished_count_, dying_, threads_, entry, waitqueues>>

Initialize(c, t, detached) ==
    /\ In(c, "initialize", t)
    /\ Moves(t, "CREATED", "INITIALIZED")
    /\ detached_' = [detached_ EXCEPT ![t] = detached]
    /\ CallsOn(c, "create", t)
    /\ UNCHANGED <<registry, entry, waitqueues>>

Create(c, t) ==
    /\ In(c, "create", t)
    /\ Enters(t, "on_before_start")
    /\ CallReturns(c)
    /\ UNCHANGED <<state_, detached_, registry, waitqueues>>

-----------------------------------------------------------------------------
(* ENTRY().                                                                *)

OnBeforeStart(t) ==
    /\ entry[t] = "on_before_start"
    /\ Moves(t, "INITIALIZED", "STARTING")
    /\ Enters(t, "register_started")
    /\ UNCHANGED <<detached_, registry, call, waitqueues>>

RegisterStarted(t) ==
    /\ entry[t] = "register_started"
    /\ threads_' = threads_ \cup {t}
    /\ running_count_' = running_count_ + 1
    /\ pending_count_' = pending_count_ - 1
    /\ Enters(t, "run")
    /\ UNCHANGED <<state_, detached_, finished_count_, dying_, call, waitqueues>>

RunBegins(t) ==
    /\ entry[t] = "run"
    /\ Moves(t, "STARTING", "RUNNING")
    /\ Enters(t, IF state_[t] = "STARTING" THEN "execute" ELSE "register_finished")
    /\ UNCHANGED <<detached_, registry, call, waitqueues>>

\* this_thread::sleep().  (get_thread searches the map without the registry's
\* mutex; when it finds nothing the thread sleeps where wake() cannot reach.)
SleepThread(t) ==
    /\ entry[t] = "execute"
    /\ state_[t] = "RUNNING"
    /\ state_' = [state_ EXCEPT ![t] = "SLEEPING"]
    /\ sleep_cv_' = sleep_cv_ \cup {t}
    /\ Enters(t, "sleep")
    /\ UNCHANGED <<detached_, registry, call, state_cv_, dying_cv_>>

\* The time is over, or the wait returns by itself.
SleepIsOver(t) ==
    /\ t \in sleep_cv_
    /\ sleep_cv_' = sleep_cv_ \ {t}
    /\ UNCHANGED <<state_, detached_, registry, entry, call, state_cv_, dying_cv_>>

\* Broken: state_ stays SLEEPING.
SleepReturnsSleeping(t) ==
    /\ entry[t] = "sleep" /\ t \notin sleep_cv_
    /\ Enters(t, "execute")
    /\ UNCHANGED <<state_, detached_, registry, call, waitqueues>>

SleepReturns(t) ==
    /\ entry[t] = "sleep" /\ t \notin sleep_cv_
    /\ Moves(t, "SLEEPING", "RUNNING")
    /\ Enters(t, "execute")
    /\ UNCHANGED <<detached_, registry, call, waitqueues>>

RunEnds(t) ==
    /\ entry[t] = "execute"
    /\ Moves(t, "RUNNING", "JOINING")
    /\ Enters(t, "register_finished")
    /\ UNCHANGED <<detached_, registry, call, waitqueues>>

\* Broken: the last thread but one wakes join_all().
NotifyDyingEarly == dying_ /\ running_count_ = 2

NotifyDying == dying_ /\ running_count_ = 1

RegisterFinished(t) ==
    /\ entry[t] = "register_finished"
    /\ threads_' = threads_ \ {t}
    /\ running_count_' = running_count_ - 1
    /\ finished_count_' = finished_count_ + 1
    /\ dying_cv_' = IF NotifyDying THEN {} ELSE dying_cv_
    /\ Enters(t, "on_before_join")
    /\ UNCHANGED <<state_, detached_, pending_count_, dying_, call, state_cv_, sleep_cv_>>

OnBeforeJoin(t) ==
    /\ entry[t] = "on_before_join"
    /\ Moves(t, "JOINING", "JOINED")
    /\ state_cv_' = IF state_[t] = "JOINING"
                    THEN {c \in state_cv_ : ~In(c, "join", t)} ELSE state_cv_
    /\ Enters(t, "over")
    /\ UNCHANGED <<detached_, registry, call, dying_cv_, sleep_cv_>>

-----------------------------------------------------------------------------
(* What clients do with a thread, and with all of them.                    *)

JoinEnds(t) == detached_[t] \/ state_[t] = "JOINED"

\* join(), from its start or after a wait.
Join(c, t) ==
    /\ call[c] = Ready \/ (In(c, "join", t) /\ c \notin state_cv_)
    /\ \/ JoinEnds(t) /\ CallReturns(c) /\ UNCHANGED state_cv_
       \/ ~JoinEnds(t) /\ CallsOn(c, "join", t) /\ state_cv_' = state_cv_ \cup {c}
    /\ UNCHANGED <<state_, detached_, registry, entry, dying_cv_, sleep_cv_>>

\* Before initialize() it is in vain: start() sets the flag anew.
Detach(t) ==
    /\ detached_' = [detached_ EXCEPT ![t] = TRUE]
    /\ state_cv_' = {c \in state_cv_ : ~In(c, "join", t)}
    /\ UNCHANGED <<state_, registry, entry, call, dying_cv_, sleep_cv_>>

Wake(t) ==
    /\ state_[t] = "SLEEPING" /\ t \in sleep_cv_
    /\ sleep_cv_' = sleep_cv_ \ {t}
    /\ UNCHANGED <<state_, detached_, registry, entry, call, state_cv_, dying_cv_>>

\* Broken: a thread that is not yet running is not waited for.
RunningOnly == running_count_ = 0

NoneLeft == running_count_ = 0 /\ pending_count_ = 0

\* join_all(), from its start or after a wait.
JoinAll(c) ==
    /\ \/ call[c] = Ready
       \/ call[c].in = "join_all" /\ c \notin dying_cv_
    /\ dying_' = TRUE
    /\ \/ NoneLeft /\ CallReturns(c) /\ UNCHANGED dying_cv_
       \/ /\ ~NoneLeft
          /\ call' = [call EXCEPT ![c] = [in |-> "join_all", of |-> {}]]
          /\ dying_cv_' = dying_cv_ \cup {c}
    /\ UNCHANGED <<state_, detached_, pending_count_, running_count_, finished_count_,
                   threads_, entry, state_cv_, sleep_cv_>>

WakesByItself(c) ==
    /\ c \in state_cv_ \cup dying_cv_
    /\ state_cv_' = state_cv_ \ {c} /\ dying_cv_' = dying_cv_ \ {c}
    /\ UNCHANGED <<state_, detached_, registry, entry, call, sleep_cv_>>

-----------------------------------------------------------------------------
Entry(t) ==
    \/ OnBeforeStart(t) \/ RegisterStarted(t) \/ RunBegins(t)
    \/ SleepIsOver(t) \/ SleepReturns(t) \/ RunEnds(t)
    \/ RegisterFinished(t) \/ OnBeforeJoin(t)

StartThread(c, t) ==
    \/ RegisterPending(c, t) \/ Create(c, t)
    \/ \E detached \in BOOLEAN : Initialize(c, t, detached)

RegistryNext ==
    \/ \E t \in AllThreads : Entry(t) \/ SleepThread(t) \/ Detach(t) \/ Wake(t)
    \/ \E c \in Callers : JoinAll(c) \/ WakesByItself(c) \/ \E t \in AllThreads : StartThread(c, t) \/ Join(c, t)

RegistrySpec == RegistryInit /\ [][RegistryNext]_thrVars

\* A thread that can run does, and what it executes ends (so that RunEnds is
\* taken although it could sleep once more); nobody has to make a call.
RegistryFairness ==
    /\ \A t \in AllThreads : WF_thrVars(Entry(t)) /\ SF_thrVars(RunEnds(t))
    /\ \A c \in Callers : \A t \in AllThreads :
          /\ WF_thrVars(call[c] # Ready /\ (StartThread(c, t) \/ Join(c, t)))
          /\ WF_thrVars(call[c] # Ready /\ JoinAll(c))

FairRegistry == RegistrySpec /\ RegistryFairness

-----------------------------------------------------------------------------
In_(S) == {t \in AllThreads : entry[t] \in S}
Coming == {t \in AllThreads : \E c \in Callers : In(c, "initialize", t) \/ In(c, "create", t)}

RegistryTypes ==
    /\ state_ \in [AllThreads -> {"CREATED", "INITIALIZED", "STARTING", "RUNNING",
                               "SLEEPING", "JOINING", "JOINED"}]
    /\ detached_ \in [AllThreads -> BOOLEAN] /\ dying_ \in BOOLEAN
    /\ pending_count_ \in Nat /\ running_count_ \in Nat /\ finished_count_ \in Nat
    /\ threads_ \subseteq AllThreads
    /\ entry \in [AllThreads -> {"none", "on_before_start", "register_started", "run", "execute",
                              "sleep", "register_finished", "on_before_join", "over"}]
    /\ call \in [Callers -> [in : {"none", "initialize", "create", "join", "join_all"},
                              of : SUBSET AllThreads]]
    /\ state_cv_ \subseteq {c \in Callers : call[c].in = "join"}
    /\ dying_cv_ \subseteq {c \in Callers : call[c].in = "join_all"}
    /\ sleep_cv_ \subseteq In_({"sleep"})

\* Each thread whose start() has told the registry is in one count of it until
\* it has unregistered (all_threads_data.hpp:96-138): there is no moment at
\* which a thread exists and join_all() does not know of it.
Counted ==
    /\ pending_count_ = Cardinality(Coming \cup In_({"on_before_start", "register_started"}))
    /\ threads_ = In_({"run", "execute", "sleep", "register_finished"})
    /\ running_count_ = Cardinality(threads_)
    /\ finished_count_ = Cardinality(In_({"on_before_join", "over"}))

ReturnsOnlyAfterTheEnd ==
    \A c \in Callers :
        /\ \A t \in AllThreads :
              In(c, "join", t) /\ call'[c] = Ready /\ ~detached_[t] => entry[t] = "over"
        /\ call[c].in = "join_all" /\ call'[c] = Ready
              => Coming = {} /\ In_({"none", "on_before_join", "over"}) = AllThreads

\* join() (thread_info.hpp:277-296) returns when the thread has left its
\* runnable for good and has unregistered, unless the thread is detached;
\* join_all() (all_threads_data.hpp:77-94), with which the destructor of the
\* registry begins, when no thread executes anything and none will.
JoinsWaitForTheEnd == [][ReturnsOnlyAfterTheEnd]_thrVars

\* Every join() of a thread that has been started returns, and so does every
\* join_all(): whoever ends last wakes the right ones.
JoinsReturn ==
    \A c \in Callers :
        (\/ call[c].in = "join_all"
         \/ \E t \in AllThreads : In(c, "join", t) /\ state_[t] # "CREATED") ~> call[c] = Ready

=============================================================================
