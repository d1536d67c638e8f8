------------------------------ MODULE Monitor ------------------------------
(***************************************************************************)
(* zi::monitor and its guard, zi/concurrency/monitor.hpp.  The wait        *)
(* functions (wait_for, wait_gte, ...) are one loop with different         *)
(* conditions; here a thread waits for value >= Need, takes Need of it and *)
(* leaves, or puts something in and leaves.  What it does under the mutex  *)
(* is a step; the guard's destructor then unlocks, and reads waiters_ and  *)
(* notifies in a step of its own.                                          *)
(***************************************************************************)
EXTENDS Naturals, FiniteSets

CONSTANTS
    Threads,
    Need,        \* what each thread waits for
    Puts,        \* what may be put in
    MaxValue,    \* bounds the value
    MaxWaiters   \* bounds waiters_, which each timed wait increments for good

\* What is asked of the constants.
MonitorAssumption ==
    /\ IsFiniteSet(Threads)
    /\ Need \in Nat \ {0} /\ Puts \subseteq Nat \ {0}
    /\ MaxValue \in Nat /\ MaxWaiters \in Nat

VARIABLES
    value,     \* what the monitor guards
    waiters,
    asleep,    \* the threads asleep on cv_
    at         \* where each thread is

vars == <<value, waiters, asleep, at>>

Init == value = 0 /\ waiters = 0 /\ asleep = {} /\ at = [t \in Threads |-> "none"]

Becomes(t, x) == at' = [at EXCEPT ![t] = x]
Awake(t, call) == at[t] = call /\ t \notin asleep

Take(t) == value >= Need /\ value' = value - Need /\ Becomes(t, "leaving") /\ UNCHANGED asleep
Sleep(t, call) ==
    /\ value < Need
    /\ asleep' = asleep \cup {t} /\ Becomes(t, call) /\ UNCHANGED value

WaitFor(t) ==
    /\ at[t] = "none"
    /\ \/ Take(t) /\ UNCHANGED waiters
       \/ Sleep(t, "wait") /\ waiters < MaxWaiters /\ waiters' = waiters + 1

\* The loop: waiters_ is decremented, and incremented again before it sleeps.
Woken(t) ==
    /\ Awake(t, "wait")
    /\ \/ Take(t) /\ waiters' = waiters - 1
       \/ Sleep(t, "wait") /\ UNCHANGED waiters

TimedWait(t) ==
    /\ at[t] = "none"
    /\ waiters < MaxWaiters /\ waiters' = waiters + 1
    /\ Sleep(t, "timed")

\* timed_wait returns before it decrements waiters_; the caller takes what is
\* there or goes away.
TimedWaitReturns(t) ==
    /\ Awake(t, "timed")
    /\ \/ Take(t)
       \/ value < Need /\ Becomes(t, "leaving") /\ UNCHANGED <<value, asleep>>
    /\ UNCHANGED waiters

Put(t, n) ==
    /\ at[t] = "none" /\ value + n <= MaxValue
    /\ value' = value + n /\ Becomes(t, "leaving")
    /\ UNCHANGED <<waiters, asleep>>

NotifyOne == IF asleep = {} THEN UNCHANGED asleep ELSE \E t \in asleep : asleep' = asleep \ {t}

\* (An operator whose comment begins "Broken:" is a wrong version of the one
\* that follows it; no specification uses it.)

\* Broken: a single waiter is not worth a notification.
LeaveUnlessMany(t) ==
    /\ at[t] = "leaving" /\ Becomes(t, "none")
    /\ IF waiters > 1 THEN NotifyOne ELSE UNCHANGED asleep
    /\ UNCHANGED <<value, waiters>>

\* The guard's destructor, after it has unlocked.
Leave(t) ==
    /\ at[t] = "leaving" /\ Becomes(t, "none")
    /\ IF waiters > 0 THEN NotifyOne ELSE UNCHANGED asleep
    /\ UNCHANGED <<value, waiters>>

\* A timed wait runs out; any wait may return by itself.
WakeUp(t) == t \in asleep /\ asleep' = asleep \ {t} /\ UNCHANGED <<value, waiters, at>>

Next ==
    \E t \in Threads :
       \/ WaitFor(t) \/ Woken(t) \/ TimedWait(t) \/ TimedWaitReturns(t) \/ Leave(t) \/ WakeUp(t)
       \/ \E n \in Puts : Put(t, n)

Spec == Init /\ [][Next]_vars

Fairness == \A t \in Threads : WF_vars(Woken(t) \/ TimedWaitReturns(t) \/ Leave(t))

-----------------------------------------------------------------------------

TypeOK ==
    /\ value \in 0 .. MaxValue /\ waiters \in 0 .. MaxWaiters
    /\ asleep \subseteq {t \in Threads : at[t] \in {"wait", "timed"}}
    /\ at \in [Threads -> {"none", "wait", "timed", "leaving"}]

\* Nobody sleeps beside what it waits for unless somebody is on the way who
\* takes it, or leaves and wakes the next one: a notification that goes to a
\* timed wait that has run out, or to one of many when there is enough for
\* several, is passed on (monitor::guard's destructor).
NotificationsArePassedOn ==
    (asleep # {} /\ value >= Need) =>
        \E t \in Threads : at[t] = "leaving" \/ Awake(t, "wait") \/ Awake(t, "timed")

\* What somebody waits for is taken.
WaitersAreServed ==
    LET waiting == \E t \in Threads : at[t] \in {"wait", "timed"}
    IN  (value >= Need /\ waiting) ~> (value < Need \/ ~waiting)
=============================================================================
