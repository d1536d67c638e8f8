----------------------------- MODULE Semaphore -----------------------------
(***************************************************************************)
(* zi::semaphore, zi/concurrency/semaphore.hpp.  A step is one critical    *)
(* section of m_; a thread in asleep waits on cv_, a thread in acquire()   *)
(* or timed_acquire() that is not asleep has been woken and is on its way  *)
(* to the mutex.                                                           *)
(*                                                                         *)
(* Every acquire asks for the same Amount, as in the tests and in          *)
(* semaphore::guard: release() wakes as many threads as there is credit,   *)
(* whoever they are, and with different amounts it may wake one that has   *)
(* to sleep again in place of one that need not.                           *)
(***************************************************************************)
EXTENDS Integers, FiniteSets

CONSTANTS
    Threads,
    InitialCredit,
    Amount,     \* what each acquire asks for
    Released,   \* what a release may give back
    SetTo,      \* what set may be called with
    Timed,      \* whether timed_acquire is called, too (it asks for one)
    MaxCredit   \* bounds the credit: nobody releases or sets beyond it

\* What is asked of the constants.
SemaphoreAssumption ==
    /\ IsFiniteSet(Threads)
    /\ InitialCredit \in Nat /\ MaxCredit \in Nat
    /\ Amount \in Nat \ {0}
    /\ Released \subseteq Nat \ {0}
    /\ SetTo \subseteq 0 .. Amount    \* set() wakes one thread, whatever it is called with
    /\ Timed \in BOOLEAN /\ (Timed => Amount = 1)

VARIABLES
    credit, waiters,
    asleep,     \* the threads asleep on cv_
    timedout,   \* those whose timed_wait has run out
    at          \* the call each thread is in

vars == <<credit, waiters, asleep, timedout, at>>

Init ==
    /\ credit = InitialCredit /\ waiters = 0
    /\ asleep = {} /\ timedout = {}
    /\ at = [t \in Threads |-> "none"]

Awake(t, call) == at[t] = call /\ t \notin asleep
Becomes(t, x) == at' = [at EXCEPT ![t] = x]

Min2(a, b) == IF a < b THEN a ELSE b

\* Some n of those asleep are woken, or all when there are fewer.
Notify(n) ==
    \E woken \in SUBSET asleep :
       /\ Cardinality(woken) = Min2(n, Cardinality(asleep))
       /\ asleep' = asleep \ woken

-----------------------------------------------------------------------------

Take(t, n) == credit' = credit - n /\ Becomes(t, "none") /\ UNCHANGED asleep
Sleep(t, call) == asleep' = asleep \cup {t} /\ Becomes(t, call) /\ UNCHANGED credit

Acquire(t) ==
    /\ at[t] = "none"
    /\ \/ credit < Amount /\ Sleep(t, "acquire") /\ waiters' = waiters + 1
       \/ credit >= Amount /\ Take(t, Amount) /\ UNCHANGED waiters
    /\ UNCHANGED timedout

\* The loop in acquire goes round: waiters_ is decremented, and incremented
\* again if the thread has to sleep.
WokenInAcquire(t) ==
    /\ Awake(t, "acquire")
    /\ \/ credit < Amount /\ Sleep(t, "acquire") /\ UNCHANGED waiters
       \/ credit >= Amount /\ Take(t, Amount) /\ waiters' = waiters - 1
    /\ UNCHANGED timedout

TimedAcquire(t) ==
    /\ Timed /\ at[t] = "none"
    /\ \/ credit <= 0 /\ Sleep(t, "timed") /\ waiters' = waiters + 1
       \/ credit > 0 /\ Take(t, 1) /\ UNCHANGED waiters
    /\ UNCHANGED timedout

TimeOut(t) ==
    /\ at[t] = "timed" /\ t \in asleep
    /\ asleep' = asleep \ {t} /\ timedout' = timedout \cup {t}
    /\ UNCHANGED <<credit, waiters, at>>

Fails(t) == Becomes(t, "none") /\ waiters' = waiters - 1 /\ UNCHANGED <<credit, asleep>>

\* (An operator whose comment begins "Broken:" is a wrong version of the one
\* that follows it; no specification uses it.)

\* Broken: a woken thread whose time has run out does not look at the credit.
WokenLate(t) ==
    /\ Awake(t, "timed")
    /\ \/ Fails(t)
       \/ /\ t \notin timedout
          /\ \/ credit <= 0 /\ Sleep(t, "timed") /\ UNCHANGED waiters
             \/ credit > 0 /\ Take(t, 1) /\ waiters' = waiters - 1
    /\ timedout' = timedout \ {t}

\* timed_acquire after its wait: it fails at once if the wait ran out, and
\* if there is no credit and no time left.
WokenInTimedAcquire(t) ==
    /\ Awake(t, "timed")
    /\ \/ t \in timedout /\ Fails(t)
       \/ /\ t \notin timedout
          /\ \/ credit <= 0 /\ Sleep(t, "timed") /\ UNCHANGED waiters
             \/ credit <= 0 /\ Fails(t)
             \/ credit > 0 /\ Take(t, 1) /\ waiters' = waiters - 1
    /\ timedout' = timedout \ {t}

\* Broken: one thread is notified, whatever is released.
ReleaseToOne(t, n) ==
    /\ at[t] = "none" /\ credit + n <= MaxCredit
    /\ credit' = credit + n
    /\ IF waiters > 0 THEN Notify(1) ELSE UNCHANGED asleep
    /\ UNCHANGED <<waiters, timedout, at>>

\* The branch of release that notifies everybody is never taken: n is at
\* most waiters_ there, so half of it is less.
Release(t, n) ==
    /\ at[t] = "none" /\ credit + n <= MaxCredit
    /\ credit' = credit + n
    /\ Notify(Min2(n, waiters))
    /\ UNCHANGED <<waiters, timedout, at>>

Set(t, n) ==
    /\ at[t] = "none"
    /\ credit' = n
    /\ IF n = 0 THEN UNCHANGED asleep ELSE Notify(1)
    /\ UNCHANGED <<waiters, timedout, at>>

SpuriousWakeUp(t) ==
    /\ t \in asleep
    /\ asleep' = asleep \ {t}
    /\ UNCHANGED <<credit, waiters, timedout, at>>

Woken(t) == WokenInAcquire(t) \/ WokenInTimedAcquire(t)

Next ==
    \E t \in Threads :
       \/ Acquire(t) \/ TimedAcquire(t) \/ TimeOut(t) \/ Woken(t) \/ SpuriousWakeUp(t)
       \/ \E n \in Released : Release(t, n)
       \/ \E n \in SetTo : Set(t, n)

Spec == Init /\ [][Next]_vars

\* Each thread gets the mutex in time.
Fairness == \A t \in Threads : WF_vars(Woken(t))

-----------------------------------------------------------------------------

TypeOK ==
    /\ credit \in Nat /\ waiters \in Nat
    /\ at \in [Threads -> {"none", "acquire", "timed"}]
    /\ asleep \subseteq {t \in Threads : at[t] # "none"}
    /\ timedout \subseteq {t \in Threads : at[t] = "timed"} \ asleep

\* Woken by a notification, and not yet back in the loop.
OnTheWay == {t \in Threads : at[t] # "none"} \ (asleep \cup timedout)

\* Nobody sleeps beside credit that is not already spoken for: for each
\* Amount there is, a thread that can take it is on its way (semaphore::release
\* notifies min(n, waiters_), and waiters_ counts those on their way, too).
NobodySleepsOnCredit ==
    asleep # {} => credit < Amount * (Cardinality(OnTheWay) + 1)

Waits == {t \in Threads : at[t] # "none"}

\* Credit that somebody waits for is taken.
CreditIsTaken ==
    (credit >= Amount /\ Waits # {}) ~> (credit < Amount \/ Waits = {})
=============================================================================
