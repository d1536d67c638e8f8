----------------------- MODULE Win32ConditionVariable -----------------------
(***************************************************************************)
(* zi::condition_variable of the Windows back end,                         *)
(* zi/concurrency/win32/condition_variable.hpp, and the mutex it is used   *)
(* with: a semaphore that a notification puts credits into, and a second   *)
(* one by which the last thread that leaves tells notify_all() to go on.   *)
(*                                                                         *)
(* SignalObjectAndWait gives one object up and waits for the other in two  *)
(* steps, as its documentation warns.  What is done under spinlock_ is one *)
(* step; notify_one() reads waiters_ without it.  (An operator whose       *)
(* comment begins "Broken:" is a wrong version of the one that follows it; *)
(* no specification uses it.)                                              *)
(*                                                                         *)
(* notify_all() is called with the mutex held, as everywhere in the        *)
(* library; notify_one() without it as well, as by the guard of monitor.   *)
(***************************************************************************)
EXTENDS Naturals, FiniteSets

CONSTANTS
    Threads, Nobody,
    MaxCredits     \* notify_one() is not called with more credits left than this

\* What is asked of the constants.
Win32Assumption == IsFiniteSet(Threads) /\ Nobody \notin Threads /\ MaxCredits \in Nat

VARIABLES
    owner,            \* who holds the mutex
    waiters_, broadcasting_,
    semaphore_,       \* its credits
    last_event_,      \* its credits
    at,               \* where each thread is
    timed             \* the threads whose wait may run out

vars == <<owner, waiters_, broadcasting_, semaphore_, last_event_, at, timed>>

Init ==
    /\ owner = Nobody
    /\ waiters_ = 0 /\ broadcasting_ = FALSE
    /\ semaphore_ = 0 /\ last_event_ = 0
    /\ at = [t \in Threads |-> "out"] /\ timed = {}

Goes(t, from, to) == at[t] = from /\ at' = [at EXCEPT ![t] = to]
At(place) == {t \in Threads : at[t] = place}

-----------------------------------------------------------------------------
(* The mutex.                                                              *)

Lock(t) ==
    /\ owner = Nobody /\ owner' = t
    /\ Goes(t, "out", "in")
    /\ UNCHANGED <<waiters_, broadcasting_, semaphore_, last_event_, timed>>

Unlock(t) ==
    /\ Goes(t, "in", "out") /\ owner' = Nobody
    /\ UNCHANGED <<waiters_, broadcasting_, semaphore_, last_event_, timed>>

-----------------------------------------------------------------------------
(* wait_().                                                                *)

CountIn(t) ==
    /\ Goes(t, "in", "counted")
    /\ waiters_' = waiters_ + 1
    /\ timed' \in {timed, timed \cup {t}}
    /\ UNCHANGED <<owner, broadcasting_, semaphore_, last_event_>>

LetGo(t) ==
    /\ Goes(t, "counted", "released") /\ owner' = Nobody
    /\ UNCHANGED <<waiters_, broadcasting_, semaphore_, last_event_, timed>>

WaitForCredit(t) ==
    /\ IF semaphore_ > 0
          THEN Goes(t, "released", "woken") /\ semaphore_' = semaphore_ - 1
          ELSE Goes(t, "released", "asleep") /\ UNCHANGED semaphore_
    /\ UNCHANGED <<owner, waiters_, broadcasting_, last_event_, timed>>

TimeOut(t) ==
    /\ t \in timed /\ Goes(t, "asleep", "woken")
    /\ UNCHANGED <<owner, waiters_, broadcasting_, semaphore_, last_event_, timed>>

\* Broken: the last to leave speaks up although nobody listens.
CountOutLoudly(t) ==
    /\ Goes(t, "woken", IF waiters_ = 1 THEN "last" ELSE "relock")
    /\ waiters_' = waiters_ - 1
    /\ timed' = timed \ {t}
    /\ UNCHANGED <<owner, broadcasting_, semaphore_, last_event_>>

CountOut(t) ==
    /\ Goes(t, "woken", IF broadcasting_ /\ waiters_ = 1 THEN "last" ELSE "relock")
    /\ waiters_' = waiters_ - 1
    /\ timed' = timed \ {t}
    /\ UNCHANGED <<owner, broadcasting_, semaphore_, last_event_>>

TellTheBroadcaster(t) ==
    /\ Goes(t, "last", "relock") /\ last_event_' = last_event_ + 1
    /\ UNCHANGED <<owner, waiters_, broadcasting_, semaphore_, timed>>

Relock(t) ==
    /\ owner = Nobody /\ owner' = t
    /\ Goes(t, "relock", "in")
    /\ UNCHANGED <<waiters_, broadcasting_, semaphore_, last_event_, timed>>

-----------------------------------------------------------------------------
(* The notifications.                                                      *)

\* n credits: a thread that is asleep is given one at once.
ReleaseSemaphore(n, t, to) ==
    \E woken \in SUBSET At("asleep") :
       LET asleep == Cardinality(At("asleep"))
       IN  /\ Cardinality(woken) = IF n < asleep THEN n ELSE asleep
           /\ semaphore_' = semaphore_ + (n - Cardinality(woken))
           /\ at' = [u \in Threads |-> IF u = t THEN to ELSE IF u \in woken THEN "woken" ELSE at[u]]

\* notify_one() with the mutex held, or without; waiters_ is read first.
SomebodyWaits(t) ==
    /\ waiters_ > 0 /\ semaphore_ <= MaxCredits
    /\ Goes(t, "in", "one in") \/ Goes(t, "out", "one out")
    /\ UNCHANGED <<owner, waiters_, broadcasting_, semaphore_, last_event_, timed>>

NotifyOne(t) ==
    /\ \/ at[t] = "one in" /\ ReleaseSemaphore(1, t, "in")
       \/ at[t] = "one out" /\ ReleaseSemaphore(1, t, "out")
    /\ UNCHANGED <<owner, waiters_, broadcasting_, last_event_, timed>>

NotifyAll(t) ==
    /\ at[t] = "in" /\ waiters_ > 0
    /\ ReleaseSemaphore(waiters_, t, "broadcast")
    /\ broadcasting_' = TRUE
    /\ UNCHANGED <<owner, waiters_, last_event_, timed>>

HearTheLast(t) ==
    /\ last_event_ > 0 /\ last_event_' = last_event_ - 1
    /\ Goes(t, "broadcast", "ending")
    /\ UNCHANGED <<owner, waiters_, broadcasting_, semaphore_, timed>>

EndOfBroadcast(t) ==
    /\ Goes(t, "ending", "in") /\ broadcasting_' = FALSE
    /\ UNCHANGED <<owner, waiters_, semaphore_, last_event_, timed>>

-----------------------------------------------------------------------------
\* What a thread does by itself.
GoesOn(t) ==
    \/ LetGo(t) \/ WaitForCredit(t) \/ CountOut(t) \/ TellTheBroadcaster(t) \/ Relock(t)
    \/ NotifyOne(t) \/ HearTheLast(t) \/ EndOfBroadcast(t)

Next ==
    \E t \in Threads :
       \/ GoesOn(t) \/ Lock(t) \/ Unlock(t) \/ CountIn(t) \/ TimeOut(t)
       \/ SomebodyWaits(t) \/ NotifyAll(t)

Spec == Init /\ [][Next]_vars

Fairness == \A t \in Threads : WF_vars(GoesOn(t))

-----------------------------------------------------------------------------
InTheWait == At("counted") \cup At("released") \cup At("asleep") \cup At("woken")

\* The end of notify_all(), :157-160: all who were waiting have left the
\* semaphore and are on their way to the mutex, those that had given the mutex
\* up and were not asleep yet included; there is nobody left who could have
\* been overtaken, and the one signal of the last of them has been consumed.
BroadcastReachesAll ==
    \A t \in Threads :
       at[t] = "ending" => InTheWait = {} /\ last_event_ = 0 /\ waiters_ = 0

\* notify_all() returns, :149-166, although it waits with the mutex held.
BroadcastsEnd == \A t \in Threads : at[t] = "broadcast" ~> at[t] = "in"
=============================================================================
