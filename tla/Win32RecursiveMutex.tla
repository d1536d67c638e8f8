------------------------ MODULE Win32RecursiveMutex ------------------------
(***************************************************************************)
(* zi::recursive_spinlock of the Windows back end:                         *)
(* recursive_mutex_tpl, zi/concurrency/win32/recursive_mutex.hpp, around   *)
(* the spinlock of zi/concurrency/win32/spinlock_fast.hpp.  owner_ is read *)
(* without the lock.  A step is one access to what threads share.  (An     *)
(* operator whose comment begins "Broken:" is a wrong version of the one   *)
(* that follows it; no specification uses it.)                             *)
(***************************************************************************)
EXTENDS Naturals, FiniteSets

CONSTANTS Threads, Nobody, MaxDepth   \* how often a thread may hold the mutex

\* What is asked of the constants.
RecursiveAssumption == Nobody \notin Threads /\ MaxDepth \in Nat \ {0}

VARIABLES
    lock_,            \* the spinlock's
    owner_, count_,   \* Nobody for 0
    at,               \* where each thread is
    depth             \* how often each thread holds the mutex

vars == <<lock_, owner_, count_, at, depth>>

Init ==
    /\ lock_ = 0 /\ owner_ = Nobody /\ count_ = 0
    /\ at = [t \in Threads |-> "idle"] /\ depth = [t \in Threads |-> 0]

Goes(t, from, to) == at[t] \in from /\ at' = [at EXCEPT ![t] = to]

\* lock() and try_lock() begin alike: the owner counts once more.
Lock(t, call) ==
    /\ depth[t] < MaxDepth
    /\ IF owner_ = t
          THEN /\ Goes(t, {"idle"}, "idle")
               /\ count_' = count_ + 1 /\ depth' = [depth EXCEPT ![t] = @ + 1]
          ELSE Goes(t, {"idle"}, call) /\ UNCHANGED <<count_, depth>>
    /\ UNCHANGED <<lock_, owner_>>

\* spinlock::try_lock(): InterlockedExchange.  lock() tries again, try_lock() gives up.
Exchange(t) ==
    /\ lock_' = 1
    /\ IF lock_ = 0 THEN Goes(t, {"lock", "try"}, "got")
       ELSE Goes(t, {"lock", "try"}, IF at[t] = "lock" THEN "lock" ELSE "idle")
    /\ UNCHANGED <<owner_, count_, depth>>

CountFirst(t) ==
    /\ Goes(t, {"got"}, "counted") /\ count_' = count_ + 1
    /\ UNCHANGED <<lock_, owner_, depth>>

BecomeOwner(t) ==
    /\ Goes(t, {"counted"}, "idle") /\ owner_' = t
    /\ depth' = [depth EXCEPT ![t] = 1]
    /\ UNCHANGED <<lock_, count_>>

Unlock(t) ==
    /\ depth[t] > 0
    /\ Goes(t, {"idle"}, IF count_ = 1 THEN "leaving" ELSE "idle")
    /\ count_' = count_ - 1 /\ depth' = [depth EXCEPT ![t] = @ - 1]
    /\ UNCHANGED <<lock_, owner_>>

\* Broken: the spinlock is given up first.
UnlockSpinlockFirst(t) ==
    /\ \/ Goes(t, {"leaving"}, "disowned") /\ lock_' = 0 /\ UNCHANGED owner_
       \/ Goes(t, {"disowned"}, "idle") /\ owner_' = Nobody /\ UNCHANGED lock_
    /\ UNCHANGED <<count_, depth>>

Leave(t) ==
    /\ \/ Goes(t, {"leaving"}, "disowned") /\ owner_' = Nobody /\ UNCHANGED lock_
       \/ Goes(t, {"disowned"}, "idle") /\ lock_' = 0 /\ UNCHANGED owner_
    /\ UNCHANGED <<count_, depth>>

GoesOn(t) == Exchange(t) \/ CountFirst(t) \/ BecomeOwner(t) \/ Leave(t)

Next ==
    \E t \in Threads :
       \/ Lock(t, "lock") \/ Lock(t, "try") \/ Unlock(t) \/ GoesOn(t)

Spec == Init /\ [][Next]_vars

-----------------------------------------------------------------------------
\* recursive_mutex.hpp, lock, try_lock and unlock: one thread at a time has the
\* mutex or is on its way in or out of it; count_ is how often the owner holds
\* it, and 0 for whoever has just taken the spinlock, as it asserts (:92).
Inside == {t \in Threads : depth[t] > 0 \/ at[t] \in {"got", "counted", "leaving", "disowned"}}

LocksNest ==
    /\ Cardinality(Inside) <= 1
    /\ \A t \in Inside :
          count_ = IF at[t] = "counted" THEN 1 ELSE IF at[t] = "got" THEN 0 ELSE depth[t]
    /\ \A t \in Threads : depth[t] > 0 <=> owner_ = t /\ at[t] # "leaving"
=============================================================================
