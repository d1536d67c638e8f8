------------------------------ MODULE Barrier ------------------------------
(***************************************************************************)
(* zi::barrier, zi/concurrency/barrier.hpp: wait() returns when threshold_ *)
(* threads have called it, true in one of them; then the next round        *)
(* begins, while threads of the last one may not have run yet.  A step is  *)
(* one critical section of m_.                                             *)
(***************************************************************************)
EXTENDS Naturals, FiniteSets

CONSTANTS
    Threads,
    Threshold,
    MaxArrivals    \* bounds the calls of wait

\* What is asked of the constants.
BarrierAssumption ==
    /\ IsFiniteSet(Threads)
    /\ Threshold \in Nat \ {0} /\ MaxArrivals \in Nat

VARIABLES
    count, round,
    asleep,      \* the threads asleep on cv_
    at,          \* the call each thread is in
    seen,        \* its local variable round
    arrivals,    \* history: how many calls there were,
    arrived,     \*   how many there had been when a thread last called,
    trues, falses   \* and how many have returned which value

vars == <<count, round, asleep, at, seen, arrivals, arrived, trues, falses>>

Init ==
    /\ count = 0 /\ round = 0 /\ asleep = {}
    /\ at = [t \in Threads |-> "none"] /\ seen = [t \in Threads |-> 0]
    /\ arrivals = 0 /\ arrived = [t \in Threads |-> 0] /\ trues = 0 /\ falses = 0

Arrive(t) == arrivals' = arrivals + 1 /\ arrived' = [arrived EXCEPT ![t] = arrivals + 1]

\* The last one of a round.
CompleteRound(t) ==
    /\ at[t] = "none" /\ arrivals < MaxArrivals
    /\ count + 1 = Threshold
    /\ count' = 0 /\ round' = round + 1
    /\ asleep' = {}
    /\ trues' = trues + 1
    /\ Arrive(t)
    /\ UNCHANGED <<at, seen, falses>>

Wait(t) ==
    /\ at[t] = "none" /\ arrivals < MaxArrivals
    /\ count + 1 # Threshold
    /\ count' = count + 1
    /\ asleep' = asleep \cup {t}
    /\ at' = [at EXCEPT ![t] = "wait"] /\ seen' = [seen EXCEPT ![t] = round]
    /\ Arrive(t)
    /\ UNCHANGED <<round, trues, falses>>

\* (An operator whose comment begins "Broken:" is a wrong version of the one
\* that follows it; no specification uses it.)

\* Broken: the thread goes by the count, which the next round changes.
StillCounting(t) == count # 0

\* Broken: the wait is not in a loop.
NotLookedAt(t) == FALSE

SameRound(t) == round = seen[t]

SleepAgain(t) ==
    /\ at[t] = "wait" /\ t \notin asleep /\ SameRound(t)
    /\ asleep' = asleep \cup {t}
    /\ UNCHANGED <<count, round, at, seen, arrivals, arrived, trues, falses>>

Return(t) ==
    /\ at[t] = "wait" /\ t \notin asleep /\ ~SameRound(t)
    /\ at' = [at EXCEPT ![t] = "none"]
    /\ falses' = falses + 1
    /\ UNCHANGED <<count, round, asleep, seen, arrivals, arrived, trues>>

SpuriousWakeUp(t) ==
    /\ t \in asleep
    /\ asleep' = asleep \ {t}
    /\ UNCHANGED <<count, round, at, seen, arrivals, arrived, trues, falses>>

Next ==
    \E t \in Threads :
       CompleteRound(t) \/ Wait(t) \/ SleepAgain(t) \/ Return(t) \/ SpuriousWakeUp(t)

Spec == Init /\ [][Next]_vars

Fairness == \A t \in Threads : WF_vars(SleepAgain(t)) /\ WF_vars(Return(t))

-----------------------------------------------------------------------------

TypeOK ==
    /\ count \in 0 .. Threshold - 1 /\ round \in Nat
    /\ at \in [Threads -> {"none", "wait"}] /\ seen \in [Threads -> Nat]
    /\ asleep \subseteq {t \in Threads : at[t] = "wait"}
    /\ arrivals \in Nat /\ arrived \in [Threads -> Nat] /\ trues \in Nat /\ falses \in Nat

\* Of each Threshold calls one returns true and the others false, and only
\* those whose round is complete return: a round lets nobody of the next one
\* through (barrier::wait; barrier_test.cpp counts the trues).
RoundsAreWhole ==
    /\ arrivals = Threshold * trues + count
    /\ falses <= (Threshold - 1) * trues
    /\ \A t \in Threads : at[t] = "none" => arrived[t] <= Threshold * trues

\* Whoever waits in a round that is complete returns.
RoundsEnd ==
    \A t \in Threads :
       (at[t] = "wait" /\ arrived[t] <= Threshold * trues) ~> (at[t] = "none")
=============================================================================
