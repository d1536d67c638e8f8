------------------------------- MODULE Event -------------------------------
(***************************************************************************)
(* zi::event, zi/concurrency/pthread/event.hpp, with the threads of its    *)
(* test, zi/concurrency/test/event_test.cpp.  An event is a flag and a     *)
(* condition variable without a mutex: wait() uses the caller's, signal()  *)
(* and clear() use none.                                                   *)
(*                                                                         *)
(* A tester of group g locks its group's mutex, waits for its group's      *)
(* event, clears and signals that of the next group, and unlocks.  With    *)
(* one group it is event_tester, with two event1_tester and event2_tester. *)
(* A step is one access to what threads share.                             *)
(***************************************************************************)
EXTENDS Naturals

CONSTANTS
    NumGroups,   \* 1 in Test_Event, 2 in Test_TwoEvents
    Size         \* how many testers each group has: 20 and 10

\* What is asked of the constants.
EventAssumption == {NumGroups, Size} \subseteq Nat \ {0}

\* A tester is a pair of its group and a number.
Groups       == 1 .. NumGroups
Testers      == Groups \X (1 .. Size)
GroupOf(t)   == t[1]
NextGroup(g) == (g % NumGroups) + 1
FirstGroup   == 1

VARIABLES
    signalled,   \* of each event
    asleep,      \* the threads in pthread_cond_wait on each
    locked,      \* the groups whose mutex is
    pc,          \* where each tester is
    main,        \* where the test's main thread is
    x            \* how many testers of each group have come through

vars == <<signalled, asleep, locked, pc, main, x>>

Init ==
    /\ signalled = [g \in Groups |-> FALSE] /\ asleep = [g \in Groups |-> {}]
    /\ locked = {}
    /\ pc = [t \in Testers |-> "lock"] /\ main = "lock"
    /\ x = [g \in Groups |-> 0]

Lock(g)   == g \notin locked /\ locked' = locked \cup {g}
Unlock(g) == locked' = locked \ {g}
Goes(t, from, to) == pc[t] = from /\ pc' = [pc EXCEPT ![t] = to]

WakeOne(g) ==
    IF asleep[g] = {} THEN UNCHANGED asleep
    ELSE \E t \in asleep[g] : asleep' = [asleep EXCEPT ![g] = @ \ {t}]

\* event::clear, event::signal in its two parts.
Clear(g) == signalled' = [signalled EXCEPT ![g] = FALSE] /\ UNCHANGED asleep
SetFlag(g) == signalled' = [signalled EXCEPT ![g] = TRUE] /\ UNCHANGED asleep

\* (An operator whose comment begins "Broken:" is a wrong version of the one
\* that follows it; no specification uses it.)

\* Broken: the flag is set and nobody woken.
SignalNobody(g) == UNCHANGED <<signalled, asleep>>

Signal(g) == WakeOne(g) /\ UNCHANGED signalled

TesterLocks(t) ==
    /\ Goes(t, "lock", "check") /\ Lock(GroupOf(t))
    /\ UNCHANGED <<signalled, asleep, main, x>>

\* event::wait: the loop's condition, then pthread_cond_wait, which gives the
\* mutex up and falls asleep in one step.
Check(t) ==
    LET g == GroupOf(t)
    IN  /\ Goes(t, "check", IF signalled[g] THEN "clear" ELSE "wait")
        /\ x' = IF signalled[g] THEN [x EXCEPT ![g] = @ + 1] ELSE x
        /\ UNCHANGED <<signalled, asleep, locked, main>>

CondWait(t) ==
    /\ Goes(t, "wait", "asleep")
    /\ asleep' = [asleep EXCEPT ![GroupOf(t)] = @ \cup {t}]
    /\ Unlock(GroupOf(t))
    /\ UNCHANGED <<signalled, main, x>>

WokenUp(t) ==
    /\ Goes(t, "asleep", "check") /\ t \notin asleep[GroupOf(t)]
    /\ Lock(GroupOf(t))
    /\ UNCHANGED <<signalled, asleep, main, x>>

TesterClears(t) ==
    /\ Goes(t, "clear", "set") /\ Clear(NextGroup(GroupOf(t)))
    /\ UNCHANGED <<locked, main, x>>

TesterSets(t) ==
    /\ Goes(t, "set", "signal") /\ SetFlag(NextGroup(GroupOf(t)))
    /\ UNCHANGED <<locked, main, x>>

TesterSignals(t) ==
    /\ Goes(t, "signal", "unlock") /\ Signal(NextGroup(GroupOf(t)))
    /\ UNCHANGED <<locked, main, x>>

TesterUnlocks(t) ==
    /\ Goes(t, "unlock", "done") /\ Unlock(GroupOf(t))
    /\ UNCHANGED <<signalled, asleep, main, x>>

MainSignals ==
    \/ main = "lock" /\ main' = "set" /\ Lock(FirstGroup) /\ UNCHANGED <<signalled, asleep>>
    \/ main = "set" /\ main' = "signal" /\ SetFlag(FirstGroup) /\ UNCHANGED locked
    \/ main = "signal" /\ main' = "unlock" /\ Signal(FirstGroup) /\ UNCHANGED locked
    \/ main = "unlock" /\ main' = "join" /\ Unlock(FirstGroup) /\ UNCHANGED <<signalled, asleep>>

Main == MainSignals /\ UNCHANGED <<pc, x>>

SpuriousWakeUp(t) ==
    /\ t \in asleep[GroupOf(t)]
    /\ asleep' = [asleep EXCEPT ![GroupOf(t)] = @ \ {t}]
    /\ UNCHANGED <<signalled, locked, pc, main, x>>

Tester(t) ==
    \/ TesterLocks(t) \/ Check(t) \/ CondWait(t) \/ WokenUp(t)
    \/ TesterClears(t) \/ TesterSets(t) \/ TesterSignals(t) \/ TesterUnlocks(t)

\* all_threads::join returns when every tester is done.
Joined == main = "join" /\ (\A t \in Testers : pc[t] = "done") /\ UNCHANGED vars

Next == Main \/ (\E t \in Testers : Tester(t) \/ SpuriousWakeUp(t)) \/ Joined

Spec == Init /\ [][Next]_vars

\* Every thread gets on; a mutex that is free often enough is had in the end.
Fairness == SF_vars(Main) /\ \A t \in Testers : SF_vars(Tester(t))

FairSpec == Spec /\ Fairness

-----------------------------------------------------------------------------

\* One signal, passed on from each tester to the next, gets all through
\* (event_test.cpp: EXPECT_EQ after all_threads::join).
EveryTesterComesThrough ==
    <>(\A g \in Groups : x[g] = Size)
=============================================================================
