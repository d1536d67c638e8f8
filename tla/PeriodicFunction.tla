-------------------------- MODULE PeriodicFunction --------------------------
(***************************************************************************)
(* zi::periodic_function, zi/concurrency/periodic_function.hpp: run()      *)
(* calls f_ again and again, with a timed wait in between, until f_ says   *)
(* false or stop() is called.                                              *)
(*                                                                         *)
(* A step is one critical section of mutex_, or the call of f_ between     *)
(* two.  Neither count_ (a statistic) nor the length of the interval is    *)
(* kept.  Runners are the threads that call run(), Stoppers those that     *)
(* call stop().                                                            *)
(***************************************************************************)
EXTENDS Naturals, FiniteSets

CONSTANTS
    Runners, Stoppers,
    Coincidences    \* what the threads that use the function let coincide:
                    \*   "call"      stop() while f_ is being called, or
                    \*               has just said true
                    \*   "turn"      stop() between the end of the interval
                    \*               and the next call
                    \*   "entry"     run() while another run() has found
                    \*               IDLE and has yet to change it
                    \*   "restart"   run() before a stop() that has been
                    \*               told of the end returns
                    \* and "spurious", a wait that returns by itself

\* What is asked of the constants.
PeriodicFunctionAssumption ==
    /\ IsFiniteSet(Runners)
    /\ Coincidences \subseteq {"call", "turn", "entry", "restart", "spurious"}

VARIABLES
    state_,
    at,             \* where each runner is in run()
    running_cv,     \* the runners asleep on running_cv_
    stopping,       \* the stoppers blocked in stop()
    state_cv        \* those of them asleep on state_cv_

vars == <<state_, at, running_cv, stopping, state_cv>>

InLoop == {"calling", "said_true", "said_false", "sleeping", "again", "ending"}

At(S) == {r \in Runners : at[r] \in S}

Init ==
    /\ state_ = "IDLE"
    /\ at = [r \in Runners |-> "out"]
    /\ running_cv = {}
    /\ stopping = {} /\ state_cv = {}

Becomes(r, x) == at' = [at EXCEPT ![r] = x]

-----------------------------------------------------------------------------
(* run().  (An operator whose comment begins "Broken:" is a wrong version  *)
(* of the one that follows it; no specification uses it.)                  *)

\* Of a state_ other than IDLE nothing comes: run() returns at once.  IDLE keeps
\* nobody else out before BeginRound, so that two threads can be let in.
Run(r) ==
    /\ at[r] = "out" /\ state_ = "IDLE"
    /\ Becomes(r, "entered")
    /\ UNCHANGED <<state_, running_cv, stopping, state_cv>>

BeginRound(r) ==
    /\ at[r] \in {"entered", "again"}
    /\ state_' = "RUNNING"
    /\ Becomes(r, "calling")
    /\ UNCHANGED <<running_cv, stopping, state_cv>>

FReturns(r) ==
    /\ at[r] = "calling"
    /\ \E said \in {"said_true", "said_false"} : Becomes(r, said)
    /\ UNCHANGED <<state_, running_cv, stopping, state_cv>>

\* A true from f_ with state_ no longer RUNNING leaves ok true: the loop goes
\* on to another round.
EndRound(r) ==
    /\ \/ /\ at[r] = "said_true" /\ state_ = "RUNNING"
          /\ state_' = "SLEEPING"
          /\ running_cv' = running_cv \cup {r}
          /\ Becomes(r, "sleeping")
       \/ /\ at[r] = "said_true" /\ state_ # "RUNNING"
          /\ Becomes(r, "again")
          /\ UNCHANGED <<state_, running_cv>>
       \/ /\ at[r] = "said_false"
          /\ Becomes(r, "ending")
          /\ UNCHANGED <<state_, running_cv>>
    /\ UNCHANGED <<stopping, state_cv>>

\* Broken: the result of timed_wait is taken for its opposite.
IntervalEndsTheLoop(r) ==
    /\ r \in running_cv
    /\ running_cv' = running_cv \ {r}
    /\ Becomes(r, "ending")
    /\ UNCHANGED <<state_, stopping, state_cv>>

IntervalOver(r) ==
    /\ r \in running_cv
    /\ running_cv' = running_cv \ {r}
    /\ Becomes(r, "again")
    /\ UNCHANGED <<state_, stopping, state_cv>>

Notified(r) ==
    /\ at[r] = "sleeping" /\ r \notin running_cv
    /\ Becomes(r, "ending")
    /\ UNCHANGED <<state_, running_cv, stopping, state_cv>>

\* Broken: one stop() is told, the others that wait are not.
LeaveAndTellOne(r) ==
    /\ at[r] = "ending"
    /\ state_' = "IDLE"
    /\ IF state_ = "STOPPING" /\ state_cv # {}
       THEN \E s \in state_cv : state_cv' = state_cv \ {s}
       ELSE UNCHANGED state_cv
    /\ Becomes(r, "out")
    /\ UNCHANGED <<running_cv, stopping>>

Leave(r) ==
    /\ at[r] = "ending"
    /\ state_' = "IDLE"
    /\ state_cv' = IF state_ = "STOPPING" THEN {} ELSE state_cv
    /\ Becomes(r, "out")
    /\ UNCHANGED <<running_cv, stopping>>

-----------------------------------------------------------------------------
(* stop().                                                                 *)

NotifyOne(cv) == IF cv = {} THEN cv' = cv ELSE \E r \in cv : cv' = cv \ {r}

\* Broken: a sleeping function is declared idle by the one who stops it.
AskToStopNow ==
    /\ state_' = IF state_ = "SLEEPING" THEN "IDLE" ELSE "STOPPING"
    /\ IF state_ = "SLEEPING" THEN NotifyOne(running_cv) ELSE UNCHANGED running_cv

AskToStop ==
    /\ state_' = "STOPPING"
    /\ IF state_ = "SLEEPING" THEN NotifyOne(running_cv) ELSE UNCHANGED running_cv

\* With state_ IDLE nothing is to be done: stop() returns at once.
Stop(s) ==
    /\ s \notin stopping /\ state_ # "IDLE"
    /\ AskToStop
    /\ stopping' = stopping \cup {s}
    /\ state_cv' = state_cv \cup {s}
    /\ UNCHANGED at

StopAwake(s) ==
    /\ s \in stopping \ state_cv
    /\ \/ state_ # "IDLE" /\ state_cv' = state_cv \cup {s} /\ UNCHANGED stopping
       \/ state_ = "IDLE" /\ stopping' = stopping \ {s} /\ UNCHANGED state_cv
    /\ UNCHANGED <<state_, at, running_cv>>

SpuriousWakeUp ==
    /\ "spurious" \in Coincidences
    /\ \/ \E r \in running_cv : running_cv' = running_cv \ {r} /\ UNCHANGED state_cv
       \/ \E s \in state_cv : state_cv' = state_cv \ {s} /\ UNCHANGED running_cv
    /\ UNCHANGED <<state_, at, stopping>>

-----------------------------------------------------------------------------
Goes(r) ==
    \/ BeginRound(r) \/ FReturns(r) \/ EndRound(r)
    \/ IntervalOver(r) \/ Notified(r) \/ Leave(r)

\* The threads that use the function call run() and stop() at any moment but those
\* that their Coincidences leave out.
CallRun(r) ==
    /\ "entry" \in Coincidences \/ At({"entered"}) = {}
    /\ "restart" \in Coincidences \/ stopping \subseteq state_cv
    /\ Run(r)

CallStop(s) ==
    /\ "call" \in Coincidences \/ At({"calling", "said_true"}) = {}
    /\ "turn" \in Coincidences \/ At({"again"}) = {}
    /\ Stop(s)

Next ==
    \/ \E r \in Runners : CallRun(r) \/ Goes(r)
    \/ \E s \in Stoppers : CallStop(s) \/ StopAwake(s)
    \/ SpuriousWakeUp

Spec == Init /\ [][Next]_vars

\* Every thread that can run does, f_ returns and intervals end; nobody has
\* to call run() or stop().
Fairness ==
    /\ \A r \in Runners : WF_vars(Goes(r))
    /\ \A s \in Stoppers : WF_vars(StopAwake(s))

FairSpec == Spec /\ Fairness

-----------------------------------------------------------------------------
\* The fields of periodic_function.hpp:50-58, where each thread can be, and
\* that state_ speaks of threads that are there: STOPPING of one in stop(),
\* anything but IDLE of one in the loop.
TypeOK ==
    /\ state_ \in {"IDLE", "RUNNING", "SLEEPING", "STOPPING"}
    /\ at \in [Runners -> InLoop \cup {"out", "entered"}]
    /\ running_cv \subseteq At({"sleeping"})
    /\ stopping \subseteq Stoppers
    /\ state_cv \subseteq stopping
    /\ state_ = "STOPPING" => stopping # {}
    /\ state_ # "IDLE" => At(InLoop) # {}

\* When a stop() returns, :142-143 and :158-161, no thread is between two
\* calls of f_, nor in one: what f_ uses may be destroyed, as it is after
\* ~periodic_function, :653-656.  (A run() that has tested state_, :90, and
\* not yet changed it is not covered; and where two of them meet there, "entry",
\* two loops run, and a stop() returns when the first of them ends.)
StopMeansStopped ==
    [][\A s \in Stoppers :
          state_ = "IDLE" \/ (s \in stopping /\ s \notin stopping')
              => At(InLoop) = {}]_vars

NoLoopEndsForNothing ==
    \A r \in Runners :
       at[r] # "ending" /\ at'[r] = "ending" => at[r] = "said_false" \/ state_ = "STOPPING"

\* The loop ends for one of two reasons: f_ said false, or stop() asked for it.
EndsForAReason == [][NoLoopEndsForNothing]_vars

\* Every stop() returns, and with it ~periodic_function.
StopReturns == \A s \in Stoppers : s \in stopping ~> s \notin stopping

=============================================================================
