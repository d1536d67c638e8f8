--------------------------- MODULE ObjectsProofs ----------------------------
(***************************************************************************)
(* What is proved of the objects of module Objects, for every set of       *)
(* threads and every threshold and value.                                  *)
(***************************************************************************)
EXTENDS Objects, FiniteSetTheorems, TLAPS

-----------------------------------------------------------------------------
\* Every instance has the cardinality of its own module FiniteSets; it is the same.
LEMMA SameCardinality ==
    ASSUME NEW S
    PROVE  /\ Bar!Cardinality(S) = Cardinality(S) /\ Bar!IsFiniteSet(S) = IsFiniteSet(S)
           /\ Mon!Cardinality(S) = Cardinality(S) /\ Mon!IsFiniteSet(S) = IsFiniteSet(S)
           /\ Win!Cardinality(S) = Cardinality(S) /\ Win!IsFiniteSet(S) = IsFiniteSet(S)
           /\ Rec!Cardinality(S) = Cardinality(S)
  <1>1. Bar!Cardinality(S) = Cardinality(S) /\ Bar!IsFiniteSet(S) = IsFiniteSet(S)
    BY DEF Bar!Cardinality, Cardinality, Bar!IsFiniteSet, IsFiniteSet
  <1>2. Mon!Cardinality(S) = Cardinality(S) /\ Mon!IsFiniteSet(S) = IsFiniteSet(S)
    BY DEF Mon!Cardinality, Cardinality, Mon!IsFiniteSet, IsFiniteSet
  <1>3. Win!Cardinality(S) = Cardinality(S) /\ Win!IsFiniteSet(S) = IsFiniteSet(S)
    BY DEF Win!Cardinality, Cardinality, Win!IsFiniteSet, IsFiniteSet
  <1>4. Rec!Cardinality(S) = Cardinality(S)
    BY DEF Rec!Cardinality, Cardinality
  <1>. QED BY <1>1, <1>2, <1>3, <1>4

\* A set of which any two elements are the same has one at most.
LEMMA OneAtMost ==
    ASSUME NEW S, \A s, t \in S : s = t
    PROVE  IsFiniteSet(S) /\ Cardinality(S) <= 1
  <1>1. CASE S = {}
    BY <1>1, FS_EmptySet
  <1>2. CASE S # {}
    <2>1. PICK s \in S : S = {s}
      BY <1>2
    <2>2. IsFiniteSet({s}) /\ Cardinality({s}) = 1
      BY FS_Singleton
    <2>. QED BY <2>1, <2>2
  <1>. QED BY <1>1, <1>2

-----------------------------------------------------------------------------
(* The periodic function: one thread at a time is past the test of state_, *)
(* and state_ is IDLE exactly until it has been changed by that thread.    *)

PerTypes ==
    /\ state_ \in {"IDLE", "RUNNING", "SLEEPING", "STOPPING"}
    /\ perAt \in [Runners -> Per!InLoop \cup {"out", "entered"}]
    /\ running_cv \subseteq Per!At({"sleeping"})

OneIsInRun == \A r, s \in Runners : perAt[r] # "out" /\ perAt[s] # "out" => r = s

IdleMeansOutside == state_ = "IDLE" <=> \A r \in Runners : perAt[r] \in {"out", "entered"}

\* Who has been woken has been woken by a stop().
WokenToStop ==
    \A r \in Runners : perAt[r] = "sleeping" /\ r \notin running_cv => state_ = "STOPPING"

PerInv == PerTypes /\ OneIsInRun /\ IdleMeansOutside

\* run() is called by one thread, or by several that never enter it at the same
\* moment: what run() tests, :90, does not keep the second of two such threads out.
OneEnters == "entry" \notin Coincidences \/ \A r, s \in Runners : r = s

LEMMA PerInitially == Per!Init => PerInv /\ WokenToStop
  BY DEF Per!Init, PerInv, PerTypes, OneIsInRun, IdleMeansOutside, WokenToStop, Per!At, Per!InLoop

LEMMA RunKeepsPerInv ==
    ASSUME PerInv, OneEnters, NEW r \in Runners, Per!CallRun(r)
    PROVE  PerInv'
  <1>1. \A s \in Runners : perAt[s] = "out"
    BY DEF PerInv, IdleMeansOutside, OneEnters, Per!CallRun, Per!Run, Per!At
  <1>. QED BY <1>1 DEF PerInv, PerTypes, OneIsInRun, IdleMeansOutside, Per!CallRun, Per!Run, Per!Becomes,
                       Per!At, Per!InLoop

\* Who goes on in run() is the one who is in it.
LEMMA GoesKeepsPerInv ==
    ASSUME PerInv, NEW r \in Runners, Per!Goes(r)
    PROVE  PerInv'
  <1>. USE DEF PerInv, PerTypes, OneIsInRun, IdleMeansOutside, Per!Becomes, Per!At, Per!InLoop
  <1>1. CASE Per!BeginRound(r)
    BY <1>1 DEF Per!BeginRound
  <1>2. CASE Per!FReturns(r)
    BY <1>2 DEF Per!FReturns
  <1>3. CASE Per!EndRound(r)
    BY <1>3 DEF Per!EndRound
  <1>4. CASE Per!IntervalOver(r)
    BY <1>4 DEF Per!IntervalOver
  <1>5. CASE Per!Notified(r)
    BY <1>5 DEF Per!Notified
  <1>6. CASE Per!Leave(r)
    BY <1>6 DEF Per!Leave
  <1>. QED BY <1>1, <1>2, <1>3, <1>4, <1>5, <1>6 DEF Per!Goes

LEMMA StopKeepsPerInv ==
    ASSUME PerInv, NEW s \in Stoppers, Per!CallStop(s) \/ Per!StopAwake(s)
    PROVE  PerInv'
  <1>. USE DEF PerInv, PerTypes, OneIsInRun, IdleMeansOutside, Per!At, Per!InLoop
  <1>1. CASE Per!CallStop(s)
    <2>1. running_cv' \subseteq running_cv /\ state_' = "STOPPING" /\ perAt' = perAt /\ state_ # "IDLE"
      BY <1>1 DEF Per!CallStop, Per!Stop, Per!AskToStop, Per!NotifyOne
    <2>. QED BY <2>1
  <1>2. CASE Per!StopAwake(s)
    BY <1>2 DEF Per!StopAwake
  <1>. QED BY <1>1, <1>2

LEMMA PerKeepsInv ==
    ASSUME PerInv, OneEnters, [Per!Next]_(Per!vars)
    PROVE  PerInv'
  <1>1. CASE Per!SpuriousWakeUp
    BY <1>1 DEF Per!SpuriousWakeUp, PerInv, PerTypes, OneIsInRun, IdleMeansOutside, Per!At, Per!InLoop
  <1>2. CASE UNCHANGED Per!vars
    BY <1>2 DEF Per!vars, PerInv, PerTypes, OneIsInRun, IdleMeansOutside, Per!At, Per!InLoop
  <1>. QED BY <1>1, <1>2, RunKeepsPerInv, GoesKeepsPerInv, StopKeepsPerInv DEF Per!Next

LEMMA PerInvHolds ==
    ASSUME OneEnters
    PROVE  Per!Spec => []PerInv
  <1>1. PerInv /\ [Per!Next]_(Per!vars) => PerInv'
    BY PerKeepsInv
  <1>. QED BY <1>1, PerInitially, PTL DEF Per!Spec

\* When a stop() returns nobody is in the loop (periodic_function.hpp:136-162), for a
\* function that one thread runs, again and again, and any number of them stop, at
\* any moment and with waits that return by themselves; and for one that several
\* threads run, if no two enter run() at once.
THEOREM StoppedIsOutside ==
    ASSUME OneEnters
    PROVE  Per!Spec => StopMeansStopped
  <1>1. ASSUME PerInv, [Per!Next]_(Per!vars), NEW s \in Stoppers,
               state_ = "IDLE" \/ (s \in stopping /\ s \notin stopping')
        PROVE  Per!At(Per!InLoop) = {}
    <2>1. state_ = "IDLE"
      BY <1>1 DEF Per!Next, Per!vars, Per!CallRun, Per!Run, Per!Goes, Per!BeginRound, Per!FReturns, Per!EndRound,
                  Per!IntervalOver, Per!Notified, Per!Leave, Per!CallStop, Per!Stop, Per!StopAwake,
                  Per!SpuriousWakeUp
    <2>. QED BY <1>1, <2>1 DEF PerInv, IdleMeansOutside, Per!At, Per!InLoop
  <1>2. PerInv /\ [Per!Next]_(Per!vars)
            => [\A s \in Stoppers :
                  state_ = "IDLE" \/ (s \in stopping /\ s \notin stopping')
                      => Per!At(Per!InLoop) = {}]_(Per!vars)
    BY <1>1
  <1>. QED BY <1>2, PerInvHolds, PTL DEF Per!Spec, StopMeansStopped, Per!StopMeansStopped

\* If moreover no wait returns by itself, the loop ends because the function
\* said false or because somebody asked for it (periodic_function.hpp:106-123).
THEOREM NothingElseEndsTheLoop ==
    ASSUME OneEnters, "spurious" \notin Coincidences
    PROVE  Per!Spec => Per!EndsForAReason
  <1>1. ASSUME PerInv, WokenToStop, [Per!Next]_(Per!vars)
        PROVE  WokenToStop'
    <2>. USE DEF PerInv, PerTypes, OneIsInRun, IdleMeansOutside, WokenToStop, Per!Becomes, Per!At, Per!InLoop
    <2>1. CASE \E r \in Runners : Per!CallRun(r) \/ Per!Goes(r)
      <3>1. PICK r \in Runners : Per!CallRun(r) \/ Per!Goes(r)
        BY <2>1
      <3>2. CASE Per!CallRun(r)
        BY <1>1, <3>2 DEF Per!CallRun, Per!Run
      <3>3. CASE Per!BeginRound(r)
        BY <1>1, <3>3 DEF Per!BeginRound
      <3>4. CASE Per!FReturns(r)
        BY <1>1, <3>4 DEF Per!FReturns
      <3>5. CASE Per!EndRound(r)
        BY <1>1, <3>5 DEF Per!EndRound
      <3>6. CASE Per!IntervalOver(r)
        BY <1>1, <3>6 DEF Per!IntervalOver
      <3>7. CASE Per!Notified(r)
        BY <1>1, <3>7 DEF Per!Notified
      <3>8. CASE Per!Leave(r)
        BY <1>1, <3>8 DEF Per!Leave
      <3>. QED BY <3>1, <3>2, <3>3, <3>4, <3>5, <3>6, <3>7, <3>8 DEF Per!Goes
    <2>2. CASE \E s \in Stoppers : Per!CallStop(s) \/ Per!StopAwake(s)
      BY <1>1, <2>2 DEF Per!CallStop, Per!Stop, Per!AskToStop, Per!NotifyOne, Per!StopAwake
    <2>3. CASE Per!SpuriousWakeUp
      BY <2>3 DEF Per!SpuriousWakeUp
    <2>4. CASE UNCHANGED Per!vars
      BY <1>1, <2>4 DEF Per!vars
    <2>. QED BY <1>1, <2>1, <2>2, <2>3, <2>4 DEF Per!Next
  <1>2. ASSUME PerInv, WokenToStop, [Per!Next]_(Per!vars)
        PROVE  [Per!NoLoopEndsForNothing]_(Per!vars)
    <2>. SUFFICES ASSUME NEW r \in Runners, perAt[r] # "ending", perAt'[r] = "ending"
                  PROVE  perAt[r] = "said_false" \/ state_ = "STOPPING"
      BY DEF Per!NoLoopEndsForNothing
    <2>1. PICK q \in Runners : Per!CallRun(q) \/ Per!Goes(q)
      BY <1>2 DEF Per!Next, Per!vars, Per!CallStop, Per!Stop, Per!StopAwake, Per!SpuriousWakeUp
    <2>2. CASE Per!Notified(q)
      BY <1>2, <2>2 DEF Per!Notified, Per!Becomes, WokenToStop, PerInv, PerTypes
    <2>3. CASE ~Per!Notified(q)
      BY <1>2, <2>1, <2>3 DEF Per!CallRun, Per!Run, Per!Goes, Per!BeginRound, Per!FReturns, Per!EndRound,
             Per!IntervalOver, Per!Leave, Per!Becomes, PerInv, PerTypes
    <2>. QED BY <2>2, <2>3
  <1>. QED BY <1>1, <1>2, PerInvHolds, PerInitially, PTL DEF Per!Spec, Per!EndsForAReason

-----------------------------------------------------------------------------
(* The barrier.  Those who wait are of the round that is being filled, and *)
(* counted, or of one that is complete and have not run since: they are    *)
(* what is missing of Threshold - 1 falses for each round.                 *)

BarTypes ==
    /\ count \in Nat /\ count < Threshold /\ round \in Nat
    /\ barAt \in [Users -> {"none", "wait"}] /\ seen \in [Users -> Nat]
    /\ arrivals \in Nat /\ arrived \in [Users -> Nat] /\ trues \in Nat /\ falses \in Nat

OfThisRound  == {t \in Users : barAt[t] = "wait" /\ seen[t] = round}
OfAnEarlier  == {t \in Users : barAt[t] = "wait" /\ seen[t] # round}

RoundsCounted ==
    /\ round = trues
    /\ \A t \in Users : seen[t] <= round
    /\ count = Cardinality(OfThisRound)
    /\ falses + Cardinality(OfAnEarlier) = (Threshold - 1) * trues

ArrivalsCounted ==
    /\ arrivals = Threshold * trues + count
    /\ \A t \in Users : arrived[t] <= arrivals
    /\ \A t \in Users : barAt[t] = "none" \/ seen[t] # round => arrived[t] <= Threshold * trues

BarInv == BarTypes /\ RoundsCounted /\ ArrivalsCounted

LEMMA BarConstants == IsFiniteSet(Users) /\ Threshold \in Nat \ {0}
  BY ObjectsAssumption, SameCardinality DEF Bar!BarrierAssumption

LEMMA UsersAreFinitelyMany ==
    ASSUME NEW S, S \subseteq Users
    PROVE  IsFiniteSet(S) /\ Cardinality(S) \in Nat
  BY BarConstants, FS_Subset, FS_CardinalityType

LEMMA OneMoreRound ==
    ASSUME NEW k \in Nat \ {0}, NEW n \in Nat
    PROVE  /\ k * n \in Nat /\ (k - 1) * n \in Nat
           /\ k * (n + 1) = k * n + k
           /\ (k - 1) * (n + 1) = (k - 1) * n + (k - 1)
  <1>1. k * n \in Nat /\ k * (n + 1) = k * n + k
    OBVIOUS
  <1>2. \A m \in Nat : m * n \in Nat /\ m * (n + 1) = m * n + m
    OBVIOUS
  <1>3. k - 1 \in Nat
    OBVIOUS
  <1>. QED BY <1>1, <1>2, <1>3

LEMMA BarInitially == Bar!Init => BarInv
  <1>. SUFFICES ASSUME Bar!Init PROVE BarInv
    OBVIOUS
  <1>1. BarTypes
    BY BarConstants DEF Bar!Init, BarTypes
  <1>2. OfThisRound = {} /\ OfAnEarlier = {}
    BY DEF Bar!Init, OfThisRound, OfAnEarlier
  <1>3. Threshold * 0 = 0 /\ (Threshold - 1) * 0 = 0
    BY BarConstants
  <1>4. RoundsCounted
    BY <1>2, <1>3, FS_EmptySet DEF Bar!Init, RoundsCounted
  <1>5. ArrivalsCounted
    BY <1>3 DEF Bar!Init, ArrivalsCounted
  <1>. QED BY <1>1, <1>4, <1>5 DEF BarInv

LEMMA CompleteRoundKeepsInv ==
    ASSUME BarInv, NEW t \in Users, Bar!CompleteRound(t)
    PROVE  BarInv'
  <1>. USE DEF BarInv
  <1>1. /\ count + 1 = Threshold /\ count' = 0 /\ round' = round + 1 /\ trues' = trues + 1
        /\ arrivals' = arrivals + 1 /\ arrived' = [arrived EXCEPT ![t] = arrivals + 1]
        /\ barAt' = barAt /\ seen' = seen /\ falses' = falses
    BY DEF Bar!CompleteRound, Bar!Arrive
  <1>2. BarTypes'
    BY <1>1, BarConstants DEF BarTypes
  <1>3. OfThisRound' = {} /\ OfAnEarlier' = OfAnEarlier \cup OfThisRound
    BY <1>1 DEF OfThisRound, OfAnEarlier, BarTypes, RoundsCounted
  <1>4. Cardinality(OfAnEarlier') = Cardinality(OfAnEarlier) + count
    <2>1. OfThisRound \cap OfAnEarlier = {} /\ OfThisRound \subseteq Users /\ OfAnEarlier \subseteq Users
      BY DEF OfThisRound, OfAnEarlier
    <2>2. /\ IsFiniteSet(OfThisRound) /\ Cardinality(OfThisRound) \in Nat
          /\ IsFiniteSet(OfAnEarlier) /\ Cardinality(OfAnEarlier) \in Nat
      BY <2>1, UsersAreFinitelyMany
    <2>3. Cardinality(OfAnEarlier \cap OfThisRound) = 0
      BY <2>1, FS_EmptySet
    <2>4. Cardinality(OfAnEarlier \cup OfThisRound) =
             Cardinality(OfAnEarlier) + Cardinality(OfThisRound) - Cardinality(OfAnEarlier \cap OfThisRound)
      BY <2>2, FS_Union
    <2>. QED BY <1>3, <2>2, <2>3, <2>4 DEF RoundsCounted
  <1>5. /\ Threshold * trues \in Nat /\ (Threshold - 1) * trues \in Nat
        /\ Threshold * trues' = Threshold * trues + Threshold
        /\ (Threshold - 1) * trues' = (Threshold - 1) * trues + (Threshold - 1)
    BY <1>1, BarConstants, OneMoreRound DEF BarTypes
  <1>6. RoundsCounted'
    <2>1. count' = Cardinality(OfThisRound')
      BY <1>1, <1>3, FS_EmptySet
    <2>2. falses' + Cardinality(OfAnEarlier') = (Threshold - 1) * trues'
      <3>1. Cardinality(OfAnEarlier) \in Nat
        BY UsersAreFinitelyMany DEF OfAnEarlier
      <3>2. count = Threshold - 1 /\ Threshold \in Nat
        BY <1>1, BarConstants DEF BarTypes
      <3>. QED BY <1>1, <1>4, <1>5, <3>1, <3>2 DEF RoundsCounted, BarTypes
    <2>. QED BY <1>1, <2>1, <2>2 DEF RoundsCounted, BarTypes
  <1>7. ArrivalsCounted'
    <2>1. arrivals' = Threshold * trues'
      BY <1>1, <1>5, BarConstants DEF ArrivalsCounted, BarTypes
    <2>2. \A s \in Users : arrived'[s] <= arrivals'
      BY <1>1 DEF ArrivalsCounted, BarTypes
    <2>. QED BY <1>1, <2>1, <2>2, <1>2 DEF ArrivalsCounted, BarTypes
  <1>. QED BY <1>2, <1>6, <1>7

LEMMA WaitKeepsInv ==
    ASSUME BarInv, NEW t \in Users, Bar!Wait(t)
    PROVE  BarInv'
  <1>. USE DEF BarInv
  <1>1. /\ barAt[t] = "none" /\ count + 1 # Threshold /\ count' = count + 1 /\ round' = round
        /\ trues' = trues /\ falses' = falses
        /\ arrivals' = arrivals + 1 /\ arrived' = [arrived EXCEPT ![t] = arrivals + 1]
        /\ barAt' = [barAt EXCEPT ![t] = "wait"] /\ seen' = [seen EXCEPT ![t] = round]
    BY DEF Bar!Wait, Bar!Arrive
  <1>2. BarTypes'
    BY <1>1, BarConstants DEF BarTypes
  <1>3. OfThisRound' = OfThisRound \cup {t} /\ OfAnEarlier' = OfAnEarlier /\ t \notin OfThisRound
    BY <1>1 DEF OfThisRound, OfAnEarlier, BarTypes
  <1>4. Cardinality(OfThisRound') = count + 1
    <2>1. IsFiniteSet(OfThisRound)
      BY UsersAreFinitelyMany DEF OfThisRound
    <2>. QED BY <1>3, <2>1, FS_AddElement DEF RoundsCounted
  <1>5. RoundsCounted'
    BY <1>1, <1>3, <1>4 DEF RoundsCounted, BarTypes
  <1>6. ArrivalsCounted'
    <2>1. Threshold * trues \in Nat
      BY BarConstants, OneMoreRound DEF BarTypes
    <2>. QED BY <1>1, <2>1 DEF ArrivalsCounted, BarTypes
  <1>. QED BY <1>2, <1>5, <1>6

LEMMA ReturnKeepsInv ==
    ASSUME BarInv, NEW t \in Users, Bar!Return(t)
    PROVE  BarInv'
  <1>. USE DEF BarInv
  <1>1. /\ barAt[t] = "wait" /\ seen[t] # round
        /\ barAt' = [barAt EXCEPT ![t] = "none"] /\ falses' = falses + 1
        /\ count' = count /\ round' = round /\ seen' = seen /\ arrivals' = arrivals
        /\ arrived' = arrived /\ trues' = trues
    BY DEF Bar!Return, Bar!SameRound
  <1>2. BarTypes'
    BY <1>1, BarConstants DEF BarTypes
  <1>3. OfThisRound' = OfThisRound /\ OfAnEarlier' = OfAnEarlier \ {t} /\ t \in OfAnEarlier
    BY <1>1 DEF OfThisRound, OfAnEarlier, BarTypes
  <1>4. Cardinality(OfAnEarlier') = Cardinality(OfAnEarlier) - 1 /\ Cardinality(OfAnEarlier) \in Nat
    <2>1. IsFiniteSet(OfAnEarlier) /\ Cardinality(OfAnEarlier) \in Nat
      BY UsersAreFinitelyMany DEF OfAnEarlier
    <2>. QED BY <1>3, <2>1, FS_RemoveElement
  <1>5. RoundsCounted'
    <2>1. falses' + Cardinality(OfAnEarlier') = falses + Cardinality(OfAnEarlier)
      BY <1>1, <1>4 DEF BarTypes
    <2>. QED BY <1>1, <1>3, <2>1 DEF RoundsCounted
  <1>6. ArrivalsCounted'
    BY <1>1 DEF ArrivalsCounted, BarTypes
  <1>. QED BY <1>2, <1>5, <1>6

LEMMA BarKeepsInv ==
    ASSUME BarInv, [Bar!Next]_(Bar!vars)
    PROVE  BarInv'
  <1>1. ASSUME UNCHANGED <<count, round, barAt, seen, arrivals, arrived, trues, falses>>
        PROVE  BarInv'
    BY <1>1 DEF BarInv, BarTypes, RoundsCounted, ArrivalsCounted, OfThisRound, OfAnEarlier
  <1>2. ASSUME NEW t \in Users, Bar!SleepAgain(t) \/ Bar!SpuriousWakeUp(t)
        PROVE  BarInv'
    BY <1>1, <1>2 DEF Bar!SleepAgain, Bar!SpuriousWakeUp
  <1>3. CASE UNCHANGED Bar!vars
    BY <1>1, <1>3 DEF Bar!vars
  <1>. QED BY <1>2, <1>3, CompleteRoundKeepsInv, WaitKeepsInv, ReturnKeepsInv DEF Bar!Next

\* Of each Threshold calls one has returned true and the others false or not yet,
\* and nobody is let through by the round of others (barrier.hpp:54-72).
THEOREM RoundsStayWhole == Bar!Spec => []Bar!RoundsAreWhole
  <1>1. BarInv /\ [Bar!Next]_(Bar!vars) => BarInv'
    BY BarKeepsInv
  <1>2. BarInv => Bar!RoundsAreWhole
    <2>. SUFFICES ASSUME BarInv PROVE falses <= (Threshold - 1) * trues
      BY DEF BarInv, ArrivalsCounted, Bar!RoundsAreWhole
    <2>1. Cardinality(OfAnEarlier) \in Nat
      BY UsersAreFinitelyMany DEF OfAnEarlier
    <2>. QED BY <2>1 DEF BarInv, RoundsCounted, BarTypes
  <1>. QED BY <1>1, <1>2, BarInitially, PTL DEF Bar!Spec

-----------------------------------------------------------------------------
(* The monitor: waiters_ counts those who wait, and for each timed wait    *)
(* that has returned one for ever.                                         *)

MonTypes ==
    /\ value \in Nat /\ monWaiters \in Int
    /\ monAt \in [Users -> {"none", "wait", "timed", "leaving"}]
    /\ monAsleep \subseteq Users

InAWait == {t \in Users : monAt[t] \in {"wait", "timed"}}

WaitersAreCounted == monAsleep \subseteq InAWait /\ Cardinality(InAWait) <= monWaiters

MonInv == MonTypes /\ WaitersAreCounted /\ Mon!NotificationsArePassedOn

LEMMA MonConstants == IsFiniteSet(Users) /\ Need \in Nat \ {0} /\ Puts \subseteq Nat \ {0}
  BY ObjectsAssumption, SameCardinality DEF Mon!MonitorAssumption

LEMMA InAWaitIsFinite == IsFiniteSet(InAWait) /\ Cardinality(InAWait) \in Nat
  BY UsersAreFinitelyMany DEF InAWait

\* The ones that wait when one of the threads goes from one place to another.
LEMMA OneUserMoves ==
    ASSUME MonTypes, NEW t \in Users, NEW x \in {"none", "wait", "timed", "leaving"},
           Mon!Becomes(t, x)
    PROVE  /\ monAt' \in [Users -> {"none", "wait", "timed", "leaving"}]
           /\ monAt'[t] = x /\ \A s \in Users : s # t => monAt'[s] = monAt[s]
           /\ Cardinality(InAWait') =
                 IF x \in {"wait", "timed"}
                 THEN IF t \in InAWait THEN Cardinality(InAWait) ELSE Cardinality(InAWait) + 1
                 ELSE IF t \in InAWait THEN Cardinality(InAWait) - 1 ELSE Cardinality(InAWait)
  <1>1. /\ monAt' \in [Users -> {"none", "wait", "timed", "leaving"}]
        /\ monAt'[t] = x /\ \A s \in Users : s # t => monAt'[s] = monAt[s]
    BY DEF Mon!Becomes, MonTypes
  <1>2. InAWait' = IF x \in {"wait", "timed"} THEN InAWait \cup {t} ELSE InAWait \ {t}
    BY <1>1 DEF InAWait
  <1>3. /\ t \notin InAWait => Cardinality(InAWait \cup {t}) = Cardinality(InAWait) + 1
        /\ t \in InAWait => Cardinality(InAWait \ {t}) = Cardinality(InAWait) - 1
    BY InAWaitIsFinite, FS_AddElement, FS_RemoveElement
  <1>4. /\ t \in InAWait => InAWait \cup {t} = InAWait
        /\ t \notin InAWait => InAWait \ {t} = InAWait
    OBVIOUS
  <1>. QED BY <1>1, <1>2, <1>3, <1>4

\* What the destructor of the guard and a time-out do.
LEMMA NotifiedOne ==
    ASSUME Mon!NotifyOne
    PROVE  /\ monAsleep' \subseteq monAsleep
           /\ monAsleep # {} => \E s \in monAsleep : s \notin monAsleep'
  BY DEF Mon!NotifyOne

LEMMA MonInitially == Mon!Init => MonInv
  <1>. SUFFICES ASSUME Mon!Init PROVE MonInv
    OBVIOUS
  <1>1. InAWait = {}
    BY DEF Mon!Init, InAWait
  <1>. QED BY <1>1, FS_EmptySet DEF Mon!Init, MonInv, MonTypes, WaitersAreCounted,
                                    Mon!NotificationsArePassedOn

\* A thread takes what is there, and leaves.
LEMMA TakingKeepsInv ==
    ASSUME MonInv, NEW t \in Users, t \notin monAsleep, monAt[t] # "leaving",
           Mon!Take(t), monWaiters' = monWaiters \/ (t \in InAWait /\ monWaiters' = monWaiters - 1)
    PROVE  MonInv'
  <1>. USE DEF MonInv
  <1>1. value' \in Nat /\ monAsleep' = monAsleep /\ Mon!Becomes(t, "leaving")
    BY MonConstants DEF Mon!Take, MonTypes
  <1>2. MonTypes'
    BY <1>1, OneUserMoves DEF MonTypes
  <1>3. WaitersAreCounted'
    <2>1. monAsleep' \subseteq InAWait'
      BY <1>1, OneUserMoves DEF WaitersAreCounted, InAWait
    <2>2. Cardinality(InAWait') <= monWaiters'
      BY <1>1, OneUserMoves, InAWaitIsFinite DEF WaitersAreCounted, MonTypes
    <2>. QED BY <2>1, <2>2 DEF WaitersAreCounted
  <1>4. monAt'[t] = "leaving"
    BY <1>1, OneUserMoves
  <1>. QED BY <1>2, <1>3, <1>4 DEF Mon!NotificationsArePassedOn

\* A thread finds too little, and sleeps.
LEMMA SleepingKeepsInv ==
    ASSUME MonInv, NEW t \in Users, NEW call \in {"wait", "timed"}, Mon!Sleep(t, call),
           IF t \in InAWait THEN monWaiters' = monWaiters ELSE monWaiters' = monWaiters + 1
    PROVE  MonInv'
  <1>. USE DEF MonInv
  <1>1. /\ value' = value /\ value < Need /\ monAsleep' = monAsleep \cup {t}
        /\ Mon!Becomes(t, call)
    BY DEF Mon!Sleep
  <1>2. MonTypes'
    BY <1>1, OneUserMoves DEF MonTypes
  <1>3. WaitersAreCounted'
    <2>1. monAsleep' \subseteq InAWait'
      BY <1>1, OneUserMoves DEF WaitersAreCounted, InAWait
    <2>2. Cardinality(InAWait') <= monWaiters'
      BY <1>1, OneUserMoves, InAWaitIsFinite DEF WaitersAreCounted, MonTypes
    <2>. QED BY <2>1, <2>2 DEF WaitersAreCounted
  <1>4. ~ value' >= Need
    BY <1>1, MonConstants DEF MonTypes
  <1>. QED BY <1>2, <1>3, <1>4 DEF Mon!NotificationsArePassedOn

\* A timed wait returns although there is too little.
LEMMA GivingUpKeepsInv ==
    ASSUME MonInv, NEW t \in Users, Mon!Awake(t, "timed"),
           value < Need, Mon!Becomes(t, "leaving"), UNCHANGED <<value, monAsleep, monWaiters>>
    PROVE  MonInv'
  <1>. USE DEF MonInv
  <1>1. MonTypes'
    BY OneUserMoves DEF MonTypes
  <1>2. WaitersAreCounted'
    <2>1. monAsleep' \subseteq InAWait'
      BY OneUserMoves DEF WaitersAreCounted, InAWait, Mon!Awake
    <2>2. Cardinality(InAWait') <= monWaiters'
      BY OneUserMoves, InAWaitIsFinite DEF WaitersAreCounted, MonTypes
    <2>. QED BY <2>1, <2>2 DEF WaitersAreCounted
  <1>3. ~ value' >= Need
    BY MonConstants DEF MonTypes
  <1>. QED BY <1>1, <1>2, <1>3 DEF Mon!NotificationsArePassedOn

LEMMA PuttingKeepsInv ==
    ASSUME MonInv, NEW t \in Users, NEW n \in Puts, Mon!Put(t, n)
    PROVE  MonInv'
  <1>. USE DEF MonInv
  <1>1. /\ monAt[t] = "none" /\ value' = value + n /\ n \in Nat /\ Mon!Becomes(t, "leaving")
        /\ monWaiters' = monWaiters /\ monAsleep' = monAsleep
    BY MonConstants DEF Mon!Put
  <1>2. MonTypes'
    BY <1>1, OneUserMoves DEF MonTypes
  <1>3. WaitersAreCounted'
    <2>1. monAsleep' \subseteq InAWait'
      BY <1>1, OneUserMoves DEF WaitersAreCounted, InAWait
    <2>2. Cardinality(InAWait') <= monWaiters'
      BY <1>1, OneUserMoves, InAWaitIsFinite DEF WaitersAreCounted, MonTypes
    <2>. QED BY <2>1, <2>2 DEF WaitersAreCounted
  <1>4. monAt'[t] = "leaving"
    BY <1>1, OneUserMoves
  <1>. QED BY <1>2, <1>3, <1>4 DEF Mon!NotificationsArePassedOn

\* The guard's destructor: while anybody sleeps waiters_ is not 0, so that it wakes
\* one of them, who has not looked yet.
LEMMA LeavingKeepsInv ==
    ASSUME MonInv, NEW t \in Users, Mon!Leave(t)
    PROVE  MonInv'
  <1>. USE DEF MonInv
  <1>1. /\ monAt[t] = "leaving" /\ Mon!Becomes(t, "none") /\ value' = value /\ monWaiters' = monWaiters
        /\ IF monWaiters > 0 THEN Mon!NotifyOne ELSE monAsleep' = monAsleep
    BY DEF Mon!Leave
  <1>2. monAsleep' \subseteq monAsleep
    BY <1>1, NotifiedOne
  <1>3. MonTypes'
    BY <1>1, <1>2, OneUserMoves DEF MonTypes
  <1>4. WaitersAreCounted'
    <2>1. monAsleep' \subseteq InAWait'
      BY <1>1, <1>2, OneUserMoves DEF WaitersAreCounted, InAWait
    <2>2. Cardinality(InAWait') <= monWaiters'
      BY <1>1, OneUserMoves, InAWaitIsFinite DEF WaitersAreCounted, MonTypes, InAWait
    <2>. QED BY <2>1, <2>2 DEF WaitersAreCounted
  <1>5. ASSUME monAsleep # {}
        PROVE  \E s \in Users : s \notin monAsleep' /\ monAt'[s] \in {"wait", "timed"}
    <2>1. InAWait # {}
      BY <1>5 DEF WaitersAreCounted
    <2>2. Cardinality(InAWait) > 0
      BY <2>1, InAWaitIsFinite, FS_EmptySet
    <2>3. monWaiters > 0
      BY <2>2, InAWaitIsFinite DEF WaitersAreCounted, MonTypes
    <2>4. PICK s \in monAsleep : s \notin monAsleep'
      BY <1>1, <1>5, <2>3, NotifiedOne
    <2>5. s \in Users /\ s # t /\ monAt[s] \in {"wait", "timed"}
      BY <1>1, <2>4 DEF WaitersAreCounted, InAWait
    <2>. QED BY <1>1, <2>4, <2>5, OneUserMoves
  <1>6. monAsleep' # {} => monAsleep # {}
    BY <1>2
  <1>. QED BY <1>3, <1>4, <1>5, <1>6 DEF Mon!NotificationsArePassedOn, Mon!Awake

LEMMA WakingKeepsInv ==
    ASSUME MonInv, NEW t \in Users, Mon!WakeUp(t)
    PROVE  MonInv'
  <1>. USE DEF MonInv
  <1>1. /\ t \in monAsleep /\ monAsleep' = monAsleep \ {t}
        /\ value' = value /\ monWaiters' = monWaiters /\ monAt' = monAt
    BY DEF Mon!WakeUp
  <1>2. MonTypes' /\ WaitersAreCounted'
    BY <1>1 DEF MonTypes, WaitersAreCounted, InAWait
  <1>3. Mon!Awake(t, "wait")' \/ Mon!Awake(t, "timed")'
    BY <1>1 DEF Mon!Awake, WaitersAreCounted, InAWait
  <1>. QED BY <1>2, <1>3 DEF Mon!NotificationsArePassedOn

LEMMA MonKeepsInv ==
    ASSUME MonInv, [Mon!Next]_(Mon!vars)
    PROVE  MonInv'
  <1>1. CASE UNCHANGED Mon!vars
    BY <1>1 DEF Mon!vars, MonInv, MonTypes, WaitersAreCounted, InAWait,
                Mon!NotificationsArePassedOn, Mon!Awake
  <1>2. ASSUME NEW t \in Users, Mon!WaitFor(t)
        PROVE  MonInv'
    <2>1. monAt[t] = "none" /\ t \notin monAsleep /\ t \notin InAWait
      BY <1>2 DEF Mon!WaitFor, MonInv, WaitersAreCounted, InAWait
    <2>. QED BY <1>2, <2>1, TakingKeepsInv, SleepingKeepsInv DEF Mon!WaitFor
  <1>3. ASSUME NEW t \in Users, Mon!Woken(t)
        PROVE  MonInv'
    <2>1. monAt[t] = "wait" /\ t \notin monAsleep /\ t \in InAWait
      BY <1>3 DEF Mon!Woken, Mon!Awake, InAWait
    <2>. QED BY <1>3, <2>1, TakingKeepsInv, SleepingKeepsInv DEF Mon!Woken
  <1>4. ASSUME NEW t \in Users, Mon!TimedWait(t)
        PROVE  MonInv'
    <2>1. t \notin InAWait
      BY <1>4 DEF Mon!TimedWait, InAWait
    <2>. QED BY <1>4, <2>1, SleepingKeepsInv DEF Mon!TimedWait
  <1>5. ASSUME NEW t \in Users, Mon!TimedWaitReturns(t)
        PROVE  MonInv'
    <2>1. monAt[t] = "timed" /\ t \notin monAsleep
      BY <1>5 DEF Mon!TimedWaitReturns, Mon!Awake
    <2>. QED BY <1>5, <2>1, TakingKeepsInv, GivingUpKeepsInv DEF Mon!TimedWaitReturns
  <1>. QED BY <1>1, <1>2, <1>3, <1>4, <1>5, PuttingKeepsInv, LeavingKeepsInv, WakingKeepsInv DEF Mon!Next

\* Nobody sleeps beside what it waits for while nobody is on the way who takes it
\* or wakes the next one, although notify_one() may reach a thread that has given
\* up, and waiters_ grows for ever (monitor.hpp:65-112).
THEOREM NotificationsReachSomebody == Mon!Spec => []Mon!NotificationsArePassedOn
  <1>1. MonInv /\ [Mon!Next]_(Mon!vars) => MonInv'
    BY MonKeepsInv
  <1>2. MonInv => Mon!NotificationsArePassedOn
    BY DEF MonInv
  <1>. QED BY <1>1, <1>2, MonInitially, PTL DEF Mon!Spec

\* What TLC checks of both (barrier.hpp, wait; monitor.hpp, the guard's destructor).
THEOREM NobodyIsForgotten == Bar!Spec /\ Mon!Spec => []RoundsAndNotificationsAreWhole
  <1>1. Bar!RoundsAreWhole /\ Mon!NotificationsArePassedOn => RoundsAndNotificationsAreWhole
    BY DEF RoundsAndNotificationsAreWhole
  <1>. QED BY <1>1, RoundsStayWhole, NotificationsReachSomebody, PTL

-----------------------------------------------------------------------------
(* The recursive mutex of Windows: where the thread that has the spinlock  *)
(* is says what owner_ and count_ are; if nobody has it they are 0.        *)

RecTypes ==
    /\ lock_ \in {0, 1} /\ owner_ \in Users \cup {NoUser} /\ count_ \in Nat
    /\ recAt \in [Users -> {"idle", "lock", "try", "got", "counted", "leaving", "disowned"}]
    /\ depth \in [Users -> Nat]

IsInside(t) == depth[t] > 0 \/ recAt[t] \in {"got", "counted", "leaving", "disowned"}

OneIsInside == \A s, t \in Users : IsInside(s) /\ IsInside(t) => s = t

SpinlockIsTaken == \A t \in Users : IsInside(t) => lock_ = 1

NobodyInside == (\A t \in Users : ~IsInside(t)) => owner_ = NoUser /\ count_ = 0

\* What there is at each place.
Place(t) ==
    /\ recAt[t] # "idle" => depth[t] = 0
    /\ recAt[t] \in {"got", "disowned"} => owner_ = NoUser /\ count_ = 0
    /\ recAt[t] = "counted" => owner_ = NoUser /\ count_ = 1
    /\ recAt[t] = "leaving" => owner_ = t /\ count_ = 0
    /\ recAt[t] = "idle" /\ depth[t] > 0 => owner_ = t /\ count_ = depth[t]

RecInv ==
    /\ RecTypes /\ OneIsInside /\ SpinlockIsTaken /\ NobodyInside
    /\ \A t \in Users : Place(t)

LEMMA RecConstants == NoUser \notin Users
  BY ObjectsAssumption DEF Rec!RecursiveAssumption

LEMMA RecInitially == Rec!Init => RecInv
  BY RecConstants DEF Rec!Init, RecInv, RecTypes, OneIsInside, SpinlockIsTaken, NobodyInside, Place, IsInside

\* The owner has the mutex, and its place is as said.
LEMMA OwnerIsInside ==
    ASSUME RecInv, NEW t \in Users, owner_ = t
    PROVE  IsInside(t) /\ (depth[t] > 0 \/ recAt[t] = "leaving")
  <1>1. PICK s \in Users : IsInside(s)
    BY RecConstants DEF RecInv, NobodyInside
  <1>2. Place(s) /\ owner_ # NoUser
    BY RecConstants DEF RecInv
  <1>3. depth[s] \in Nat /\ recAt[s] \in {"idle", "lock", "try", "got", "counted", "leaving", "disowned"}
    BY DEF RecInv, RecTypes
  <1>4. s = t
    BY <1>1, <1>2, <1>3 DEF Place, IsInside
  <1>. QED BY <1>1, <1>2, <1>3, <1>4 DEF Place, IsInside

LEMMA LockKeepsRecInv ==
    ASSUME RecInv, NEW t \in Users, NEW call \in {"lock", "try"}, Rec!Lock(t, call)
    PROVE  RecInv'
  <1>. USE DEF RecInv, RecTypes, Rec!Goes
  <1>1. CASE owner_ = t
    <2>1. /\ lock_' = lock_ /\ owner_' = owner_ /\ count_' = count_ + 1 /\ recAt[t] = "idle"
          /\ recAt' = [recAt EXCEPT ![t] = "idle"] /\ depth' = [depth EXCEPT ![t] = @ + 1]
      BY <1>1 DEF Rec!Lock
    <2>2. depth[t] > 0
      BY <1>1, <2>1, OwnerIsInside
    <2>3. RecTypes' /\ \A s \in Users : IsInside(s)' <=> IsInside(s)
      BY <2>1, <2>2 DEF IsInside
    <2>4. \A s \in Users : Place(s)'
      BY <2>1, <2>2 DEF Place, IsInside, OneIsInside
    <2>5. IsInside(t)
      BY <2>2 DEF IsInside
    <2>. QED BY <2>1, <2>3, <2>4, <2>5 DEF OneIsInside, SpinlockIsTaken, NobodyInside
  <1>2. CASE owner_ # t
    <2>1. /\ lock_' = lock_ /\ owner_' = owner_ /\ count_' = count_ /\ depth' = depth
          /\ recAt[t] = "idle" /\ recAt' = [recAt EXCEPT ![t] = call]
      BY <1>2 DEF Rec!Lock
    <2>2. depth[t] = 0
      BY <1>2, <2>1 DEF Place
    <2>3. RecTypes' /\ \A s \in Users : IsInside(s)' <=> IsInside(s)
      BY <2>1, <2>2 DEF IsInside
    <2>4. \A s \in Users : Place(s)'
      BY <2>1, <2>2 DEF Place
    <2>. QED BY <2>1, <2>3, <2>4 DEF OneIsInside, SpinlockIsTaken, NobodyInside
  <1>. QED BY <1>1, <1>2

LEMMA ExchangeKeepsRecInv ==
    ASSUME RecInv, NEW t \in Users, Rec!Exchange(t)
    PROVE  RecInv'
  <1>. USE DEF RecInv, RecTypes, Rec!Goes
  <1>1. /\ lock_' = 1 /\ owner_' = owner_ /\ count_' = count_ /\ depth' = depth
        /\ recAt[t] \in {"lock", "try"} /\ depth[t] = 0
    BY DEF Rec!Exchange, Place
  <1>2. CASE lock_ = 0
    <2>1. recAt' = [recAt EXCEPT ![t] = "got"]
      BY <1>2 DEF Rec!Exchange
    <2>2. (\A s \in Users : ~IsInside(s)) /\ owner_ = NoUser /\ count_ = 0
      BY <1>2 DEF SpinlockIsTaken, NobodyInside
    <2>3. RecTypes' /\ \A s \in Users : IsInside(s)' <=> s = t
      BY <1>1, <2>1, <2>2 DEF IsInside
    <2>4. \A s \in Users : Place(s)'
      BY <1>1, <2>1, <2>2 DEF Place, IsInside
    <2>. QED BY <1>1, <2>3, <2>4 DEF OneIsInside, SpinlockIsTaken, NobodyInside
  <1>3. CASE lock_ # 0
    <2>1. PICK p \in {"lock", "idle"} : recAt' = [recAt EXCEPT ![t] = p]
      BY <1>3 DEF Rec!Exchange
    <2>2. RecTypes' /\ \A s \in Users : IsInside(s)' <=> IsInside(s)
      BY <1>1, <2>1 DEF IsInside
    <2>3. \A s \in Users : Place(s)'
      BY <1>1, <2>1 DEF Place
    <2>. QED BY <1>1, <2>2, <2>3 DEF OneIsInside, SpinlockIsTaken, NobodyInside
  <1>. QED BY <1>2, <1>3

\* The steps of the thread that has the spinlock.
LEMMA InsideKeepsRecInv ==
    ASSUME RecInv, NEW t \in Users,
           Rec!CountFirst(t) \/ Rec!BecomeOwner(t) \/ Rec!Unlock(t) \/ Rec!Leave(t)
    PROVE  RecInv'
  <1>. USE DEF RecInv, RecTypes, Rec!Goes
  <1>1. IsInside(t) /\ Place(t) /\ \A s \in Users : s # t => ~IsInside(s)
    BY DEF Rec!CountFirst, Rec!BecomeOwner, Rec!Unlock, Rec!Leave, IsInside, OneIsInside
  <1>2. lock_ = 1
    BY <1>1 DEF SpinlockIsTaken
  <1>3. /\ \A s \in Users : s # t => recAt'[s] = recAt[s] /\ depth'[s] = depth[s]
        /\ RecTypes' /\ Place(t)' /\ owner_' \in {t, NoUser}
        /\ IsInside(t)' => lock_' = 1
        /\ ~IsInside(t)' => owner_' = NoUser /\ count_' = 0
    <2>1. CASE Rec!CountFirst(t)
      BY <1>1, <1>2, <2>1 DEF Rec!CountFirst, IsInside, Place
    <2>2. CASE Rec!BecomeOwner(t)
      BY <1>1, <1>2, <2>2 DEF Rec!BecomeOwner, IsInside, Place
    <2>3. CASE Rec!Unlock(t)
      BY <1>1, <1>2, <2>3 DEF Rec!Unlock, IsInside, Place
    <2>4. CASE Rec!Leave(t)
      BY <1>1, <1>2, <2>4 DEF Rec!Leave, IsInside, Place
    <2>. QED BY <2>1, <2>2, <2>3, <2>4
  <1>4. \A s \in Users : s # t => ~IsInside(s)' /\ Place(s)'
    BY <1>1, <1>3 DEF IsInside, Place
  <1>. QED BY <1>3, <1>4 DEF OneIsInside, SpinlockIsTaken, NobodyInside

LEMMA RecKeepsInv ==
    ASSUME RecInv, [Rec!Next]_(Rec!vars)
    PROVE  RecInv'
  <1>1. CASE UNCHANGED Rec!vars
    BY <1>1 DEF Rec!vars, RecInv, RecTypes, OneIsInside, SpinlockIsTaken, NobodyInside, Place, IsInside
  <1>2. CASE Rec!Next
    BY <1>2, LockKeepsRecInv, ExchangeKeepsRecInv, InsideKeepsRecInv DEF Rec!Next, Rec!GoesOn
  <1>. QED BY <1>1, <1>2

\* The locks of the Windows back end's recursive mutex nest, for any threads and
\* any depth (win32/recursive_mutex.hpp:60-106).
THEOREM RecursiveLocksNest == Rec!Spec => []Rec!LocksNest
  <1>1. RecInv /\ [Rec!Next]_(Rec!vars) => RecInv'
    BY RecKeepsInv
  <1>2. ASSUME RecInv PROVE Rec!LocksNest
    <2>1. Rec!Inside = {t \in Users : IsInside(t)}
      BY DEF Rec!Inside, IsInside
    <2>2. Cardinality(Rec!Inside) <= 1
      BY <1>2, <2>1, OneAtMost DEF RecInv, OneIsInside
    <2>3. ASSUME NEW t \in Rec!Inside
          PROVE  count_ = IF recAt[t] = "counted" THEN 1 ELSE IF recAt[t] = "got" THEN 0 ELSE depth[t]
      BY <1>2, <2>1, <2>3 DEF RecInv, RecTypes, IsInside, Place
    <2>4. ASSUME NEW t \in Users
          PROVE  depth[t] > 0 <=> owner_ = t /\ recAt[t] # "leaving"
      BY <1>2, OwnerIsInside DEF RecInv, RecTypes, Place
    <2>. QED BY <2>2, <2>3, <2>4, SameCardinality DEF Rec!LocksNest
  <1>. QED BY <1>1, <1>2, RecInitially, PTL DEF Rec!Spec

-----------------------------------------------------------------------------
(* The condition variable of Windows.  A broadcast keeps the mutex until   *)
(* waiters_ is 0: nobody can come to wait in the meantime, so that the     *)
(* last one to leave is the last, and its signal is the only one.          *)

WinPlaces ==
    {"out", "in", "counted", "released", "asleep", "woken", "last", "relock", "one in", "one out",
     "broadcast", "ending"}

WinTypes ==
    /\ owner \in Users \cup {NoUser} /\ waiters_ \in Nat /\ broadcasting_ \in BOOLEAN
    /\ last_event_ \in Nat /\ winAt \in [Users -> WinPlaces]

HoldersHold ==
    \A t \in Users : owner = t <=> winAt[t] \in {"in", "counted", "one in", "broadcast", "ending"}

WaitersAreThere == waiters_ = Cardinality(Win!InTheWait)

BroadcasterIsThere ==
    broadcasting_ <=> \E t \in Users : winAt[t] \in {"broadcast", "ending"}

\* The signal of the last one, about to be given or given.
OneSignal ==
    /\ \A s, t \in Users : winAt[s] = "last" /\ winAt[t] = "last" => s = t
    /\ last_event_ <= 1
    /\ last_event_ > 0 => \A t \in Users : winAt[t] # "last"
    /\ last_event_ > 0 \/ (\E t \in Users : winAt[t] = "last") =>
           waiters_ = 0 /\ \E t \in Users : winAt[t] = "broadcast"

EndIsTheEnd == (\E t \in Users : winAt[t] = "ending") => waiters_ = 0

WinInv ==
    /\ WinTypes /\ HoldersHold /\ WaitersAreThere /\ BroadcasterIsThere
    /\ OneSignal /\ EndIsTheEnd

LEMMA WinConstants == NoUser \notin Users /\ IsFiniteSet(Users)
  BY ObjectsAssumption, SameCardinality DEF Win!Win32Assumption

LEMMA InTheWaitIs ==
    /\ Win!InTheWait = {t \in Users : winAt[t] \in {"counted", "released", "asleep", "woken"}}
    /\ IsFiniteSet(Win!InTheWait) /\ Cardinality(Win!InTheWait) \in Nat
  <1>1. Win!InTheWait = {t \in Users : winAt[t] \in {"counted", "released", "asleep", "woken"}}
    BY DEF Win!InTheWait, Win!At
  <1>. QED BY <1>1, UsersAreFinitelyMany

\* Whoever waits is counted, so that waiters_ is not 0; and with nobody there it is.
LEMMA SomebodyIsCounted ==
    ASSUME WinInv
    PROVE  /\ \A t \in Users : winAt[t] \in {"counted", "released", "asleep", "woken"} => waiters_ > 0
           /\ waiters_ = 0 => Win!InTheWait = {}
  BY InTheWaitIs, FS_EmptySet DEF WinInv, WaitersAreThere

LEMMA WinInitially == Win!Init => WinInv
  <1>. SUFFICES ASSUME Win!Init PROVE WinInv
    OBVIOUS
  <1>1. Win!InTheWait = {}
    BY DEF Win!Init, Win!InTheWait, Win!At
  <1>2. WinTypes
    BY DEF Win!Init, WinTypes, WinPlaces
  <1>. QED BY <1>1, <1>2, FS_EmptySet, WinConstants
           DEF Win!Init, WinInv, HoldersHold, WaitersAreThere, BroadcasterIsThere, OneSignal, EndIsTheEnd

\* A thread goes from one place to another.
LEMMA OneWinUserMoves ==
    ASSUME WinTypes, NEW t \in Users, NEW from, NEW to \in WinPlaces, Win!Goes(t, from, to)
    PROVE  /\ winAt[t] = from /\ winAt' \in [Users -> WinPlaces] /\ winAt'[t] = to
           /\ \A s \in Users : s # t => winAt'[s] = winAt[s]
  BY DEF Win!Goes, WinTypes

\* Nobody holds the mutex more or less.
LEMMA SameHolder ==
    ASSUME WinInv, owner' = owner, NEW t \in Users, NEW from, NEW to,
           winAt[t] = from, winAt'[t] = to, \A s \in Users : s # t => winAt'[s] = winAt[s],
           from \in {"in", "counted", "one in", "broadcast", "ending"}
               <=> to \in {"in", "counted", "one in", "broadcast", "ending"}
    PROVE  HoldersHold'
  <1>1. ASSUME NEW s \in Users
        PROVE  owner' = s <=> winAt'[s] \in {"in", "counted", "one in", "broadcast", "ending"}
    <2>1. owner = s <=> winAt[s] \in {"in", "counted", "one in", "broadcast", "ending"}
      BY DEF WinInv, HoldersHold
    <2>2. CASE s = t
      BY <2>1, <2>2
    <2>3. CASE s # t
      BY <2>1, <2>3
    <2>. QED BY <2>2, <2>3
  <1>. QED BY <1>1 DEF HoldersHold

\* Nobody waits more or less.
LEMMA SameWaiters ==
    ASSUME WinInv, waiters_' = waiters_,
           \A s \in Users : winAt'[s] \in {"counted", "released", "asleep", "woken"}
                          <=> winAt[s] \in {"counted", "released", "asleep", "woken"}
    PROVE  WaitersAreThere'
  <1>1. Win!InTheWait' = Win!InTheWait
    BY DEF Win!InTheWait, Win!At
  <1>. QED BY <1>1 DEF WinInv, WaitersAreThere

\* The mutex is taken and given up, by calls and by the wait.
LEMMA MutexKeepsWinInv ==
    ASSUME WinInv, NEW t \in Users, Win!Lock(t) \/ Win!Unlock(t) \/ Win!LetGo(t) \/ Win!Relock(t)
    PROVE  WinInv'
  <1>. USE DEF WinInv, WinTypes
  <1>1. PICK p \in {"in", "out", "released"} :
          /\ winAt[t] \in {"out", "in", "counted", "relock"} /\ Win!Goes(t, winAt[t], p)
          /\ p = "released" <=> winAt[t] = "counted"
          /\ p = "in" => owner = NoUser /\ owner' = t
          /\ p # "in" => winAt[t] \in {"in", "counted"} /\ owner' = NoUser
          /\ UNCHANGED <<waiters_, broadcasting_, last_event_>>
    BY DEF Win!Lock, Win!Unlock, Win!LetGo, Win!Relock, Win!Goes
  <1>a. /\ winAt' \in [Users -> WinPlaces] /\ winAt'[t] = p
        /\ \A s \in Users : s # t => winAt'[s] = winAt[s]
    <2>1. p \in WinPlaces
      BY DEF WinPlaces
    <2>. QED BY <1>1, <2>1, OneWinUserMoves
  <1>2. WinTypes'
    BY <1>1, <1>a
  <1>3. HoldersHold'
    BY <1>1, <1>a, WinConstants DEF HoldersHold
  <1>4. WaitersAreThere'
    BY <1>1, <1>a, SameWaiters
  <1>5. BroadcasterIsThere' /\ OneSignal' /\ EndIsTheEnd'
    <2>1. \A s \in Users, q \in {"last", "broadcast", "ending"} : winAt'[s] = q <=> winAt[s] = q
      BY <1>1, <1>a
    <2>. QED BY <1>1, <2>1 DEF BroadcasterIsThere, OneSignal, EndIsTheEnd
  <1>. QED BY <1>2, <1>3, <1>4, <1>5

\* Who has the mutex before it counts itself is not the broadcaster, and there is none.
LEMMA CountingInKeepsWinInv ==
    ASSUME WinInv, NEW t \in Users, Win!CountIn(t)
    PROVE  WinInv'
  <1>. USE DEF WinInv, WinTypes
  <1>1. /\ winAt[t] = "in" /\ Win!Goes(t, "in", "counted") /\ waiters_' = waiters_ + 1
        /\ UNCHANGED <<owner, broadcasting_, last_event_>>
    BY DEF Win!CountIn, Win!Goes
  <1>a. /\ winAt' \in [Users -> WinPlaces] /\ winAt'[t] = "counted"
        /\ \A s \in Users : s # t => winAt'[s] = winAt[s]
    <2>1. "counted" \in WinPlaces
      BY DEF WinPlaces
    <2>. QED BY <1>1, <2>1, OneWinUserMoves
  <1>2. WinTypes' /\ HoldersHold'
    <2>1. WinTypes'
      BY <1>1, <1>a
    <2>2. HoldersHold'
      BY <1>1, <1>a, SameHolder
    <2>. QED BY <2>1, <2>2
  <1>3. \A s \in Users : winAt[s] \notin {"broadcast", "ending"}
    BY <1>1 DEF HoldersHold
  <1>4. WaitersAreThere'
    <2>1. Win!InTheWait' = Win!InTheWait \cup {t} /\ t \notin Win!InTheWait
      BY <1>1, <1>a DEF Win!InTheWait, Win!At
    <2>. QED BY <1>1, <2>1, InTheWaitIs, FS_AddElement DEF WaitersAreThere
  <1>5. \A s \in Users : winAt'[s] \notin {"last", "broadcast", "ending"}
    BY <1>a, <1>3 DEF OneSignal
  <1>6. BroadcasterIsThere' /\ OneSignal' /\ EndIsTheEnd'
    BY <1>1, <1>3, <1>5 DEF BroadcasterIsThere, OneSignal, EndIsTheEnd
  <1>. QED BY <1>2, <1>4, <1>6

\* Steps that leave the mutex, waiters_ and the signal alone, and move threads only
\* from and to places that none of these depends on.
LEMMA MovingKeepsWinInv ==
    ASSUME WinInv, winAt' \in [Users -> WinPlaces], UNCHANGED <<owner, waiters_, broadcasting_, last_event_>>,
           \A s \in Users :
              \/ winAt'[s] = winAt[s]
              \/ winAt[s] \in {"released", "asleep"} /\ winAt'[s] \in {"asleep", "woken"}
              \/ winAt[s] \in {"in", "one in"} /\ winAt'[s] \in {"in", "one in"}
              \/ winAt[s] \in {"out", "one out"} /\ winAt'[s] \in {"out", "one out"}
    PROVE  WinInv'
  <1>. USE DEF WinInv, WinTypes
  <1>1. HoldersHold'
    BY DEF HoldersHold
  <1>2. WaitersAreThere'
    <2>1. Win!InTheWait' = Win!InTheWait
      BY DEF Win!InTheWait, Win!At
    <2>. QED BY <2>1 DEF WaitersAreThere
  <1>3. \A s \in Users, q \in {"last", "broadcast", "ending"} : winAt'[s] = q <=> winAt[s] = q
    OBVIOUS
  <1>4. BroadcasterIsThere' /\ OneSignal' /\ EndIsTheEnd'
    BY <1>3 DEF BroadcasterIsThere, OneSignal, EndIsTheEnd
  <1>. QED BY <1>1, <1>2, <1>4

LEMMA CreditsAreGiven ==
    ASSUME WinTypes, NEW n, NEW t \in Users, NEW to \in WinPlaces, winAt[t] # "asleep",
           Win!ReleaseSemaphore(n, t, to)
    PROVE  /\ winAt' \in [Users -> WinPlaces] /\ winAt'[t] = to
           /\ \A s \in Users : s # t =>
                 winAt'[s] = winAt[s] \/ (winAt[s] = "asleep" /\ winAt'[s] = "woken")
  BY DEF Win!ReleaseSemaphore, Win!At, WinTypes, WinPlaces

LEMMA WakingKeepsWinInv ==
    ASSUME WinInv, NEW t \in Users,
           \/ Win!WaitForCredit(t) \/ Win!TimeOut(t) \/ Win!SomebodyWaits(t) \/ Win!NotifyOne(t)
    PROVE  WinInv'
  <1>. USE DEF WinInv
  <1>1. CASE Win!WaitForCredit(t) \/ Win!TimeOut(t) \/ Win!SomebodyWaits(t)
    <2>1. PICK p \in {"woken", "asleep", "one in", "one out"} :
            /\ Win!Goes(t, winAt[t], p)
            /\ \/ winAt[t] \in {"released", "asleep"} /\ p \in {"asleep", "woken"}
               \/ winAt[t] = "in" /\ p = "one in"
               \/ winAt[t] = "out" /\ p = "one out"
      <3>1. CASE Win!WaitForCredit(t)
        BY <3>1 DEF Win!WaitForCredit, Win!Goes
      <3>2. CASE Win!TimeOut(t)
        BY <3>2 DEF Win!TimeOut, Win!Goes
      <3>3. CASE Win!SomebodyWaits(t)
        BY <3>3 DEF Win!SomebodyWaits, Win!Goes
      <3>. QED BY <1>1, <3>1, <3>2, <3>3
    <2>2. UNCHANGED <<owner, waiters_, broadcasting_, last_event_>>
      BY <1>1 DEF Win!WaitForCredit, Win!TimeOut, Win!SomebodyWaits
    <2>a. p \in WinPlaces
      BY DEF WinPlaces
    <2>3. /\ winAt' \in [Users -> WinPlaces] /\ winAt'[t] = p
          /\ \A s \in Users : s # t => winAt'[s] = winAt[s]
      BY <2>1, <2>a, OneWinUserMoves
    <2>4. \A s \in Users :
              \/ winAt'[s] = winAt[s]
              \/ winAt[s] \in {"released", "asleep"} /\ winAt'[s] \in {"asleep", "woken"}
              \/ winAt[s] \in {"in", "one in"} /\ winAt'[s] \in {"in", "one in"}
              \/ winAt[s] \in {"out", "one out"} /\ winAt'[s] \in {"out", "one out"}
      BY <2>1, <2>3
    <2>. QED BY <2>2, <2>3, <2>4, MovingKeepsWinInv
  <1>2. CASE Win!NotifyOne(t)
    <2>1. PICK to \in {"in", "out"} : winAt[t] = (IF to = "in" THEN "one in" ELSE "one out")
                                      /\ Win!ReleaseSemaphore(1, t, to)
      BY <1>2 DEF Win!NotifyOne
    <2>2. UNCHANGED <<owner, waiters_, broadcasting_, last_event_>>
      BY <1>2 DEF Win!NotifyOne
    <2>3. to \in WinPlaces /\ winAt[t] # "asleep"
      BY <2>1 DEF WinPlaces
    <2>4. /\ winAt' \in [Users -> WinPlaces] /\ winAt'[t] = to
          /\ \A s \in Users : s # t =>
                winAt'[s] = winAt[s] \/ (winAt[s] = "asleep" /\ winAt'[s] = "woken")
      BY <2>1, <2>3, CreditsAreGiven
    <2>5. \A s \in Users :
              \/ winAt'[s] = winAt[s]
              \/ winAt[s] \in {"released", "asleep"} /\ winAt'[s] \in {"asleep", "woken"}
              \/ winAt[s] \in {"in", "one in"} /\ winAt'[s] \in {"in", "one in"}
              \/ winAt[s] \in {"out", "one out"} /\ winAt'[s] \in {"out", "one out"}
      BY <2>1, <2>4
    <2>. QED BY <2>2, <2>4, <2>5, MovingKeepsWinInv
  <1>. QED BY <1>1, <1>2

\* The last to leave during a broadcast is about to say so; there was no such one,
\* since it counts itself out only now.
LEMMA CountingOutKeepsWinInv ==
    ASSUME WinInv, NEW t \in Users, Win!CountOut(t)
    PROVE  WinInv'
  <1>. USE DEF WinInv, WinTypes
  <1>1. PICK p \in {"last", "relock"} :
          /\ winAt[t] = "woken" /\ Win!Goes(t, "woken", p) /\ waiters_' = waiters_ - 1
          /\ p = "last" <=> broadcasting_ /\ waiters_ = 1
          /\ UNCHANGED <<owner, broadcasting_, last_event_>>
    BY DEF Win!CountOut, Win!Goes
  <1>a. /\ winAt' \in [Users -> WinPlaces] /\ winAt'[t] = p
        /\ \A s \in Users : s # t => winAt'[s] = winAt[s]
    <2>1. p \in WinPlaces
      BY DEF WinPlaces
    <2>. QED BY <1>1, <2>1, OneWinUserMoves
  <1>2. waiters_ > 0
    BY <1>1, SomebodyIsCounted
  <1>3. WinTypes' /\ HoldersHold'
    <2>1. WinTypes'
      BY <1>1, <1>a, <1>2
    <2>2. HoldersHold'
      BY <1>1, <1>a, <1>2, SameHolder
    <2>. QED BY <2>1, <2>2
  <1>4. WaitersAreThere'
    <2>1. Win!InTheWait' = Win!InTheWait \ {t} /\ t \in Win!InTheWait
      BY <1>1, <1>a DEF Win!InTheWait, Win!At
    <2>. QED BY <1>1, <2>1, InTheWaitIs, FS_RemoveElement DEF WaitersAreThere
  <1>5. last_event_ = 0 /\ \A s \in Users : winAt[s] \notin {"last", "ending"}
    BY <1>2 DEF OneSignal, EndIsTheEnd
  <1>6. BroadcasterIsThere'
    <2>1. \A s \in Users, q \in {"broadcast", "ending"} : winAt'[s] = q <=> winAt[s] = q
      BY <1>1, <1>a
    <2>. QED BY <1>1, <2>1 DEF BroadcasterIsThere
  <1>7. OneSignal'
    <2>1. p = "last" => waiters_' = 0 /\ \E s \in Users : winAt'[s] = "broadcast"
      <3>1. ASSUME p = "last" PROVE \E s \in Users : winAt[s] = "broadcast" /\ s # t
        BY <1>1, <1>5, <3>1 DEF BroadcasterIsThere
      <3>2. p = "last" => waiters_' = 0
        BY <1>1
      <3>. QED BY <1>a, <3>1, <3>2
    <2>2. \A s \in Users : winAt'[s] = "last" => s = t /\ p = "last"
      BY <1>a, <1>5
    <2>. QED BY <1>1, <1>5, <2>1, <2>2 DEF OneSignal
  <1>8. EndIsTheEnd'
    BY <1>1, <1>a, <1>5 DEF EndIsTheEnd
  <1>. QED BY <1>3, <1>4, <1>6, <1>7, <1>8

LEMMA TellingKeepsWinInv ==
    ASSUME WinInv, NEW t \in Users, Win!TellTheBroadcaster(t)
    PROVE  WinInv'
  <1>. USE DEF WinInv, WinTypes
  <1>1. /\ winAt[t] = "last" /\ Win!Goes(t, "last", "relock")
        /\ last_event_' = last_event_ + 1
        /\ UNCHANGED <<owner, waiters_, broadcasting_>>
    BY DEF Win!TellTheBroadcaster, Win!Goes
  <1>a. /\ winAt' \in [Users -> WinPlaces] /\ winAt'[t] = "relock"
        /\ \A s \in Users : s # t => winAt'[s] = winAt[s]
    <2>1. "relock" \in WinPlaces
      BY DEF WinPlaces
    <2>. QED BY <1>1, <2>1, OneWinUserMoves
  <1>2. WinTypes' /\ HoldersHold'
    <2>1. WinTypes'
      BY <1>1, <1>a
    <2>2. HoldersHold'
      BY <1>1, <1>a, SameHolder
    <2>. QED BY <2>1, <2>2
  <1>3. WaitersAreThere'
    BY <1>1, <1>a, SameWaiters
  <1>4. \A s \in Users, q \in {"broadcast", "ending"} : winAt'[s] = q <=> winAt[s] = q
    BY <1>1, <1>a
  <1>5. BroadcasterIsThere' /\ EndIsTheEnd'
    BY <1>1, <1>4 DEF BroadcasterIsThere, EndIsTheEnd
  <1>6. last_event_ = 0 /\ waiters_ = 0 /\ \E s \in Users : winAt[s] = "broadcast"
    BY <1>1 DEF OneSignal
  <1>7. \A s \in Users : winAt'[s] # "last"
    BY <1>1, <1>a DEF OneSignal
  <1>8. OneSignal'
    BY <1>1, <1>4, <1>6, <1>7 DEF OneSignal
  <1>. QED BY <1>2, <1>3, <1>5, <1>8

LEMMA BroadcastKeepsWinInv ==
    ASSUME WinInv, NEW t \in Users, Win!NotifyAll(t)
    PROVE  WinInv'
  <1>. USE DEF WinInv, WinTypes
  <1>1. /\ winAt[t] = "in" /\ waiters_ > 0 /\ broadcasting_' = TRUE
        /\ Win!ReleaseSemaphore(waiters_, t, "broadcast")
        /\ UNCHANGED <<owner, waiters_, last_event_>>
    BY DEF Win!NotifyAll
  <1>2. /\ winAt' \in [Users -> WinPlaces] /\ winAt'[t] = "broadcast"
        /\ \A s \in Users : s # t =>
              winAt'[s] = winAt[s] \/ (winAt[s] = "asleep" /\ winAt'[s] = "woken")
    <2>1. "broadcast" \in WinPlaces /\ winAt[t] # "asleep"
      BY <1>1 DEF WinPlaces
    <2>. QED BY <1>1, <2>1, CreditsAreGiven
  <1>3. WinTypes' /\ HoldersHold'
    BY <1>1, <1>2 DEF HoldersHold
  <1>4. WaitersAreThere'
    BY <1>1, <1>2, SameWaiters
  <1>5. last_event_ = 0 /\ \A s \in Users : winAt[s] \notin {"last", "ending"}
    BY <1>1 DEF OneSignal, EndIsTheEnd
  <1>6. \A s \in Users : winAt'[s] \notin {"last", "ending"}
    BY <1>2, <1>5
  <1>7. BroadcasterIsThere' /\ OneSignal' /\ EndIsTheEnd'
    BY <1>1, <1>2, <1>5, <1>6 DEF BroadcasterIsThere, OneSignal, EndIsTheEnd
  <1>. QED BY <1>3, <1>4, <1>7

LEMMA EndingKeepsWinInv ==
    ASSUME WinInv, NEW t \in Users, Win!HearTheLast(t) \/ Win!EndOfBroadcast(t)
    PROVE  WinInv'
  <1>. USE DEF WinInv, WinTypes
  <1>1. CASE Win!HearTheLast(t)
    <2>1. /\ last_event_ > 0 /\ last_event_' = last_event_ - 1
          /\ winAt[t] = "broadcast" /\ Win!Goes(t, "broadcast", "ending")
          /\ UNCHANGED <<owner, waiters_, broadcasting_>>
      BY <1>1 DEF Win!HearTheLast, Win!Goes
    <2>a. /\ winAt' \in [Users -> WinPlaces] /\ winAt'[t] = "ending"
          /\ \A s \in Users : s # t => winAt'[s] = winAt[s]
      <3>1. "ending" \in WinPlaces
        BY DEF WinPlaces
      <3>. QED BY <2>1, <3>1, OneWinUserMoves
    <2>2. WinTypes' /\ HoldersHold'
      <3>1. WinTypes'
        BY <2>1, <2>a
      <3>2. HoldersHold'
        BY <2>1, <2>a, SameHolder
      <3>. QED BY <3>1, <3>2
    <2>3. WaitersAreThere'
      BY <2>1, <2>a, SameWaiters
    <2>4. waiters_ = 0 /\ last_event_' = 0 /\ \A s \in Users : winAt[s] # "last"
      BY <2>1 DEF OneSignal
    <2>5. \A s \in Users : winAt'[s] # "last"
      BY <2>a, <2>4
    <2>6. broadcasting_
      BY <2>1 DEF BroadcasterIsThere
    <2>7. BroadcasterIsThere' /\ OneSignal' /\ EndIsTheEnd'
      BY <2>1, <2>a, <2>4, <2>5, <2>6 DEF BroadcasterIsThere, OneSignal, EndIsTheEnd
    <2>. QED BY <2>2, <2>3, <2>7
  <1>2. CASE Win!EndOfBroadcast(t)
    <2>1. /\ winAt[t] = "ending" /\ Win!Goes(t, "ending", "in") /\ broadcasting_' = FALSE
          /\ UNCHANGED <<owner, waiters_, last_event_>>
      BY <1>2 DEF Win!EndOfBroadcast, Win!Goes
    <2>a. /\ winAt' \in [Users -> WinPlaces] /\ winAt'[t] = "in"
          /\ \A s \in Users : s # t => winAt'[s] = winAt[s]
      <3>1. "in" \in WinPlaces
        BY DEF WinPlaces
      <3>. QED BY <2>1, <3>1, OneWinUserMoves
    <2>2. WinTypes' /\ HoldersHold'
      <3>1. WinTypes'
        BY <2>1, <2>a
      <3>2. HoldersHold'
        BY <2>1, <2>a, SameHolder
      <3>. QED BY <3>1, <3>2
    <2>3. WaitersAreThere'
      BY <2>1, <2>a, SameWaiters
    <2>4. \A s \in Users : s # t => winAt[s] \notin {"broadcast", "ending"}
      BY <2>1 DEF HoldersHold
    <2>5. last_event_ = 0 /\ \A s \in Users : winAt[s] # "last"
      BY <2>1, <2>4 DEF OneSignal
    <2>6. \A s \in Users : winAt'[s] \notin {"last", "broadcast", "ending"}
      BY <2>a, <2>4, <2>5
    <2>7. BroadcasterIsThere' /\ OneSignal' /\ EndIsTheEnd'
      BY <2>1, <2>5, <2>6 DEF BroadcasterIsThere, OneSignal, EndIsTheEnd
    <2>. QED BY <2>2, <2>3, <2>7
  <1>. QED BY <1>1, <1>2

LEMMA WinKeepsInv ==
    ASSUME WinInv, [Win!Next]_(Win!vars)
    PROVE  WinInv'
  <1>1. CASE UNCHANGED Win!vars
    BY <1>1 DEF Win!vars, WinInv, WinTypes, HoldersHold, WaitersAreThere, Win!InTheWait, Win!At,
                BroadcasterIsThere, OneSignal, EndIsTheEnd
  <1>2. CASE Win!Next
    BY <1>2, MutexKeepsWinInv, CountingInKeepsWinInv, WakingKeepsWinInv, CountingOutKeepsWinInv,
       TellingKeepsWinInv, BroadcastKeepsWinInv, EndingKeepsWinInv DEF Win!Next, Win!GoesOn
  <1>. QED BY <1>1, <1>2

\* When notify_all() returns everybody who waited has left the semaphore, for any
\* number of threads, with waits that run out and other notifications in between
\* (win32/condition_variable.hpp:52-166).
THEOREM BroadcastLeavesNobody == Win!Spec => []Win!BroadcastReachesAll
  <1>1. WinInv /\ [Win!Next]_(Win!vars) => WinInv'
    BY WinKeepsInv
  <1>2. ASSUME WinInv PROVE Win!BroadcastReachesAll
    <2>. SUFFICES ASSUME NEW t \in Users, winAt[t] = "ending"
                  PROVE  Win!InTheWait = {} /\ last_event_ = 0 /\ waiters_ = 0
      BY DEF Win!BroadcastReachesAll
    <2>1. waiters_ = 0 /\ Win!InTheWait = {}
      BY <1>2, SomebodyIsCounted DEF WinInv, EndIsTheEnd
    <2>2. \A s \in Users : winAt[s] # "broadcast"
      BY <1>2 DEF WinInv, HoldersHold
    <2>. QED BY <1>2, <2>1, <2>2 DEF WinInv, OneSignal, WinTypes
  <1>. QED BY <1>1, <1>2, WinInitially, PTL DEF Win!Spec

\* What TLC checks of both (win32/condition_variable.hpp, win32/recursive_mutex.hpp).
THEOREM WindowsKeepsItsPromises == Win!Spec /\ Rec!Spec => []WindowsDoesAsPthreads
  <1>1. Win!BroadcastReachesAll /\ Rec!LocksNest => WindowsDoesAsPthreads
    BY DEF WindowsDoesAsPthreads
  <1>. QED BY <1>1, BroadcastLeavesNobody, RecursiveLocksNest, PTL

-----------------------------------------------------------------------------
(* The frames of a video: the three images stay three, libvlc writes into  *)
(* buffer_ alone, and what current_ holds, once it has changed, is newer   *)
(* than what was shown and older than what is being written.               *)

Busy == producer \in {"writing", "display"}

VideoTypes ==
    /\ current \in Src!Images /\ buffer \in Src!Images /\ result \in Src!Images
    /\ current # buffer /\ current # result /\ buffer # result
    /\ content \in [Src!Images -> Nat] /\ frame \in Nat /\ shown \in Nat \X Nat
    /\ producer \in {"next", "writing", "display"}

FramesInOrder ==
    /\ Busy => target = buffer /\ shown[1] < frame
    /\ shown[1] <= frame
    /\ producer = "display" => content[buffer] = frame
    /\ changed =>
         /\ shown[1] < content[current] /\ content[current] <= frame
         /\ Busy => content[current] < frame

WhatIsShown ==
    /\ content[result] = shown[1]
    /\ shown # <<0, 0>> => shown[1] > shown[2]

VideoInv == VideoTypes /\ FramesInOrder /\ WhatIsShown

LEMMA VideoInitially == Src!Init /\ ~webcam => VideoInv
  BY DEF Src!Init, Src!Images, Src!Torn, VideoInv, VideoTypes, FramesInOrder, WhatIsShown, Busy

LEMMA ProducerKeepsVideoInv ==
    ASSUME VideoInv, ~webcam, Src!Produce
    PROVE  VideoInv'
  <1>. USE DEF VideoInv, Busy
  <1>1. CASE Src!BeginFrame
    <2>1. /\ producer = "next" /\ producer' = "writing" /\ frame' = frame + 1
          /\ target' = buffer /\ content' = [content EXCEPT ![buffer] = 0]
          /\ UNCHANGED <<current, buffer, result, changed, shown>>
      BY <1>1 DEF Src!BeginFrame, Src!Target, Src!Torn, Src!images
    <2>2. VideoTypes'
      BY <2>1 DEF VideoTypes
    <2>3. content'[current] = content[current] /\ content'[result] = content[result]
      BY <2>1 DEF VideoTypes
    <2>4. content[current] \in Nat /\ frame \in Nat /\ shown[1] \in Nat
      BY DEF VideoTypes
    <2>5. FramesInOrder'
      BY <2>1, <2>3, <2>4 DEF FramesInOrder
    <2>6. WhatIsShown'
      BY <2>1, <2>3 DEF WhatIsShown
    <2>. QED BY <2>2, <2>5, <2>6
  <1>2. CASE Src!EndFrame
    <2>1. /\ producer = "writing" /\ producer' = "display" /\ target = buffer
          /\ content' = [content EXCEPT ![buffer] = frame]
          /\ UNCHANGED <<current, buffer, result, changed, shown, frame, target>>
      BY <1>2 DEF Src!EndFrame, Src!images, FramesInOrder
    <2>2. VideoTypes'
      BY <2>1 DEF VideoTypes
    <2>3. /\ content'[current] = content[current] /\ content'[result] = content[result]
          /\ content'[buffer] = frame
      BY <2>1 DEF VideoTypes
    <2>4. FramesInOrder'
      BY <2>1, <2>3 DEF FramesInOrder
    <2>5. WhatIsShown'
      BY <2>1, <2>3 DEF WhatIsShown
    <2>. QED BY <2>2, <2>4, <2>5
  <1>3. CASE Src!Display
    <2>1. /\ producer = "display" /\ producer' = "next" /\ changed' = TRUE
          /\ current' = buffer /\ buffer' = current
          /\ UNCHANGED <<result, content, shown, frame>>
      BY <1>3 DEF Src!Display
    <2>2. VideoTypes'
      BY <2>1 DEF VideoTypes
    <2>3. content'[current'] = frame /\ frame \in Nat /\ shown[1] < frame
      BY <2>1 DEF FramesInOrder, VideoTypes
    <2>4. FramesInOrder'
      BY <2>1, <2>3 DEF FramesInOrder
    <2>5. WhatIsShown'
      BY <2>1 DEF WhatIsShown
    <2>. QED BY <2>2, <2>4, <2>5
  <1>4. CASE Src!SeesDie
    BY <1>4 DEF Src!SeesDie
  <1>. QED BY <1>1, <1>2, <1>3, <1>4 DEF Src!Produce

LEMMA ProcessKeepsVideoInv ==
    ASSUME VideoInv, ~webcam, Src!Process, changed
    PROVE  VideoInv'
  <1>. USE DEF VideoInv, Busy
  <1>1. /\ current' = result /\ result' = current /\ changed' = FALSE
        /\ shown' = <<content[current], shown[1]>>
        /\ UNCHANGED <<buffer, content, target, producer, frame>>
    BY DEF Src!Process
  <1>2. content[current] \in Nat /\ shown[1] \in Nat
    BY DEF VideoTypes
  <1>3. shown'[1] = content[current] /\ shown'[2] = shown[1]
    BY <1>1
  <1>4. VideoTypes'
    BY <1>1, <1>2 DEF VideoTypes
  <1>5. FramesInOrder'
    BY <1>1, <1>3 DEF FramesInOrder
  <1>6. WhatIsShown'
    BY <1>1, <1>2, <1>3 DEF WhatIsShown, FramesInOrder
  <1>. QED BY <1>4, <1>5, <1>6

LEMMA VideoKeepsInv ==
    ASSUME ~webcam => VideoInv, [Src!Next]_(Src!vars)
    PROVE  (~webcam => VideoInv)'
  <1>1. webcam' = webcam
    BY DEF Src!Next, Src!Produce, Src!Consume, Src!SeesDie, Src!BeginFrame, Src!EndFrame, Src!Display,
           Src!Call, Src!Process, Src!Destroy, Src!Destroyed, Src!SpuriousWakeUp, Src!vars
  <1>. SUFFICES ASSUME ~webcam, VideoInv PROVE VideoInv'
    BY <1>1
  <1>2. ASSUME UNCHANGED <<current, buffer, result, changed, content, target, producer, frame, shown>>
        PROVE  VideoInv'
    BY <1>2 DEF VideoInv, VideoTypes, FramesInOrder, WhatIsShown, Busy
  <1>3. CASE Src!Produce
    BY <1>3, ProducerKeepsVideoInv
  <1>4. CASE Src!Process
    <2>1. CASE changed
      BY <1>4, <2>1, ProcessKeepsVideoInv
    <2>2. CASE ~changed
      BY <1>2, <1>4, <2>2 DEF Src!Process, Src!images
    <2>. QED BY <2>1, <2>2
  <1>5. CASE Src!Call \/ Src!Destroy \/ Src!Destroyed \/ Src!SpuriousWakeUp \/ UNCHANGED Src!vars
    BY <1>2, <1>5 DEF Src!Call, Src!Destroy, Src!Destroyed, Src!SpuriousWakeUp, Src!vars, Src!images
  <1>. QED BY <1>3, <1>4, <1>5 DEF Src!Next, Src!Consume

\* Each frame of a video that process() hands out is whole and newer than the last,
\* and stays so until the next, although it is written without a lock; for any
\* number of frames (video.hpp:129-144 and 178-191).
THEOREM VideoFramesAreWholeAndNew == Src!Spec => []Src!FramesAreWholeAndNew
  <1>. DEFINE I == ~webcam => VideoInv
  <1>1. Src!Init => I
    BY VideoInitially
  <1>2. I /\ [Src!Next]_(Src!vars) => I'
    BY VideoKeepsInv
  <1>3. I => Src!FramesAreWholeAndNew
    BY DEF Src!FramesAreWholeAndNew, VideoInv, WhatIsShown
  <1>. QED BY <1>1, <1>2, <1>3, PTL DEF Src!Spec
=============================================================================
