-------------------------- MODULE SemaphoreProofs --------------------------
(***************************************************************************)
(* What is proved of module Semaphore for every set of threads and every   *)
(* amount.                                                                 *)
(***************************************************************************)
EXTENDS Semaphore, FiniteSetTheorems, TLAPS

\* waiters_ counts those asleep and those on their way, late ones included.
WaitersCounted == waiters = Cardinality(Waits)

\* The inductive invariant.
Inv == TypeOK /\ WaitersCounted /\ NobodySleepsOnCredit

-----------------------------------------------------------------------------
LEMMA MoreOnTheWay ==
    ASSUME NEW a \in Nat \ {0}, NEW w \in Nat, NEW n \in Nat
    PROVE  a * (w + 1) + n <= a * (w + n + 1)
  <1>1. a * (w + n + 1) = a * (w + 1) + a * n
    OBVIOUS
  <1>2. PICK b \in Nat : a = b + 1
    <2>1. a - 1 \in Nat /\ a = (a - 1) + 1
      OBVIOUS
    <2>. QED BY <2>1
  <1>3. a * n = b * n + n
    BY <1>2
  <1>4. b * n \in Nat
    OBVIOUS
  <1>. QED BY <1>1, <1>3, <1>4

LEMMA AtLeastOneAmount ==
    ASSUME NEW a \in Nat \ {0}, NEW w \in Nat
    PROVE  a * (w + 1) \in Nat /\ a <= a * (w + 1)
  <1>1. a * (w + 1) = a * w + a
    OBVIOUS
  <1>2. a * w \in Nat
    OBVIOUS
  <1>. QED BY <1>1, <1>2

LEMMA FiniteSets_ ==
    ASSUME SemaphoreAssumption, TypeOK
    PROVE  /\ IsFiniteSet(Waits) /\ Cardinality(Waits) \in Nat
           /\ IsFiniteSet(OnTheWay) /\ Cardinality(OnTheWay) \in Nat
           /\ IsFiniteSet(asleep) /\ Cardinality(asleep) \in Nat
           /\ OnTheWay = Waits \ (asleep \cup timedout)
           /\ asleep \subseteq Waits /\ Cardinality(asleep) <= Cardinality(Waits)
  <1>1. /\ Waits \subseteq Threads /\ OnTheWay \subseteq Threads
        /\ OnTheWay = Waits \ (asleep \cup timedout) /\ asleep \subseteq Waits
    BY DEF Waits, OnTheWay, TypeOK
  <1>2. IsFiniteSet(Waits) /\ IsFiniteSet(OnTheWay)
    BY <1>1, FS_Subset DEF SemaphoreAssumption
  <1>3. IsFiniteSet(asleep) /\ Cardinality(asleep) <= Cardinality(Waits)
    BY <1>1, <1>2, FS_Subset
  <1>. QED BY <1>1, <1>2, <1>3, FS_CardinalityType

\* The threads in a call when the place of one of them changes.
LEMMA OneThreadMoves ==
    ASSUME SemaphoreAssumption, TypeOK, NEW t \in Threads,
           NEW x \in {"none", "acquire", "timed"}, Becomes(t, x)
    PROVE  /\ at' \in [Threads -> {"none", "acquire", "timed"}]
           /\ at'[t] = x
           /\ \A s \in Threads : s # t => at'[s] = at[s]
           /\ Waits' = IF x = "none" THEN Waits \ {t} ELSE Waits \cup {t}
           /\ Cardinality(Waits') =
                 IF x = "none" THEN IF t \in Waits THEN Cardinality(Waits) - 1 ELSE Cardinality(Waits)
                 ELSE IF t \in Waits THEN Cardinality(Waits) ELSE Cardinality(Waits) + 1
  <1>1. /\ at' \in [Threads -> {"none", "acquire", "timed"}]
        /\ at'[t] = x
        /\ \A s \in Threads : s # t => at'[s] = at[s]
    BY DEF Becomes, TypeOK
  <1>2. Waits' = IF x = "none" THEN Waits \ {t} ELSE Waits \cup {t}
    BY <1>1 DEF Waits
  <1>. QED BY <1>1, <1>2, FiniteSets_, FS_AddElement, FS_RemoveElement

\* A thread that finds too little goes to sleep; how many are on their way
\* does not matter then.
LEMMA LittleCredit ==
    ASSUME SemaphoreAssumption, TypeOK', credit' < Amount
    PROVE  NobodySleepsOnCredit'
  <1>1. IsFiniteSet(OnTheWay')
    <2>1. OnTheWay' \subseteq Threads
      BY DEF OnTheWay
    <2>. QED BY <2>1, FS_Subset DEF SemaphoreAssumption
  <1>2. Cardinality(OnTheWay') \in Nat
    BY <1>1, FS_CardinalityType
  <1>3. Amount \in Nat \ {0} /\ credit' \in Nat
    BY DEF SemaphoreAssumption, TypeOK
  <1>4. /\ Amount * (Cardinality(OnTheWay') + 1) \in Nat
        /\ Amount <= Amount * (Cardinality(OnTheWay') + 1)
    BY <1>2, <1>3, AtLeastOneAmount
  <1>5. credit' < Amount * (Cardinality(OnTheWay') + 1)
    BY <1>3, <1>4
  <1>. QED BY <1>5 DEF NobodySleepsOnCredit
-----------------------------------------------------------------------------
\* What the takers do to the sum: an amount less, and one less on the way.
LEMMA TakenByOneOnTheWay ==
    ASSUME SemaphoreAssumption, Inv, NEW t \in Threads, t \in OnTheWay,
           credit >= Amount, Take(t, Amount), UNCHANGED timedout
    PROVE  NobodySleepsOnCredit'
  <1>1. OnTheWay' = OnTheWay \ {t}
    BY OneThreadMoves DEF OnTheWay, Take, Inv
  <1>2. Cardinality(OnTheWay') = Cardinality(OnTheWay) - 1 /\ Cardinality(OnTheWay) \in Nat
    BY <1>1, FiniteSets_, FS_RemoveElement DEF Inv
  <1>3. ASSUME asleep' # {}
        PROVE  credit' < Amount * (Cardinality(OnTheWay') + 1)
    <2>1. Amount \in Nat /\ credit \in Nat /\ credit' = credit - Amount
      BY DEF SemaphoreAssumption, Inv, TypeOK, Take
    <2>2. credit < Amount * (Cardinality(OnTheWay) + 1)
      BY <1>3 DEF Inv, NobodySleepsOnCredit, Take
    <2>3. Amount * (Cardinality(OnTheWay) + 1) = Amount * (Cardinality(OnTheWay') + 1) + Amount
      BY <1>2, <2>1
    <2>4. Amount * (Cardinality(OnTheWay') + 1) \in Int
      BY <1>2, <2>1
    <2>. QED BY <2>1, <2>2, <2>3, <2>4
  <1>. QED BY <1>3 DEF NobodySleepsOnCredit

\* A step that leaves the sleepers, or has fewer of them, and takes nobody
\* off the way keeps the sum if the credit does not grow.
LEMMA NoMoreCredit ==
    ASSUME SemaphoreAssumption, Inv, asleep' \subseteq asleep,
           OnTheWay' = OnTheWay, credit' \in Nat, credit' <= credit
    PROVE  NobodySleepsOnCredit'
  <1>1. Amount * (Cardinality(OnTheWay) + 1) \in Nat
    BY FiniteSets_, AtLeastOneAmount DEF Inv, SemaphoreAssumption
  <1>2. credit \in Nat
    BY DEF Inv, TypeOK
  <1>3. ASSUME asleep' # {}
        PROVE  credit' < Amount * (Cardinality(OnTheWay') + 1)
    <2>1. credit < Amount * (Cardinality(OnTheWay) + 1)
      BY <1>3 DEF Inv, NobodySleepsOnCredit
    <2>. QED BY <1>1, <1>2, <2>1
  <1>. QED BY <1>3 DEF NobodySleepsOnCredit

-----------------------------------------------------------------------------
LEMMA AcquireKeepsInv ==
    ASSUME SemaphoreAssumption, Inv, NEW t \in Threads, Acquire(t)
    PROVE  Inv'
  <1>. USE DEF Inv
  <1>1. at[t] = "none" /\ t \notin Waits /\ t \notin asleep /\ t \notin OnTheWay /\ t \notin timedout
    BY DEF Acquire, TypeOK, Waits, OnTheWay
  <1>2. CASE credit < Amount /\ Sleep(t, "acquire") /\ waiters' = waiters + 1
    <2>1. TypeOK'
      BY <1>1, <1>2, OneThreadMoves DEF TypeOK, Acquire, Sleep
    <2>2. WaitersCounted'
      BY <1>1, <1>2, OneThreadMoves DEF WaitersCounted, Sleep
    <2>3. NobodySleepsOnCredit'
      BY <1>2, <2>1, LittleCredit DEF Sleep
    <2>. QED BY <2>1, <2>2, <2>3
  <1>3. CASE credit >= Amount /\ Take(t, Amount) /\ UNCHANGED waiters
    <2>0. credit' = credit - Amount /\ credit \in Nat /\ Amount \in Nat
      BY <1>3 DEF Take, TypeOK, SemaphoreAssumption
    <2>1. TypeOK'
      <3>1. credit' \in Nat
        BY <1>3, <2>0
      <3>. QED BY <1>1, <1>3, <3>1, OneThreadMoves DEF TypeOK, Acquire, Take
    <2>2. WaitersCounted'
      BY <1>1, <1>3, OneThreadMoves DEF WaitersCounted, Take
    <2>3. OnTheWay' = OnTheWay
      BY <1>1, <1>3, OneThreadMoves DEF OnTheWay, Acquire, Take
    <2>4. NobodySleepsOnCredit'
      BY <1>3, <2>0, <2>1, <2>3, NoMoreCredit DEF Take, TypeOK
    <2>. QED BY <2>1, <2>2, <2>4
  <1>. QED BY <1>2, <1>3 DEF Acquire

LEMMA WokenInAcquireKeepsInv ==
    ASSUME SemaphoreAssumption, Inv, NEW t \in Threads, WokenInAcquire(t)
    PROVE  Inv'
  <1>. USE DEF Inv
  <1>1. /\ at[t] = "acquire" /\ t \notin asleep /\ t \notin timedout
        /\ t \in Waits /\ t \in OnTheWay /\ UNCHANGED timedout
    BY DEF WokenInAcquire, Awake, TypeOK, Waits, OnTheWay
  <1>2. CASE credit < Amount /\ Sleep(t, "acquire") /\ UNCHANGED waiters
    <2>1. TypeOK'
      BY <1>1, <1>2, OneThreadMoves DEF TypeOK, Sleep
    <2>2. WaitersCounted'
      BY <1>1, <1>2, OneThreadMoves DEF WaitersCounted, Sleep
    <2>3. NobodySleepsOnCredit'
      BY <1>2, <2>1, LittleCredit DEF Sleep
    <2>. QED BY <2>1, <2>2, <2>3
  <1>3. CASE credit >= Amount /\ Take(t, Amount) /\ waiters' = waiters - 1
    <2>0. credit' \in Nat
      BY <1>3 DEF Take, TypeOK, SemaphoreAssumption
    <2>2. WaitersCounted'
      BY <1>1, <1>3, OneThreadMoves DEF WaitersCounted, Take
    <2>3. waiters' \in Nat
      <3>1. IsFiniteSet(Waits')
        BY <1>3, OneThreadMoves, FiniteSets_, FS_RemoveElement DEF Take
      <3>. QED BY <2>2, <3>1, FS_CardinalityType DEF WaitersCounted
    <2>1. TypeOK'
      BY <1>1, <1>3, <2>0, <2>3, OneThreadMoves DEF TypeOK, Take
    <2>4. NobodySleepsOnCredit'
      BY <1>1, <1>3, TakenByOneOnTheWay
    <2>. QED BY <2>1, <2>2, <2>4
  <1>. QED BY <1>2, <1>3 DEF WokenInAcquire

LEMMA TimedAcquireKeepsInv ==
    ASSUME SemaphoreAssumption, Inv, NEW t \in Threads, TimedAcquire(t)
    PROVE  Inv'
  <1>. USE DEF Inv
  <1>1. /\ at[t] = "none" /\ t \notin Waits /\ t \notin asleep /\ t \notin OnTheWay
        /\ t \notin timedout /\ Amount = 1 /\ UNCHANGED timedout
    BY DEF TimedAcquire, TypeOK, Waits, OnTheWay, SemaphoreAssumption
  <1>2. CASE credit <= 0 /\ Sleep(t, "timed") /\ waiters' = waiters + 1
    <2>1. TypeOK'
      BY <1>1, <1>2, OneThreadMoves DEF TypeOK, Sleep
    <2>2. WaitersCounted'
      BY <1>1, <1>2, OneThreadMoves DEF WaitersCounted, Sleep
    <2>3. credit' < Amount
      BY <1>1, <1>2 DEF Sleep, TypeOK
    <2>4. NobodySleepsOnCredit'
      BY <2>1, <2>3, LittleCredit
    <2>. QED BY <2>1, <2>2, <2>4
  <1>3. CASE credit > 0 /\ Take(t, 1) /\ UNCHANGED waiters
    <2>0. credit' = credit - 1 /\ credit \in Nat /\ credit' \in Nat
      BY <1>3 DEF Take, TypeOK
    <2>1. TypeOK'
      BY <1>1, <1>3, <2>0, OneThreadMoves DEF TypeOK, Take
    <2>2. WaitersCounted'
      BY <1>1, <1>3, OneThreadMoves DEF WaitersCounted, Take
    <2>3. OnTheWay' = OnTheWay
      BY <1>1, <1>3, OneThreadMoves DEF OnTheWay, Take
    <2>4. NobodySleepsOnCredit'
      BY <1>3, <2>0, <2>3, NoMoreCredit DEF Take
    <2>. QED BY <2>1, <2>2, <2>4
  <1>. QED BY <1>2, <1>3 DEF TimedAcquire

LEMMA TimeOutKeepsInv ==
    ASSUME SemaphoreAssumption, Inv, NEW t \in Threads, TimeOut(t)
    PROVE  Inv'
  <1>. USE DEF Inv
  <1>1. TypeOK'
    BY DEF TypeOK, TimeOut
  <1>2. WaitersCounted'
    BY DEF WaitersCounted, Waits, TimeOut
  <1>3. OnTheWay' = OnTheWay
    BY DEF OnTheWay, TimeOut
  <1>4. NobodySleepsOnCredit'
    BY <1>3, NoMoreCredit DEF TimeOut, TypeOK
  <1>. QED BY <1>1, <1>2, <1>4
LEMMA WokenInTimedAcquireKeepsInv ==
    ASSUME SemaphoreAssumption, Inv, NEW t \in Threads, WokenInTimedAcquire(t), Timed
    PROVE  Inv'
  <1>. USE DEF Inv
  <1>1. /\ at[t] = "timed" /\ t \notin asleep /\ t \in Waits /\ Amount = 1
        /\ timedout' = timedout \ {t}
    BY DEF WokenInTimedAcquire, Awake, Waits, SemaphoreAssumption
  <1>2. CASE Fails(t) /\ (t \in timedout \/ credit <= 0)
    <2>1. WaitersCounted'
      BY <1>1, <1>2, OneThreadMoves DEF WaitersCounted, Fails
    <2>2. waiters' \in Nat
      <3>1. IsFiniteSet(Waits')
        BY <1>2, OneThreadMoves, FiniteSets_, FS_RemoveElement DEF Fails
      <3>. QED BY <2>1, <3>1, FS_CardinalityType DEF WaitersCounted
    <2>3. TypeOK'
      BY <1>1, <1>2, <2>2, OneThreadMoves DEF TypeOK, Fails
    <2>4. CASE t \in timedout
      <3>1. OnTheWay' = OnTheWay
        BY <1>1, <1>2, <2>4, OneThreadMoves DEF OnTheWay, Fails
      <3>2. asleep' \subseteq asleep /\ credit' \in Nat /\ credit' <= credit
        BY <1>2 DEF Fails, TypeOK
      <3>3. NobodySleepsOnCredit'
        BY <3>1, <3>2, NoMoreCredit
      <3>. QED BY <2>1, <2>3, <3>3
    <2>5. CASE credit <= 0
      <3>1. credit' < Amount
        BY <1>1, <1>2, <2>5 DEF Fails, TypeOK
      <3>2. NobodySleepsOnCredit'
        BY <2>3, <3>1, LittleCredit
      <3>. QED BY <2>1, <2>3, <3>2
    <2>. QED BY <1>2, <2>4, <2>5
  <1>3. CASE t \notin timedout /\ credit <= 0 /\ Sleep(t, "timed") /\ UNCHANGED waiters
    <2>1. TypeOK'
      BY <1>1, <1>3, OneThreadMoves DEF TypeOK, Sleep
    <2>2. WaitersCounted'
      BY <1>1, <1>3, OneThreadMoves DEF WaitersCounted, Sleep
    <2>3. credit' < Amount
      BY <1>1, <1>3 DEF Sleep, TypeOK
    <2>4. NobodySleepsOnCredit'
      BY <2>1, <2>3, LittleCredit
    <2>. QED BY <2>1, <2>2, <2>4
  <1>4. CASE t \notin timedout /\ credit > 0 /\ Take(t, 1) /\ waiters' = waiters - 1
    <2>0. credit' = credit - 1 /\ credit \in Nat /\ credit' \in Nat
      BY <1>4 DEF Take, TypeOK
    <2>1. WaitersCounted'
      BY <1>1, <1>4, OneThreadMoves DEF WaitersCounted, Take
    <2>2. waiters' \in Nat
      <3>1. IsFiniteSet(Waits')
        BY <1>4, OneThreadMoves, FiniteSets_, FS_RemoveElement DEF Take
      <3>. QED BY <2>1, <3>1, FS_CardinalityType DEF WaitersCounted
    <2>3. TypeOK'
      BY <1>1, <1>4, <2>0, <2>2, OneThreadMoves DEF TypeOK, Take
    <2>4. t \in OnTheWay
      BY <1>1, <1>4 DEF OnTheWay
    <2>5. UNCHANGED timedout
      BY <1>1, <1>4
    <2>6. NobodySleepsOnCredit'
      BY <1>1, <1>4, <2>0, <2>4, <2>5, TakenByOneOnTheWay
    <2>. QED BY <2>1, <2>3, <2>6
  <1>. QED BY <1>2, <1>3, <1>4 DEF WokenInTimedAcquire

-----------------------------------------------------------------------------
\* Those that are notified come to those on their way.
LEMMA Notified ==
    ASSUME SemaphoreAssumption, Inv, NEW n \in Nat, Notify(n), UNCHANGED <<at, timedout>>
    PROVE  /\ asleep' \subseteq asleep
           /\ Waits' = Waits
           /\ asleep' # {} => /\ n < Cardinality(asleep)
                              /\ Cardinality(OnTheWay') = Cardinality(OnTheWay) + n
  <1>. USE DEF Inv
  <1>1. PICK woken \in SUBSET asleep :
           /\ Cardinality(woken) = Min2(n, Cardinality(asleep))
           /\ asleep' = asleep \ woken
    BY DEF Notify
  <1>2. IsFiniteSet(woken) /\ Cardinality(woken) \in Nat
    BY FiniteSets_, FS_Subset, FS_CardinalityType
  <1>3. ASSUME asleep' # {}
        PROVE  n < Cardinality(asleep) /\ Cardinality(woken) = n
    <2>1. woken # asleep
      BY <1>1, <1>3
    <2>2. Cardinality(woken) # Cardinality(asleep)
      BY <2>1, FiniteSets_, FS_Subset
    <2>. QED BY <1>1, <2>2, FiniteSets_ DEF Min2
  <1>4. OnTheWay' = OnTheWay \cup woken /\ OnTheWay \cap woken = {}
    BY <1>1 DEF OnTheWay, TypeOK
  <1>5. Cardinality(OnTheWay') = Cardinality(OnTheWay) + Cardinality(woken)
    <2>1. Cardinality(OnTheWay \cap woken) = 0
      BY <1>4, FS_EmptySet
    <2>2. IsFiniteSet(OnTheWay) /\ Cardinality(OnTheWay) \in Nat
      BY FiniteSets_
    <2>3. Cardinality(OnTheWay \cup woken)
             = Cardinality(OnTheWay) + Cardinality(woken) - Cardinality(OnTheWay \cap woken)
      BY <1>2, <2>2, FS_Union
    <2>. QED BY <1>2, <1>4, <2>1, <2>2, <2>3
  <1>. QED BY <1>1, <1>3, <1>5 DEF Waits

LEMMA ReleaseKeepsInv ==
    ASSUME SemaphoreAssumption, Inv, NEW t \in Threads, NEW n \in Released, Release(t, n)
    PROVE  Inv'
  <1>. USE DEF Inv
  <1>1. /\ n \in Nat \ {0} /\ credit \in Nat /\ waiters \in Nat
        /\ credit' = credit + n /\ UNCHANGED <<at, timedout, waiters>>
    BY DEF Release, SemaphoreAssumption, TypeOK
  <1>2. Min2(n, waiters) \in Nat
    BY <1>1 DEF Min2
  <1>3. /\ asleep' \subseteq asleep
        /\ Waits' = Waits
        /\ asleep' # {} => /\ Min2(n, waiters) < Cardinality(asleep)
                           /\ Cardinality(OnTheWay') = Cardinality(OnTheWay) + Min2(n, waiters)
    BY <1>1, <1>2, Notified DEF Release
  <1>4. TypeOK'
    BY <1>1, <1>3 DEF TypeOK
  <1>5. WaitersCounted'
    BY <1>1, <1>3 DEF WaitersCounted
  <1>6. ASSUME asleep' # {}
        PROVE  credit' < Amount * (Cardinality(OnTheWay') + 1)
    <2>1. Min2(n, waiters) = n
      BY <1>1, <1>3, <1>6, FiniteSets_ DEF Min2, WaitersCounted
    <2>2. credit < Amount * (Cardinality(OnTheWay) + 1)
      BY <1>3, <1>6 DEF NobodySleepsOnCredit
    <2>3. /\ Amount * (Cardinality(OnTheWay) + 1) \in Nat
          /\ Amount * (Cardinality(OnTheWay) + 1) + n <= Amount * (Cardinality(OnTheWay) + n + 1)
      BY <1>1, FiniteSets_, AtLeastOneAmount, MoreOnTheWay DEF SemaphoreAssumption
    <2>4. Amount * (Cardinality(OnTheWay) + n + 1) \in Nat
      BY <1>1, FiniteSets_ DEF SemaphoreAssumption
    <2>5. Cardinality(OnTheWay') + 1 = Cardinality(OnTheWay) + n + 1
      BY <1>1, <1>3, <1>6, <2>1, FiniteSets_
    <2>6. credit' < Amount * (Cardinality(OnTheWay) + n + 1)
      BY <1>1, <2>2, <2>3, <2>4
    <2>. QED BY <2>5, <2>6
  <1>7. NobodySleepsOnCredit'
    BY <1>6 DEF NobodySleepsOnCredit
  <1>. QED BY <1>4, <1>5, <1>7

LEMMA SetKeepsInv ==
    ASSUME SemaphoreAssumption, Inv, NEW t \in Threads, NEW n \in SetTo, Set(t, n)
    PROVE  Inv'
  <1>. USE DEF Inv
  <1>1. /\ n \in Nat /\ n <= Amount /\ Amount \in Nat \ {0}
        /\ credit' = n /\ UNCHANGED <<at, timedout, waiters>>
    BY DEF Set, SemaphoreAssumption
  <1>2. CASE n = 0
    <2>1. TypeOK'
      BY <1>1, <1>2 DEF TypeOK, Set
    <2>2. WaitersCounted'
      BY <1>1 DEF WaitersCounted, Waits
    <2>3. NobodySleepsOnCredit'
      BY <1>1, <1>2, <2>1, LittleCredit
    <2>. QED BY <2>1, <2>2, <2>3
  <1>3. CASE n # 0
    <2>1. Notify(1)
      BY <1>3 DEF Set
    <2>2. /\ asleep' \subseteq asleep
          /\ Waits' = Waits
          /\ asleep' # {} => Cardinality(OnTheWay') = Cardinality(OnTheWay) + 1
      BY <1>1, <2>1, Notified
    <2>3. TypeOK'
      BY <1>1, <2>2 DEF TypeOK
    <2>4. WaitersCounted'
      BY <1>1, <2>2 DEF WaitersCounted
    <2>5. ASSUME asleep' # {}
          PROVE  credit' < Amount * (Cardinality(OnTheWay') + 1)
      <3>1. Cardinality(OnTheWay) \in Nat
        BY FiniteSets_
      <3>2. Amount * (Cardinality(OnTheWay') + 1) = Amount * (Cardinality(OnTheWay) + 1) + Amount
        BY <1>1, <2>2, <2>5, <3>1
      <3>3. /\ Amount * (Cardinality(OnTheWay) + 1) \in Nat
            /\ Amount <= Amount * (Cardinality(OnTheWay) + 1)
        BY <1>1, <3>1, AtLeastOneAmount
      <3>. QED BY <1>1, <3>2, <3>3
    <2>6. NobodySleepsOnCredit'
      BY <2>5 DEF NobodySleepsOnCredit
    <2>. QED BY <2>3, <2>4, <2>6
  <1>. QED BY <1>2, <1>3

LEMMA SpuriousWakeUpKeepsInv ==
    ASSUME SemaphoreAssumption, Inv, NEW t \in Threads, SpuriousWakeUp(t)
    PROVE  Inv'
  <1>. USE DEF Inv
  <1>1. TypeOK'
    BY DEF TypeOK, SpuriousWakeUp
  <1>2. WaitersCounted'
    BY DEF WaitersCounted, Waits, SpuriousWakeUp
  <1>3. OnTheWay' = OnTheWay \cup {t} /\ t \notin OnTheWay
    BY DEF OnTheWay, SpuriousWakeUp, TypeOK
  <1>4. Cardinality(OnTheWay) \in Nat /\ Cardinality(OnTheWay') = Cardinality(OnTheWay) + 1
    BY <1>3, FiniteSets_, FS_AddElement
  <1>5. ASSUME asleep' # {}
        PROVE  credit' < Amount * (Cardinality(OnTheWay') + 1)
    <2>1. credit < Amount * (Cardinality(OnTheWay) + 1) /\ credit \in Nat /\ credit' = credit
      BY <1>5 DEF NobodySleepsOnCredit, SpuriousWakeUp, TypeOK
    <2>2. /\ Amount \in Nat \ {0} /\ Amount * (Cardinality(OnTheWay) + 1) \in Nat
          /\ Amount * (Cardinality(OnTheWay') + 1) = Amount * (Cardinality(OnTheWay) + 1) + Amount
      BY <1>4 DEF SemaphoreAssumption
    <2>. QED BY <2>1, <2>2
  <1>6. NobodySleepsOnCredit'
    BY <1>5 DEF NobodySleepsOnCredit
  <1>. QED BY <1>1, <1>2, <1>6

-----------------------------------------------------------------------------
LEMMA InitInv == SemaphoreAssumption /\ Init => Inv
  <1> SUFFICES ASSUME SemaphoreAssumption, Init PROVE Inv
    OBVIOUS
  <1>1. TypeOK
    BY DEF Init, TypeOK, SemaphoreAssumption
  <1>2. Waits = {}
    BY DEF Init, Waits
  <1>3. WaitersCounted
    BY <1>2, FS_EmptySet DEF Init, WaitersCounted
  <1>4. NobodySleepsOnCredit
    BY DEF Init, NobodySleepsOnCredit
  <1>. QED BY <1>1, <1>3, <1>4 DEF Inv

\* Where timed_acquire is not called nobody is in it.
TimedOnly == ~Timed => \A t \in Threads : at[t] # "timed"

LEMMA TimedOnlyStep ==
    ASSUME Inv, TimedOnly, [Next]_vars
    PROVE  TimedOnly'
  BY DEF Inv, TypeOK, TimedOnly, vars, Next, Acquire, TimedAcquire, TimeOut, Woken, WokenInAcquire,
         WokenInTimedAcquire, Fails, Take, Sleep, Becomes, Awake, Release, Set, SpuriousWakeUp

LEMMA NextKeepsInv ==
    ASSUME SemaphoreAssumption, Inv, TimedOnly, [Next]_vars
    PROVE  Inv'
  <1>1. CASE UNCHANGED vars
    BY <1>1 DEF vars, Inv, TypeOK, WaitersCounted, Waits, NobodySleepsOnCredit, OnTheWay
  <1>2. ASSUME NEW t \in Threads, Woken(t)
        PROVE  Inv'
    <2>1. CASE WokenInTimedAcquire(t)
      <3>1. Timed
        BY <2>1 DEF WokenInTimedAcquire, Awake, TimedOnly
      <3>. QED BY <2>1, <3>1, WokenInTimedAcquireKeepsInv
    <2>. QED BY <1>2, <2>1, WokenInAcquireKeepsInv DEF Woken
  <1>. QED BY <1>1, <1>2, AcquireKeepsInv, TimedAcquireKeepsInv, TimeOutKeepsInv, ReleaseKeepsInv,
              SetKeepsInv, SpuriousWakeUpKeepsInv DEF Next

LEMMA Invariance ==
    ASSUME SemaphoreAssumption
    PROVE  Spec => [](Inv /\ TimedOnly)
  <1>1. Init => Inv /\ TimedOnly
    BY InitInv DEF Init, TimedOnly
  <1>2. Inv /\ TimedOnly /\ [Next]_vars => (Inv /\ TimedOnly)'
    BY NextKeepsInv, TimedOnlyStep
  <1>. QED BY <1>1, <1>2, PTL DEF Spec

\* The fields and the threads' places stay what they can be
\* (semaphore.hpp:36-44): credit_ does not fall below zero.
THEOREM SemaphoreTypes ==
    ASSUME SemaphoreAssumption
    PROVE  Spec => []TypeOK
  <1>1. Inv => TypeOK
    BY DEF Inv
  <1>. QED BY <1>1, Invariance, PTL

\* Nobody sleeps beside credit that is not spoken for, however many threads
\* there are and whatever is released (semaphore.hpp:110-140).
THEOREM CreditIsSpokenFor ==
    ASSUME SemaphoreAssumption
    PROVE  Spec => []NobodySleepsOnCredit
  <1>1. Inv => NobodySleepsOnCredit
    BY DEF Inv
  <1>. QED BY <1>1, Invariance, PTL
=============================================================================
