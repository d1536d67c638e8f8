--------------------------- MODULE RWMutexProofs ---------------------------
(***************************************************************************)
(* What is proved of module RWMutex for every set of threads.              *)
(***************************************************************************)
EXTENDS RWMutex, FiniteSetTheorems, TLAPS

Readers == {t \in Threads : at[t] \in {"read", "undecided"}}

\* LockState thread by thread, which is how the steps use and keep it.
ReaderCount == reader_count = Cardinality(Readers)

WriterFlag ==
    /\ has_writer => \E t \in Threads : at[t] \in {"write", "upgrading"}
    /\ \A t \in Threads : at[t] = "write" => has_writer

UpgradeFlag ==
    /\ upgratable => \E t \in Threads : at[t] \in {"undecided", "upgrading"}
    /\ \A t \in Threads : at[t] = "undecided" => upgratable
    /\ \A t \in Threads : at[t] = "upgrading" =>
          /\ upgratable <=> ~has_writer
          /\ has_writer <=> reader_count = 0

Core == MutualExclusion /\ ReaderCount /\ WriterFlag /\ UpgradeFlag

\* The inductive invariant; LockState follows from it.
Inv == LockTypes /\ Core

-----------------------------------------------------------------------------
LEMMA InvIsLockState == Inv => LockState
  <1> SUFFICES ASSUME Inv PROVE LockState
    OBVIOUS
  <1> USE DEF Inv, Core, LockTypes, Among
  <1>1. Readers = Among({"read", "undecided"})
    BY DEF Readers
  <1>2. reader_count = Cardinality(Among({"read", "undecided"}))
    BY <1>1 DEF ReaderCount
  <1>3. /\ has_writer => Among({"write", "upgrading"}) # {}
        /\ Among({"write"}) # {} => has_writer
    BY DEF WriterFlag
  <1>4. Among({"upgrading"}) # {} => (has_writer <=> reader_count = 0)
    BY DEF UpgradeFlag
  <1>5. upgratable <=> Among({"undecided"}) # {} \/ (Among({"upgrading"}) # {} /\ ~has_writer)
    BY DEF UpgradeFlag
  <1>. QED BY <1>2, <1>3, <1>4, <1>5 DEF LockState

\* The set of readers when the place of one thread changes.
LEMMA OneThreadMoves ==
    ASSUME LockTypes, NEW t \in Threads, NEW x, Becomes(t, x)
    PROVE  /\ \A s \in Threads : at'[s] = IF s = t THEN x ELSE at[s]
           /\ Readers' = IF x \in {"read", "undecided"} THEN Readers \cup {t} ELSE Readers \ {t}
           /\ IsFiniteSet(Readers)
           /\ Cardinality(Readers) \in Nat
  <1>1. \A s \in Threads : at'[s] = IF s = t THEN x ELSE at[s]
    BY DEF Becomes, LockTypes
  <1>2. Readers' = IF x \in {"read", "undecided"} THEN Readers \cup {t} ELSE Readers \ {t}
    BY <1>1 DEF Readers
  <1>3. IsFiniteSet(Readers) /\ Cardinality(Readers) \in Nat
    BY RWMutexAssumption, FS_Subset, FS_CardinalityType DEF Readers
  <1>. QED BY <1>1, <1>2, <1>3

LEMMA ReaderComes ==
    ASSUME Inv, NEW t \in Threads, NEW x \in {"read", "undecided"},
           Becomes(t, x), at[t] \notin {"read", "undecided"},
           reader_count' = reader_count + 1
    PROVE  ReaderCount'
  <1>1. Readers' = Readers \cup {t} /\ t \notin Readers
    BY OneThreadMoves DEF Inv, Readers
  <1>2. Cardinality(Readers \cup {t}) = Cardinality(Readers) + 1
    BY <1>1, OneThreadMoves, FS_AddElement DEF Inv
  <1>. QED BY <1>1, <1>2 DEF Inv, Core, ReaderCount

LEMMA ReaderGoes ==
    ASSUME Inv, NEW t \in Threads, NEW x, x \notin {"read", "undecided"},
           Becomes(t, x), at[t] \in {"read", "undecided"},
           reader_count' = reader_count - 1
    PROVE  ReaderCount'
  <1>1. Readers' = Readers \ {t} /\ t \in Readers
    BY OneThreadMoves DEF Inv, Readers
  <1>2. Cardinality(Readers \ {t}) = Cardinality(Readers) - 1
    BY <1>1, OneThreadMoves, FS_RemoveElement DEF Inv
  <1>. QED BY <1>1, <1>2 DEF Inv, Core, ReaderCount

LEMMA ReadersStay ==
    ASSUME Inv, NEW t \in Threads, NEW x, Becomes(t, x),
           x \in {"read", "undecided"} <=> at[t] \in {"read", "undecided"},
           reader_count' = reader_count
    PROVE  ReaderCount'
  <1>1. Readers' = Readers
    BY OneThreadMoves DEF Inv, Readers
  <1>. QED BY <1>1 DEF Inv, Core, ReaderCount

\* A lock without readers: nobody reads, nobody is undecided.
LEMMA NoReaders ==
    ASSUME Inv
    PROVE  reader_count = 0 <=> \A s \in Threads : at[s] \notin {"read", "undecided"}
  <1>1. IsFiniteSet(Readers)
    BY RWMutexAssumption, FS_Subset DEF Readers
  <1>2. Cardinality(Readers) = 0 <=> Readers = {}
    BY <1>1, FS_EmptySet
  <1>. QED BY <1>2 DEF Inv, Core, ReaderCount, Readers

LEMMA NoReadersThen ==
    ASSUME ReaderCount'
    PROVE  reader_count' = 0 <=> \A s \in Threads : at'[s] \notin {"read", "undecided"}
  <1>1. IsFiniteSet(Readers')
    BY RWMutexAssumption, FS_Subset DEF Readers
  <1>2. Cardinality(Readers') = 0 <=> Readers' = {}
    BY <1>1, FS_EmptySet
  <1>. QED BY <1>2 DEF ReaderCount, Readers

LEMMA SomeReader ==
    ASSUME Inv, NEW t \in Threads, at[t] \in {"read", "undecided"}
    PROVE  reader_count \in Nat /\ reader_count > 0
  BY NoReaders DEF Inv, LockTypes

-----------------------------------------------------------------------------
(* The ways the lock and one thread's place change together.               *)

\* A thread that holds nothing, before and after: a call that blocks, wakes or
\* fails.  writer_waiting is free to change.
LEMMA StaysOut ==
    ASSUME Inv, NEW t \in Threads, NEW x \in ({"none"} \cup Waiting) \ {"upgrading"},
           Becomes(t, x), at[t] \notin Holding \cup {"upgrading"},
           UNCHANGED <<reader_count, has_writer, upgratable>>
    PROVE  Core'
  <1>1. ReaderCount'
    BY ReadersStay DEF Holding, Waiting, Timed
  <1>2. \A s \in Threads : at'[s] = IF s = t THEN x ELSE at[s]
    BY OneThreadMoves DEF Inv
  <1> USE <1>2 DEF Inv, Core, Holding, Waiting, Timed
  <1>3. MutualExclusion'
    BY DEF MutualExclusion
  <1>4. WriterFlag'
    BY DEF WriterFlag
  <1>5. UpgradeFlag'
    BY DEF UpgradeFlag
  <1>. QED BY <1>1, <1>3, <1>4, <1>5

LEMMA TakesRead ==
    ASSUME Inv, NEW t \in Threads, TakeRead(t), ~has_writer,
           at[t] \notin Holding \cup {"upgrading"}
    PROVE  Core'
  <1>1. ReaderCount'
    BY ReaderComes DEF TakeRead, Holding
  <1>2. \A s \in Threads : at'[s] = IF s = t THEN "read" ELSE at[s]
    BY OneThreadMoves DEF Inv, TakeRead
  <1> USE <1>2 DEF Inv, Core, Holding, TakeRead
  <1>3. MutualExclusion'
    BY DEF MutualExclusion, WriterFlag
  <1>4. WriterFlag'
    BY DEF WriterFlag
  <1>5. UpgradeFlag'
    BY DEF UpgradeFlag, LockTypes
  <1>. QED BY <1>1, <1>3, <1>4, <1>5

LEMMA TakesWrite ==
    ASSUME Inv, NEW t \in Threads, TakeWrite(t), ~WriteBlocked,
           at[t] \notin Holding \cup {"upgrading"}
    PROVE  Core'
  <1>1. ReaderCount'
    BY ReadersStay DEF TakeWrite, Holding
  <1>2. \A s \in Threads : at'[s] = IF s = t THEN "write" ELSE at[s]
    BY OneThreadMoves DEF Inv, TakeWrite
  <1>3. /\ reader_count = 0 /\ ~has_writer
        /\ \A s \in Threads : at[s] \notin Holding \cup {"upgrading"}
    BY NoReaders DEF WriteBlocked, Inv, LockTypes, Core, WriterFlag, UpgradeFlag, Holding
  <1> USE <1>2, <1>3 DEF Inv, Core, Holding, TakeWrite
  <1>4. MutualExclusion'
    BY DEF MutualExclusion
  <1>5. WriterFlag'
    BY DEF WriterFlag
  <1>6. UpgradeFlag'
    BY DEF UpgradeFlag
  <1>. QED BY <1>1, <1>4, <1>5, <1>6

LEMMA TakesUndecided ==
    ASSUME Inv, NEW t \in Threads, TakeUndecided(t), ~UndecidedBlocked,
           at[t] \notin Holding \cup {"upgrading"}
    PROVE  Core'
  <1>1. ReaderCount'
    BY ReaderComes DEF TakeUndecided, Holding
  <1>2. \A s \in Threads : at'[s] = IF s = t THEN "undecided" ELSE at[s]
    BY OneThreadMoves DEF Inv, TakeUndecided
  <1>3. /\ ~has_writer
        /\ \A s \in Threads : at[s] \notin {"undecided", "upgrading", "write"}
    BY DEF UndecidedBlocked, Inv, LockTypes, Core, WriterFlag, UpgradeFlag
  <1> USE <1>2, <1>3 DEF Inv, Core, Holding, TakeUndecided
  <1>4. MutualExclusion'
    BY DEF MutualExclusion
  <1>5. WriterFlag'
    BY DEF WriterFlag
  <1>6. UpgradeFlag'
    BY DEF UpgradeFlag
  <1>. QED BY <1>1, <1>4, <1>5, <1>6

-----------------------------------------------------------------------------
(* Releases and changes of mind.                                           *)

\* The last reader: if a thread waits in decide_write it gets the lock.
LEMMA ReadReleased ==
    ASSUME Inv, NEW t \in Threads, ReleaseRead(t)
    PROVE  Core'
  <1>1. ReaderCount'
    BY ReaderGoes DEF ReleaseRead
  <1>2. \A s \in Threads : at'[s] = IF s = t THEN "none" ELSE at[s]
    BY OneThreadMoves DEF Inv, ReleaseRead
  <1>3. /\ at[t] = "read"
        /\ reader_count \in Nat /\ reader_count > 0
        /\ reader_count' = reader_count - 1
        /\ \A s \in Threads : at[s] = "upgrading" => ~has_writer /\ upgratable
    BY SomeReader DEF ReleaseRead, Inv, Core, UpgradeFlag, LockTypes
  <1>4. MutualExclusion'
    BY <1>2 DEF Inv, Core, MutualExclusion, Holding
  <1>5. CASE reader_count' # 0
    <2>1. UNCHANGED <<has_writer, upgratable>>
      BY <1>5 DEF ReleaseRead
    <2>2. WriterFlag'
      BY <1>2, <1>3, <2>1 DEF Inv, Core, WriterFlag
    <2>3. UpgradeFlag'
      BY <1>2, <1>3, <1>5, <2>1 DEF Inv, Core, UpgradeFlag, ReleaseRead
    <2>. QED BY <1>1, <1>4, <2>2, <2>3 DEF Core
  <1>6. CASE reader_count' = 0 /\ upgratable
    <2>1. has_writer' = TRUE /\ upgratable' = FALSE
      BY <1>6 DEF ReleaseRead, HandOff
    <2>2. \A s \in Threads : at'[s] \notin {"read", "undecided"}
      BY <1>1, <1>6, NoReadersThen
    <2>3. PICK s \in Threads : at[s] \in {"undecided", "upgrading"}
      BY <1>6 DEF Inv, Core, UpgradeFlag
    <2>4. at'[s] = "upgrading"
      BY <1>2, <2>2, <2>3 DEF ReleaseRead
    <2>5. WriterFlag'
      BY <2>1, <2>4 DEF WriterFlag
    <2>6. UpgradeFlag'
      BY <1>6, <2>1, <2>2 DEF UpgradeFlag
    <2>. QED BY <1>1, <1>4, <2>5, <2>6 DEF Core
  <1>7. CASE reader_count' = 0 /\ ~upgratable
    <2>1. UNCHANGED <<has_writer, upgratable>>
      BY <1>7 DEF ReleaseRead, HandOff
    <2>2. WriterFlag'
      BY <1>2, <1>3, <2>1 DEF Inv, Core, WriterFlag
    <2>3. UpgradeFlag'
      BY <1>2, <1>3, <1>7, <2>1 DEF Inv, Core, UpgradeFlag
    <2>. QED BY <1>1, <1>4, <2>2, <2>3 DEF Core
  <1>. QED BY <1>5, <1>6, <1>7

LEMMA WriteReleased ==
    ASSUME Inv, NEW t \in Threads, ReleaseWrite(t)
    PROVE  Core'
  <1>1. ReaderCount'
    BY ReadersStay DEF ReleaseWrite
  <1>2. \A s \in Threads : at'[s] = IF s = t THEN "none" ELSE at[s]
    BY OneThreadMoves DEF Inv, ReleaseWrite
  <1>3. \A s \in Threads : s # t => at[s] \notin Holding \cup {"upgrading"}
    BY DEF Inv, Core, MutualExclusion, ReleaseWrite, Holding
  <1> USE <1>2, <1>3 DEF Inv, Core, Holding, ReleaseWrite
  <1>4. MutualExclusion'
    BY DEF MutualExclusion
  <1>5. WriterFlag'
    BY DEF WriterFlag
  <1>6. UpgradeFlag'
    BY DEF UpgradeFlag
  <1>. QED BY <1>1, <1>4, <1>5, <1>6

LEMMA UndecidedReleased ==
    ASSUME Inv, NEW t \in Threads, ReleaseUndecided(t)
    PROVE  Core'
  <1>1. ReaderCount'
    BY ReaderGoes DEF ReleaseUndecided
  <1>2. \A s \in Threads : at'[s] = IF s = t THEN "none" ELSE at[s]
    BY OneThreadMoves DEF Inv, ReleaseUndecided
  <1>3. \A s \in Threads : s # t => at[s] \notin {"undecided", "upgrading", "write"}
    BY DEF Inv, Core, MutualExclusion, ReleaseUndecided, Holding
  <1> USE <1>2, <1>3 DEF Inv, Core, Holding, ReleaseUndecided
  <1>4. MutualExclusion'
    BY DEF MutualExclusion
  <1>5. WriterFlag'
    BY DEF WriterFlag
  <1>6. UpgradeFlag'
    BY DEF UpgradeFlag
  <1>. QED BY <1>1, <1>4, <1>5, <1>6

LEMMA DecidedRead ==
    ASSUME Inv, NEW t \in Threads, DecideRead(t)
    PROVE  Core'
  <1>1. ReaderCount'
    BY ReadersStay DEF DecideRead
  <1>2. \A s \in Threads : at'[s] = IF s = t THEN "read" ELSE at[s]
    BY OneThreadMoves DEF Inv, DecideRead
  <1>3. \A s \in Threads : s # t => at[s] \notin {"undecided", "upgrading", "write"}
    BY DEF Inv, Core, MutualExclusion, DecideRead, Holding
  <1> USE <1>2, <1>3 DEF Inv, Core, Holding, DecideRead
  <1>4. MutualExclusion'
    BY DEF MutualExclusion
  <1>5. WriterFlag'
    BY DEF WriterFlag
  <1>6. UpgradeFlag'
    BY DEF UpgradeFlag
  <1>. QED BY <1>1, <1>4, <1>5, <1>6

\* write_to_undecided and write_to_read.
LEMMA WriterSteppedDown ==
    ASSUME Inv, NEW t \in Threads, WriteToUndecided(t) \/ WriteToRead(t)
    PROVE  Core'
  <1>1. ReaderCount'
    BY ReaderComes DEF WriteToUndecided, WriteToRead
  <1>2. PICK x \in {"undecided", "read"} :
            /\ \A s \in Threads : at'[s] = IF s = t THEN x ELSE at[s]
            /\ x = "undecided" => upgratable' = TRUE
            /\ x = "read" => upgratable' = upgratable
    BY OneThreadMoves DEF Inv, WriteToUndecided, WriteToRead
  <1>3. /\ \A s \in Threads : s # t => at[s] \notin Holding \cup {"upgrading"}
        /\ at[t] = "write" /\ has_writer' = FALSE
    BY DEF Inv, Core, MutualExclusion, WriteToUndecided, WriteToRead, Holding
  <1> USE <1>2, <1>3 DEF Inv, Core, Holding
  <1>4. MutualExclusion'
    BY DEF MutualExclusion
  <1>5. WriterFlag'
    BY DEF WriterFlag
  <1>6. UpgradeFlag'
    BY DEF UpgradeFlag
  <1>. QED BY <1>1, <1>4, <1>5, <1>6

\* decide_write, when it is called and after each wait.
LEMMA DecidedWrite ==
    ASSUME Inv, NEW t \in Threads, DecideWrite(t)
    PROVE  Core'
  <1>0. reader_count' \in Nat
    BY SomeReader DEF DecideWrite, Inv, LockTypes
  <1>1. PICK x \in {"write", "upgrading"} :
            /\ Becomes(t, x)
            /\ x = "write" => reader_count' = 0 /\ upgratable' = FALSE /\ has_writer' = TRUE
            /\ x = "upgrading" => reader_count' # 0 /\ UNCHANGED <<upgratable, has_writer>>
    <2>1. CASE reader_count' > 0
      BY <2>1 DEF DecideWrite, SleepAsUpgrader
    <2>2. CASE reader_count' = 0
      BY <2>2 DEF DecideWrite, Upgrade
    <2>3. reader_count' > 0 \/ reader_count' = 0
      BY <1>0
    <2>. QED BY <2>1, <2>2, <2>3
  <1>2. ReaderCount'
    BY <1>1, ReaderGoes, ReadersStay DEF DecideWrite, LockAwake
  <1>3. \A s \in Threads : at'[s] = IF s = t THEN x ELSE at[s]
    BY <1>1, OneThreadMoves DEF Inv
  <1>4. /\ at[t] \in {"undecided", "upgrading"}
        /\ \A s \in Threads : s # t => at[s] \notin {"undecided", "upgrading", "write"}
    BY DEF Inv, Core, MutualExclusion, DecideWrite, LockAwake, Holding
  <1>5. CASE x = "write"
    <2>1. \A s \in Threads : s # t => at'[s] \notin Holding \cup {"upgrading"}
      BY <1>1, <1>2, <1>3, <1>4, <1>5, NoReadersThen DEF Holding
    <2> USE <1>1, <1>3, <1>5, <2>1 DEF Holding
    <2>2. MutualExclusion'
      BY DEF MutualExclusion
    <2>3. WriterFlag'
      BY DEF WriterFlag
    <2>4. UpgradeFlag'
      BY DEF UpgradeFlag
    <2>. QED BY <1>2, <2>2, <2>3, <2>4 DEF Core
  <1>6. CASE x = "upgrading"
    <2>1. ~has_writer /\ upgratable
      <3>1. CASE at[t] = "undecided"
        BY <3>1, <1>4 DEF Inv, Core, WriterFlag, UpgradeFlag
      <3>2. CASE at[t] = "upgrading"
        BY <3>2, <1>1, <1>6 DEF DecideWrite, LockAwake, Inv, Core, UpgradeFlag, LockTypes
      <3>. QED BY <1>4, <3>1, <3>2
    <2>2. MutualExclusion'
      BY <1>3, <1>4, <1>6 DEF Inv, Core, MutualExclusion, Holding
    <2>3. WriterFlag'
      BY <1>1, <1>3, <1>4, <1>6, <2>1 DEF WriterFlag
    <2>4. UpgradeFlag'
      BY <1>1, <1>3, <1>4, <1>6, <2>1 DEF UpgradeFlag
    <2>. QED BY <1>2, <2>2, <2>3, <2>4 DEF Core
  <1>. QED BY <1>5, <1>6

-----------------------------------------------------------------------------
(* Every step keeps the types.                                             *)

\* A thread that is not asleep in its call sleeps nowhere.
LEMMA NotAsleep ==
    ASSUME LockTypes, NEW t \in Threads, at[t] \in {"none"} \cup Holding
    PROVE  t \notin reader_cv \cup writer_cv \cup upgrade_cv \cup timedout
  BY DEF LockTypes, Among, Holding, Timed

\* A step of t that takes it to x, with t itself neither asleep nor timed out
\* after it unless x is a wait, and others at most woken.
LEMMA TypesKept ==
    ASSUME LockTypes, NEW t \in Threads, NEW x \in {"none"} \cup Holding \cup Waiting,
           Becomes(t, x),
           reader_count' \in Nat, has_writer' \in BOOLEAN,
           writer_waiting' \in BOOLEAN, upgratable' \in BOOLEAN,
           reader_cv' \ {t} \subseteq reader_cv,
           writer_cv' \ {t} \subseteq writer_cv,
           upgrade_cv' \ {t} \subseteq upgrade_cv,
           timedout' \subseteq timedout \ {t},
           t \in reader_cv' => x \in {"reading", "reading_timed", "deciding", "deciding_timed"},
           t \in writer_cv' => x \in {"writing", "writing_timed"},
           t \in upgrade_cv' => x = "upgrading"
    PROVE  LockTypes'
  <1>1. \A s \in Threads : at'[s] = IF s = t THEN x ELSE at[s]
    BY OneThreadMoves
  <1>2. at' \in [Threads -> {"none"} \cup Holding \cup Waiting]
    BY DEF LockTypes, Becomes
  <1>3. \A S : Among(S)' \ {t} = Among(S) \ {t}
    BY <1>1 DEF Among
  <1>4. \A S : t \in Among(S)' <=> x \in S
    BY <1>1 DEF Among
  <1>. QED BY <1>2, <1>3, <1>4 DEF LockTypes

\* The condition variables are left with those that slept there, or fewer.
LEMMA Notified ==
    /\ NotifyOne(writer_cv) => writer_cv' \subseteq writer_cv
    /\ NotifyOne(upgrade_cv) => upgrade_cv' \subseteq upgrade_cv
    /\ NotifyAll => reader_cv' \subseteq reader_cv /\ writer_cv' \subseteq writer_cv
  BY DEF NotifyOne, NotifyAll

-----------------------------------------------------------------------------
(* The steps.                                                              *)

\* timed_acquire_write and timed_acquire_undecided end without a return statement,
\* and one that tells its caller that it holds a lock it did not take makes him
\* release what he does not hold.  Nobody is told so who calls neither.  What is
\* proved below is proved of such clients whatever a missing return gives, and of
\* the others if what it gives is false.
NobodyIsMisled == timed_calls \subseteq {"read"} \/ MissingReturn \subseteq {FALSE}

LEMMA GarbageIsFalse ==
    ASSUME NobodyIsMisled, NEW t, NEW held, ReturnsGarbage(t, held),
           "write" \in timed_calls \/ "undecided" \in timed_calls
    PROVE  ReturnsFalse(t)
  <1>1. MissingReturn \subseteq {FALSE}
    BY DEF NobodyIsMisled
  <1>. QED BY <1>1 DEF ReturnsGarbage, ReturnsFalse

\* A thread in a step of an acquisition: it holds nothing, is awake, and no
\* longer timed out after the step.
Outside(t) ==
    /\ at[t] \notin Holding \cup {"upgrading"}
    /\ t \notin reader_cv \cup writer_cv \cup upgrade_cv
    /\ timedout' \subseteq timedout \ {t}

LEMMA CallerIsOutside ==
    ASSUME Inv, NEW t \in Threads, NEW pc \in Waiting \ {"upgrading"},
           Calls(t, pc), UNCHANGED timedout
    PROVE  Outside(t)
  BY NotAsleep DEF Inv, Calls, LockAwake, Outside, Holding, Waiting, Timed

LEMMA LateIsOutside ==
    ASSUME Inv, NEW t \in timedout, timedout' = timedout \ {t}
    PROVE  t \in Threads /\ Outside(t)
  BY DEF Inv, LockTypes, Outside, Among, Timed, Holding

LEMMA SleepsAsReader ==
    ASSUME Inv, NEW t \in Threads, Outside(t),
           NEW x \in {"reading", "reading_timed", "deciding", "deciding_timed"},
           SleepAsReader(t, x)
    PROVE  Inv'
  <1> USE DEF Waiting, Timed
  <1>1. Core'
    BY StaysOut DEF SleepAsReader, lock, Outside
  <1>2. LockTypes'
    BY TypesKept DEF Inv, LockTypes, SleepAsReader, lock, Outside
  <1>. QED BY <1>1, <1>2 DEF Inv

LEMMA SleepsAsWriter ==
    ASSUME Inv, NEW t \in Threads, Outside(t),
           NEW x \in {"writing", "writing_timed"}, SleepAsWriter(t, x)
    PROVE  Inv'
  <1> USE DEF Waiting, Timed
  <1>1. Core'
    BY StaysOut DEF SleepAsWriter, Outside
  <1>2. LockTypes'
    BY TypesKept DEF Inv, LockTypes, SleepAsWriter, Outside
  <1>. QED BY <1>1, <1>2 DEF Inv

\* A call that ends with nothing, passing a notification on or not.
LEMMA ComesBackEmpty ==
    ASSUME Inv, NEW t \in Threads, Outside(t),
           ReturnsFalse(t) \/ PassOn(t)
    PROVE  Inv'
  <1>1. /\ Becomes(t, "none")
        /\ UNCHANGED <<reader_count, has_writer, upgratable, reader_cv, upgrade_cv>>
        /\ writer_waiting' \in BOOLEAN
        /\ writer_cv' \subseteq writer_cv
    BY Notified DEF ReturnsFalse, PassOn, lock, Inv, LockTypes
  <1>2. Core'
    BY <1>1, StaysOut DEF Outside
  <1>3. LockTypes'
    BY <1>1, TypesKept DEF Inv, LockTypes, Outside
  <1>. QED BY <1>2, <1>3 DEF Inv

LEMMA GetsIn ==
    ASSUME Inv, NEW t \in Threads, Outside(t),
           \/ ~has_writer /\ TakeRead(t)
           \/ ~WriteBlocked /\ TakeWrite(t)
           \/ ~UndecidedBlocked /\ TakeUndecided(t)
    PROVE  Inv'
  <1>1. Core'
    BY TakesRead, TakesWrite, TakesUndecided DEF Outside
  <1>2. PICK x \in Holding : Becomes(t, x)
    BY DEF TakeRead, TakeWrite, TakeUndecided, Holding
  <1>3. LockTypes'
    <2>1. /\ reader_count' \in Nat /\ has_writer' \in BOOLEAN /\ upgratable' \in BOOLEAN
          /\ UNCHANGED <<writer_waiting, reader_cv, writer_cv, upgrade_cv>>
      <3>1. CASE TakeRead(t)
        BY <3>1 DEF Inv, LockTypes, TakeRead
      <3>2. CASE TakeWrite(t)
        BY <3>2 DEF Inv, LockTypes, TakeWrite
      <3>3. CASE TakeUndecided(t)
        BY <3>3 DEF Inv, LockTypes, TakeUndecided
      <3>. QED BY <3>1, <3>2, <3>3
    <2>2. writer_waiting' \in BOOLEAN
      BY <2>1 DEF Inv, LockTypes
    <2>. QED BY <1>2, <2>1, <2>2, TypesKept DEF Inv, Outside
  <1>. QED BY <1>1, <1>3 DEF Inv

LEMMA Acquired ==
    ASSUME Inv, NobodyIsMisled, NEW t \in Threads, Acquire(t)
    PROVE  Inv'
  <1> USE DEF Waiting, Timed
  <1>1. CASE AcquireRead(t)
    BY <1>1, CallerIsOutside, SleepsAsReader, GetsIn DEF AcquireRead, ReadBlocked
  <1>2. CASE TimedAcquireRead(t)
    BY <1>2, CallerIsOutside, SleepsAsReader, GetsIn DEF TimedAcquireRead, ReadBlocked
  <1>3. CASE AcquireWrite(t)
    BY <1>3, CallerIsOutside, SleepsAsWriter, GetsIn DEF AcquireWrite
  <1>5. CASE TimedAcquireWrite(t)
    BY <1>5, GarbageIsFalse, CallerIsOutside, SleepsAsWriter, ComesBackEmpty DEF TimedAcquireWrite
  <1>6. CASE AcquireUndecided(t)
    BY <1>6, CallerIsOutside, SleepsAsReader, GetsIn DEF AcquireUndecided
  <1>7. CASE TimedAcquireUndecided(t)
    BY <1>7, GarbageIsFalse, CallerIsOutside, SleepsAsReader, ComesBackEmpty
       DEF TimedAcquireUndecided
  <1>. QED BY <1>1, <1>2, <1>3, <1>5, <1>6, <1>7 DEF Acquire

LEMMA GivenUp ==
    ASSUME Inv, NEW t \in Threads, GiveUp(t)
    PROVE  Inv'
  <1>1. CASE ReadTimedOut(t)
    BY <1>1, LateIsOutside, ComesBackEmpty DEF ReadTimedOut
  <1>2. CASE WriteTimedOut(t)
    BY <1>2, LateIsOutside, ComesBackEmpty, GetsIn DEF WriteTimedOut
  <1>3. CASE UndecidedTimedOut(t)
    BY <1>3, LateIsOutside, ComesBackEmpty, GetsIn DEF UndecidedTimedOut
  <1>. QED BY <1>1, <1>2, <1>3 DEF GiveUp

LEMMA Released ==
    ASSUME Inv, NEW t \in Threads, Release(t) \/ Convert(t)
    PROVE  Inv'
  <1>1. Core'
    BY ReadReleased, WriteReleased, UndecidedReleased, DecidedRead, DecidedWrite,
       WriterSteppedDown DEF Release, Convert
  <1>2. /\ at[t] \in {"read", "write", "undecided"} \/ LockAwake(t, "upgrading")
        /\ UNCHANGED timedout
    BY DEF Release, Convert, ReleaseRead, ReleaseWrite, ReleaseUndecided, DecideRead,
           DecideWrite, WriteToUndecided, WriteToRead
  <1>3. t \notin reader_cv \cup writer_cv \cup upgrade_cv \cup timedout
    BY <1>2 DEF Inv, LockTypes, Among, Timed, LockAwake
  <1>4. reader_count' \in Nat
    BY SomeReader DEF Inv, LockTypes, Release, Convert, ReleaseRead, ReleaseWrite,
           ReleaseUndecided, DecideRead, DecideWrite, WriteToUndecided, WriteToRead
  <1>5. PICK x \in {"none", "upgrading"} \cup Holding :
            /\ Becomes(t, x)
            /\ has_writer' \in BOOLEAN /\ writer_waiting' \in BOOLEAN /\ upgratable' \in BOOLEAN
            /\ reader_cv' \subseteq reader_cv /\ writer_cv' \subseteq writer_cv
            /\ upgrade_cv' \subseteq upgrade_cv \/ (x = "upgrading" /\ upgrade_cv' \subseteq upgrade_cv \cup {t})
    <2> USE DEF Inv, LockTypes, Holding
    <2>1. CASE ReleaseRead(t)
      BY <2>1, Notified DEF ReleaseRead, HandOff
    <2>2. CASE ReleaseWrite(t)
      BY <2>2, Notified DEF ReleaseWrite
    <2>3. CASE ReleaseUndecided(t)
      BY <2>3, Notified DEF ReleaseUndecided
    <2>4. CASE DecideRead(t)
      BY <2>4, Notified DEF DecideRead
    <2>5. CASE DecideWrite(t)
      BY <2>5 DEF DecideWrite, Upgrade, SleepAsUpgrader
    <2>6. CASE WriteToUndecided(t)
      BY <2>6, Notified DEF WriteToUndecided
    <2>7. CASE WriteToRead(t)
      BY <2>7, Notified DEF WriteToRead
    <2>. QED BY <2>1, <2>2, <2>3, <2>4, <2>5, <2>6, <2>7 DEF Release, Convert
  <1>6. LockTypes'
    BY <1>2, <1>3, <1>4, <1>5, TypesKept DEF Inv, Waiting
  <1>. QED BY <1>1, <1>6 DEF Inv

LEMMA TimedOutOrWoken ==
    ASSUME Inv, NEW t \in Threads, TimeOut(t) \/ SpuriousWakeUp(t)
    PROVE  Inv'
  <1>1. UNCHANGED <<reader_count, has_writer, writer_waiting, upgratable, at>>
    BY DEF TimeOut, SpuriousWakeUp, lock
  <1>2. Core'
    BY <1>1 DEF Inv, Core, MutualExclusion, ReaderCount, Readers, WriterFlag, UpgradeFlag
  <1>3. LockTypes'
    BY <1>1 DEF Inv, LockTypes, TimeOut, SpuriousWakeUp, Among, Timed
  <1>. QED BY <1>2, <1>3 DEF Inv

LEMMA CallsAreFixed == ASSUME [LockNext]_lockVars PROVE timed_calls' = timed_calls
  BY DEF LockNext, lockVars

\* What is nobody's is nobody's at the start, and every step keeps Inv.
LEMMA InvHolds == LockSpec => [](NobodyIsMisled => Inv)
  <1>1. LockInit => Inv
    <2> SUFFICES ASSUME LockInit PROVE Inv
      OBVIOUS
    <2> USE DEF LockInit
    <2>1. LockTypes
      BY DEF LockTypes
    <2>2. Readers = {}
      BY DEF Readers
    <2>3. Core
      BY <2>2, FS_EmptySet DEF Core, MutualExclusion, ReaderCount, WriterFlag, UpgradeFlag, Holding
    <2>. QED BY <2>1, <2>3 DEF Inv
  <1>2. (NobodyIsMisled => Inv) /\ [LockNext]_lockVars => (NobodyIsMisled => Inv)'
    <2> SUFFICES ASSUME NobodyIsMisled => Inv, [LockNext]_lockVars, NobodyIsMisled' PROVE Inv'
      OBVIOUS
    <2>. NobodyIsMisled /\ Inv
      BY CallsAreFixed DEF NobodyIsMisled
    <2>1. CASE UNCHANGED lockVars
      BY <2>1 DEF lockVars, lock, cvs, Inv, LockTypes, Core, MutualExclusion, ReaderCount, Readers,
                  WriterFlag, UpgradeFlag, Among
    <2>2. ASSUME NEW t \in Threads, Acquire(t) PROVE Inv'
      BY <2>2, Acquired
    <2>3. ASSUME NEW t \in Threads, GiveUp(t) PROVE Inv'
      BY <2>3, GivenUp
    <2>4. ASSUME NEW t \in Threads, Release(t) \/ Convert(t) PROVE Inv'
      BY <2>4, Released
    <2>5. ASSUME NEW t \in Threads, TimeOut(t) \/ SpuriousWakeUp(t) PROVE Inv'
      BY <2>5, TimedOutOrWoken
    <2>. QED BY <2>1, <2>2, <2>3, <2>4, <2>5 DEF LockNext, Step
  <1>. QED BY <1>1, <1>2, PTL DEF LockSpec

-----------------------------------------------------------------------------
\* reader_count_ never wraps below zero, and a thread sleeps only where its
\* call puts it (rwmutex_impl.hpp:41-49).
THEOREM TypeCorrect == LockSpec => [](NobodyIsMisled => LockTypeOK)
  <1> DEFINE Known == timed_calls \subseteq TimedCalls
  <1>1. LockInit => Known
    BY DEF LockInit
  <1>2. Known /\ [LockNext]_lockVars => Known'
    BY DEF LockNext, lockVars
  <1>3. Inv /\ Known => LockTypeOK
    BY DEF Inv, LockTypeOK
  <1>. QED BY <1>1, <1>2, <1>3, InvHolds, PTL DEF LockSpec

\* A writer is alone, and nothing is written between an undecided holder's
\* acquire_undecided and the end of its decide_write (:195-256).
THEOREM Exclusion == LockSpec => [](NobodyIsMisled => MutualExclusion)
  <1>1. Inv => MutualExclusion
    BY DEF Inv, Core
  <1>. QED BY <1>1, InvHolds, PTL

\* The four fields of the mutex always say who holds it (:41-44), also while
\* the last reader has handed it to a thread that has not woken yet (:116-123).
THEOREM LockStateIsRight == LockSpec => [](NobodyIsMisled => LockState)
  <1>. QED BY InvIsLockState, InvHolds, PTL

-----------------------------------------------------------------------------
(* Ghost writers.  The conjuncts of NoGhostWriter are inductive beside Inv. *)

Writers == {"writing", "writing_timed"}

FlagIsRight       == writer_waiting => WriteBlocked /\ Among(Writers) # {}
ReadersAreHeld    == reader_cv # {} => WriteBlocked
ReadersAreBlocked == ReadersAsleep /\ "write" \notin timed_calls => ReadBlocked

LEMMA NoGhostIsIt == NoGhostWriter <=> FlagIsRight /\ ReadersAreHeld /\ ReadersAreBlocked
  BY DEF NoGhostWriter, FlagIsRight, ReadersAreHeld, ReadersAreBlocked, Writers

LEMMA WritersStay ==
    ASSUME LockTypes, NEW t \in Threads, NEW x, Becomes(t, x),
           at[t] \in Writers => x \in Writers,
           Among(Writers) # {}
    PROVE  Among(Writers)' # {}
  <1>1. \A s \in Threads : at'[s] = IF s = t THEN x ELSE at[s]
    BY OneThreadMoves
  <1>. QED BY <1>1 DEF Among

LEMMA FlagAmongCallers ==
    ASSUME Inv, FlagIsRight, NobodyIsMisled, NEW t \in Threads, Acquire(t) \/ GiveUp(t)
    PROVE  FlagIsRight'
  <1> USE DEF Inv, LockTypes, FlagIsRight
  <1>1. ASSUME NEW x \in {"reading", "reading_timed", "deciding", "deciding_timed"},
               SleepAsReader(t, x), at[t] \notin Writers
        PROVE  FlagIsRight'
    BY <1>1, WritersStay DEF SleepAsReader, lock, WriteBlocked, Writers
  <1>2. ASSUME NEW x \in Writers, SleepAsWriter(t, x), WriteBlocked
        PROVE  FlagIsRight'
    <2>1. at'[t] = x
      BY <1>2, OneThreadMoves DEF SleepAsWriter
    <2>. QED BY <1>2, <2>1 DEF SleepAsWriter, WriteBlocked, Among, Writers
  <1>3. ASSUME \/ ~ReadBlocked /\ TakeRead(t)
               \/ ~WriteBlocked /\ TakeWrite(t)
               \/ ~UndecidedBlocked /\ TakeUndecided(t)
               \/ PassOn(t)
        PROVE  FlagIsRight'
    <2>1. writer_waiting' = FALSE
      BY <1>3 DEF TakeRead, TakeWrite, TakeUndecided, PassOn, ReadBlocked, UndecidedBlocked
    <2>. QED BY <2>1
  <1>4. ASSUME ReturnsFalse(t), at[t] \in Writers => ~WriteBlocked
        PROVE  FlagIsRight'
    <2>1. CASE at[t] \in Writers
      BY <1>4, <2>1 DEF ReturnsFalse, lock
    <2>2. CASE at[t] \notin Writers
      BY <1>4, <2>2, WritersStay DEF ReturnsFalse, lock, WriteBlocked, Writers
    <2>. QED BY <2>1, <2>2
  <1> USE DEF Calls, LockAwake, Writers
  <1>6. CASE AcquireRead(t)
    BY <1>6, <1>1, <1>3 DEF AcquireRead
  <1>7. CASE TimedAcquireRead(t)
    BY <1>7, <1>1, <1>3 DEF TimedAcquireRead
  <1>8. CASE AcquireWrite(t)
    BY <1>8, <1>2, <1>3 DEF AcquireWrite
  <1>9. CASE TimedAcquireWrite(t)
    BY <1>9, <1>2, <1>4, GarbageIsFalse DEF TimedAcquireWrite
  <1>10. CASE AcquireUndecided(t)
    BY <1>10, <1>1, <1>3 DEF AcquireUndecided
  <1>11. CASE TimedAcquireUndecided(t)
    BY <1>11, <1>1, <1>4, GarbageIsFalse DEF TimedAcquireUndecided
  <1>12. CASE ReadTimedOut(t)
    BY <1>12, <1>4 DEF ReadTimedOut
  <1>13. CASE WriteTimedOut(t)
    BY <1>13, <1>3 DEF WriteTimedOut
  <1>14. CASE UndecidedTimedOut(t)
    BY <1>14, <1>3, <1>4 DEF UndecidedTimedOut
  <1>. QED BY <1>6, <1>7, <1>8, <1>9, <1>10, <1>11, <1>12, <1>13, <1>14 DEF Acquire, GiveUp

LEMMA FlagAmongHolders ==
    ASSUME Inv, FlagIsRight, NEW t \in Threads, Release(t) \/ Convert(t)
    PROVE  FlagIsRight'
  <1> USE DEF Inv, LockTypes, FlagIsRight
  <1>1. ASSUME NEW x \in {"none", "write", "upgrading"}, Becomes(t, x), at[t] \notin Writers,
               writer_waiting' = writer_waiting, WriteBlocked'
        PROVE  FlagIsRight'
    BY <1>1, WritersStay DEF Writers
  <1>2. ASSUME writer_waiting' = FALSE PROVE FlagIsRight'
    BY <1>2
  <1>3. CASE ReleaseRead(t)
    <2>1. reader_count' \in Nat
      BY <1>3, SomeReader DEF ReleaseRead
    <2>2. Becomes(t, "none") /\ at[t] \notin Writers
      BY <1>3 DEF ReleaseRead, Writers
    <2>3. CASE reader_count' # 0
      <3>1. writer_waiting' = writer_waiting /\ WriteBlocked'
        BY <1>3, <2>1, <2>3 DEF ReleaseRead, WriteBlocked
      <3>. QED BY <1>1, <2>2, <3>1
    <2>4. CASE reader_count' = 0 /\ upgratable
      <3>1. writer_waiting' = writer_waiting /\ WriteBlocked'
        BY <1>3, <2>4 DEF ReleaseRead, HandOff, WriteBlocked
      <3>. QED BY <1>1, <2>2, <3>1
    <2>5. CASE reader_count' = 0 /\ ~upgratable
      BY <1>2, <1>3, <2>5 DEF ReleaseRead, HandOff
    <2>. QED BY <2>3, <2>4, <2>5
  <1>4. CASE ReleaseUndecided(t)
    <2>1. reader_count' \in Nat
      BY <1>4, SomeReader DEF ReleaseUndecided
    <2>2. CASE reader_count' # 0
      <3>1. /\ Becomes(t, "none") /\ at[t] \notin Writers
            /\ writer_waiting' = writer_waiting /\ WriteBlocked'
        BY <1>4, <2>1, <2>2 DEF ReleaseUndecided, WriteBlocked, Writers
      <3>. QED BY <1>1, <3>1
    <2>3. CASE reader_count' = 0
      BY <1>2, <1>4, <2>3 DEF ReleaseUndecided
    <2>. QED BY <2>2, <2>3
  <1>5. CASE DecideWrite(t)
    <2>1. at[t] \notin Writers /\ writer_waiting' = writer_waiting
      BY <1>5 DEF DecideWrite, LockAwake, Writers
    <2>2. CASE reader_count' > 0
      BY <1>1, <1>5, <2>1, <2>2 DEF DecideWrite, SleepAsUpgrader, WriteBlocked
    <2>3. CASE ~(reader_count' > 0)
      BY <1>1, <1>5, <2>1, <2>3 DEF DecideWrite, Upgrade, WriteBlocked
    <2>. QED BY <2>2, <2>3
  <1>6. CASE ReleaseWrite(t) \/ DecideRead(t) \/ WriteToUndecided(t) \/ WriteToRead(t)
    BY <1>2, <1>6 DEF ReleaseWrite, DecideRead, WriteToUndecided, WriteToRead
  <1>. QED BY <1>3, <1>4, <1>5, <1>6 DEF Release, Convert

LEMMA FlagStep ==
    ASSUME Inv, FlagIsRight, NobodyIsMisled, [LockNext]_lockVars
    PROVE  FlagIsRight'
  <1>1. CASE UNCHANGED lockVars
    BY <1>1 DEF lockVars, lock, FlagIsRight, WriteBlocked, Among
  <1>2. ASSUME NEW t \in Threads, TimeOut(t) \/ SpuriousWakeUp(t) PROVE FlagIsRight'
    BY <1>2 DEF TimeOut, SpuriousWakeUp, lock, FlagIsRight, WriteBlocked, Among
  <1>3. ASSUME NEW t \in Threads, Acquire(t) \/ GiveUp(t) PROVE FlagIsRight'
    BY <1>3, FlagAmongCallers
  <1>4. ASSUME NEW t \in Threads, Release(t) \/ Convert(t) PROVE FlagIsRight'
    BY <1>4, FlagAmongHolders
  <1>. QED BY <1>1, <1>2, <1>3, <1>4 DEF LockNext, Step

-----------------------------------------------------------------------------
(* Readers asleep.  Where writers do not time out, no call of theirs does,  *)
(* so that nobody lowers the flag without waking the readers.              *)

NoTimedWriters == "write" \notin timed_calls => \A t \in Threads : at[t] # "writing_timed"

LEMMA NoTimedWritersStep ==
    ASSUME Inv, NoTimedWriters, [LockNext]_lockVars
    PROVE  NoTimedWriters'
  <1> SUFFICES ASSUME "write" \notin timed_calls', NEW s \in Threads, at'[s] = "writing_timed"
               PROVE  FALSE
    BY DEF NoTimedWriters
  <1>1. "write" \notin timed_calls /\ at[s] # "writing_timed"
    BY CallsAreFixed DEF NoTimedWriters
  <1>2. PICK t \in Threads : Step(t)
    BY <1>1 DEF LockNext, lockVars
  <1>3. at' # at
    BY <1>1
  <1>4. PICK x \in {"none"} \cup Holding \cup Waiting : Becomes(t, x) /\ x # "writing_timed"
    <2> USE DEF Holding, Waiting, Timed
    <2>1. CASE Acquire(t)
      BY <2>1, <1>1 DEF Acquire, AcquireRead, TimedAcquireRead, AcquireWrite, TimedAcquireWrite,
             AcquireUndecided, TimedAcquireUndecided, ReturnsGarbage, SleepAsReader,
             SleepAsWriter, TakeRead, TakeWrite, TakeUndecided
    <2>2. CASE GiveUp(t)
      BY <2>2 DEF GiveUp, ReadTimedOut, WriteTimedOut, UndecidedTimedOut, ReturnsFalse, PassOn,
             TakeWrite, TakeUndecided
    <2>3. CASE Release(t)
      BY <2>3 DEF Release, ReleaseRead, ReleaseWrite, ReleaseUndecided
    <2>4. CASE Convert(t)
      BY <2>4 DEF Convert, DecideRead, DecideWrite, Upgrade, SleepAsUpgrader, WriteToUndecided,
             WriteToRead
    <2>5. CASE TimeOut(t) \/ SpuriousWakeUp(t)
      BY <2>5, <1>3 DEF TimeOut, SpuriousWakeUp
    <2>. QED BY <1>2, <2>1, <2>2, <2>3, <2>4, <2>5 DEF Step
  <1>. QED BY <1>1, <1>4, OneThreadMoves DEF Inv

HeldBack == ReadersAreHeld /\ ReadersAreBlocked

\* Whoever goes to sleep does so at a lock that is held.
LEMMA BlockedMeansHeld ==
    ASSUME Inv, FlagIsRight, ReadBlocked \/ UndecidedBlocked
    PROVE  WriteBlocked
  <1>1. CASE has_writer \/ writer_waiting
    BY <1>1 DEF FlagIsRight, WriteBlocked
  <1>2. CASE upgratable /\ ~has_writer
    <2>1. PICK s \in Threads : at[s] \in {"undecided", "upgrading"}
      BY <1>2 DEF Inv, Core, UpgradeFlag
    <2>2. reader_count # 0
      BY <1>2, <2>1, SomeReader DEF Inv, Core, UpgradeFlag
    <2>. QED BY <2>2 DEF WriteBlocked, Inv, LockTypes
  <1>. QED BY <1>1, <1>2 DEF ReadBlocked, UndecidedBlocked

\* A step of t after which it is no reader asleep adds none.
LEMMA NoNewReader ==
    ASSUME Inv, NEW t \in Threads, NEW x, Becomes(t, x),
           x \notin {"reading", "reading_timed"}, reader_cv' \ {t} \subseteq reader_cv,
           ReadersAsleep'
    PROVE  ReadersAsleep
  <1>1. \A s \in Threads : at'[s] = IF s = t THEN x ELSE at[s]
    BY OneThreadMoves DEF Inv
  <1>. QED BY <1>1 DEF ReadersAsleep, Asleep, Among

\* What keeps the readers out stays, or more.
LEMMA StillHeldBack ==
    ASSUME Inv, HeldBack, NEW t \in Threads, NEW x, Becomes(t, x),
           x \notin {"reading", "reading_timed"}, reader_cv' \ {t} \subseteq reader_cv,
           timed_calls' = timed_calls, WriteBlocked', ReadBlocked => ReadBlocked'
    PROVE  HeldBack'
  BY NoNewReader DEF HeldBack, ReadersAreHeld, ReadersAreBlocked

LEMMA NobodyLeft ==
    ASSUME reader_cv' = {}
    PROVE  HeldBack'
  BY DEF HeldBack, ReadersAreHeld, ReadersAreBlocked, ReadersAsleep, Asleep

LEMMA CallersHeldBack ==
    ASSUME Inv, FlagIsRight, HeldBack, NoTimedWriters, NobodyIsMisled,
           timed_calls' = timed_calls, NEW t \in Threads, Acquire(t) \/ GiveUp(t)
    PROVE  HeldBack'
  <1>1. ASSUME NEW x \in {"reading", "reading_timed"}, SleepAsReader(t, x), ReadBlocked
        PROVE  HeldBack'
    <2>1. WriteBlocked' /\ ReadBlocked'
      BY <1>1, BlockedMeansHeld DEF SleepAsReader, lock, WriteBlocked, ReadBlocked
    <2>. QED BY <2>1 DEF HeldBack, ReadersAreHeld, ReadersAreBlocked
  <1>2. ASSUME NEW x \in {"deciding", "deciding_timed"}, SleepAsReader(t, x), UndecidedBlocked
        PROVE  HeldBack'
    <2>1. WriteBlocked' /\ (ReadBlocked => ReadBlocked')
      BY <1>2, BlockedMeansHeld DEF SleepAsReader, lock, WriteBlocked, ReadBlocked
    <2>2. Becomes(t, x) /\ reader_cv' \ {t} \subseteq reader_cv
      BY <1>2 DEF SleepAsReader
    <2>. QED BY <2>1, <2>2, StillHeldBack
  <1>3. ASSUME NEW x \in Writers, SleepAsWriter(t, x), WriteBlocked
        PROVE  HeldBack'
    <2>1. WriteBlocked' /\ ReadBlocked'
      BY <1>3 DEF SleepAsWriter, WriteBlocked, ReadBlocked
    <2>. QED BY <2>1 DEF HeldBack, ReadersAreHeld, ReadersAreBlocked
  <1>4. ASSUME TakeRead(t) \/ TakeWrite(t) \/ TakeUndecided(t)
        PROVE  HeldBack'
    <2>1. WriteBlocked' /\ (ReadBlocked => ReadBlocked')
      BY <1>4 DEF TakeRead, TakeWrite, TakeUndecided, WriteBlocked, ReadBlocked, Inv, LockTypes
    <2>2. \E x \in Holding : Becomes(t, x) /\ reader_cv' = reader_cv
      BY <1>4 DEF TakeRead, TakeWrite, TakeUndecided, Holding
    <2>. QED BY <2>1, <2>2, StillHeldBack DEF Holding
  <1>5. ASSUME ReturnsFalse(t)
        PROVE  HeldBack'
    <2>1. CASE reader_cv = {}
      BY <1>5, <2>1, NobodyLeft DEF ReturnsFalse
    <2>2. CASE reader_cv # {}
      <3>1. WriteBlocked' /\ (ReadBlocked => ReadBlocked')
        BY <1>5, <2>2 DEF ReturnsFalse, lock, WriteBlocked, ReadBlocked, HeldBack, ReadersAreHeld
      <3>. QED BY <1>5, <3>1, StillHeldBack DEF ReturnsFalse
    <2>. QED BY <2>1, <2>2
  <1>6. ASSUME PassOn(t), WriteBlocked, at[t] = "writing_timed"
        PROVE  HeldBack'
    <2>1. "write" \in timed_calls'
      BY <1>6 DEF NoTimedWriters
    <2>2. WriteBlocked'
      BY <1>6 DEF PassOn, WriteBlocked
    <2>. QED BY <2>1, <2>2 DEF HeldBack, ReadersAreHeld, ReadersAreBlocked
  <1>7. CASE AcquireRead(t)
    BY <1>7, <1>1, <1>4 DEF AcquireRead
  <1>8. CASE TimedAcquireRead(t)
    BY <1>8, <1>1, <1>4 DEF TimedAcquireRead
  <1>9. CASE AcquireWrite(t)
    BY <1>9, <1>3, <1>4 DEF AcquireWrite, Writers
  <1>10. CASE TimedAcquireWrite(t)
    BY <1>10, <1>3, <1>5, GarbageIsFalse DEF TimedAcquireWrite, Writers
  <1>11. CASE AcquireUndecided(t)
    BY <1>11, <1>2, <1>4 DEF AcquireUndecided
  <1>12. CASE TimedAcquireUndecided(t)
    BY <1>12, <1>2, <1>5, GarbageIsFalse DEF TimedAcquireUndecided
  <1>13. CASE ReadTimedOut(t)
    BY <1>13, <1>5 DEF ReadTimedOut
  <1>14. CASE WriteTimedOut(t)
    BY <1>14, <1>4, <1>6 DEF WriteTimedOut
  <1>15. CASE UndecidedTimedOut(t)
    BY <1>15, <1>4, <1>5 DEF UndecidedTimedOut
  <1>. QED BY <1>7, <1>8, <1>9, <1>10, <1>11, <1>12, <1>13, <1>14, <1>15 DEF Acquire, GiveUp

LEMMA HoldersHeldBack ==
    ASSUME Inv, HeldBack, timed_calls' = timed_calls,
           NEW t \in Threads, Release(t) \/ Convert(t)
    PROVE  HeldBack'
  <1>1. CASE NotifyAll
    BY <1>1, NobodyLeft DEF NotifyAll
  <1>2. CASE ReleaseRead(t) /\ reader_count' # 0
    <2>1. WriteBlocked' /\ (ReadBlocked => ReadBlocked')
      BY <1>2, SomeReader DEF ReleaseRead, WriteBlocked, ReadBlocked, Inv, LockTypes
    <2>. QED BY <1>2, <2>1, StillHeldBack DEF ReleaseRead
  <1>3. CASE ReleaseUndecided(t) /\ reader_count' # 0
    <2>1. WriteBlocked' /\ (ReadBlocked => ReadBlocked')
      BY <1>3, SomeReader DEF ReleaseUndecided, WriteBlocked, ReadBlocked, Inv, LockTypes
    <2>. QED BY <1>3, <2>1, StillHeldBack DEF ReleaseUndecided
  <1>4. CASE DecideWrite(t)
    <2>1. WriteBlocked' /\ (ReadBlocked => ReadBlocked')
      BY <1>4 DEF DecideWrite, SleepAsUpgrader, Upgrade, WriteBlocked, ReadBlocked
    <2>2. \E x \in {"write", "upgrading"} : Becomes(t, x) /\ reader_cv' = reader_cv
      BY <1>4 DEF DecideWrite, SleepAsUpgrader, Upgrade
    <2>. QED BY <2>1, <2>2, StillHeldBack
  <1>5. CASE ReleaseRead(t) /\ reader_count' = 0
    BY <1>1, <1>5 DEF ReleaseRead, HandOff
  <1>6. CASE ReleaseUndecided(t) /\ reader_count' = 0
    BY <1>1, <1>6 DEF ReleaseUndecided
  <1>7. CASE ReleaseWrite(t) \/ DecideRead(t) \/ WriteToUndecided(t) \/ WriteToRead(t)
    BY <1>1, <1>7 DEF ReleaseWrite, DecideRead, WriteToUndecided, WriteToRead
  <1>. QED BY <1>2, <1>3, <1>4, <1>5, <1>6, <1>7 DEF Release, Convert

LEMMA HeldBackStep ==
    ASSUME Inv, FlagIsRight, HeldBack, NoTimedWriters, NobodyIsMisled, [LockNext]_lockVars
    PROVE  HeldBack'
  <1> USE CallsAreFixed
  <1>1. CASE UNCHANGED lockVars
    BY <1>1 DEF lockVars, lock, cvs, HeldBack, ReadersAreHeld, ReadersAreBlocked, ReadersAsleep,
                Asleep, WriteBlocked, ReadBlocked, Among
  <1>2. ASSUME NEW t \in Threads, TimeOut(t) \/ SpuriousWakeUp(t) PROVE HeldBack'
    <2>1. UNCHANGED <<lock, at>> /\ reader_cv' \subseteq reader_cv
      BY <1>2 DEF TimeOut, SpuriousWakeUp
    <2>. QED BY <2>1 DEF lock, HeldBack, ReadersAreHeld, ReadersAreBlocked, ReadersAsleep,
                         Asleep, WriteBlocked, ReadBlocked, Among
  <1>3. ASSUME NEW t \in Threads, Acquire(t) \/ GiveUp(t) PROVE HeldBack'
    BY <1>3, CallersHeldBack
  <1>4. ASSUME NEW t \in Threads, Release(t) \/ Convert(t) PROVE HeldBack'
    BY <1>4, HoldersHeldBack
  <1>. QED BY <1>1, <1>2, <1>3, <1>4 DEF LockNext, Step

-----------------------------------------------------------------------------
\* Readers are kept out for a writer that waits, and only at a lock that is held:
\* neither a writer that gave up (:178-183) nor one that got in leaves the flag
\* writer_waiting_ behind (:116-129).  No reader sleeps beside a free lock; and
\* where the clients' writers do not give up, none sleeps beside a lock it could take.
THEOREM NoGhosts == LockSpec => [](NobodyIsMisled => NoGhostWriter)
  <1> DEFINE Kept == FlagIsRight /\ HeldBack /\ NoTimedWriters
  <1>1. LockInit => (NobodyIsMisled => Kept)
    BY DEF LockInit, FlagIsRight, HeldBack, ReadersAreHeld, ReadersAreBlocked, ReadersAsleep,
           Asleep, NoTimedWriters
  <1>2. (NobodyIsMisled => Inv) /\ (NobodyIsMisled => Kept) /\ [LockNext]_lockVars
            => (NobodyIsMisled => Kept)'
    <2> SUFFICES ASSUME NobodyIsMisled => Inv, NobodyIsMisled => Kept, [LockNext]_lockVars,
                        NobodyIsMisled'
                 PROVE  Kept'
      OBVIOUS
    <2>1. NobodyIsMisled
      BY CallsAreFixed DEF NobodyIsMisled
    <2>. QED BY <2>1, FlagStep, HeldBackStep, NoTimedWritersStep
  <1>3. Kept => NoGhostWriter
    BY NoGhostIsIt DEF HeldBack
  <1>. QED BY <1>1, <1>2, <1>3, InvHolds, PTL DEF LockSpec

-----------------------------------------------------------------------------
(* Sleepers.  What NobodySleepsOnAFreeLock says of readers follows from     *)
(* NoGhostWriter; of writers and the upgrading thread, it is kept by steps  *)
(* from states in which Inv and NoGhostWriter hold.                         *)

AWriterIsUp   == ~WriteBlocked /\ writer_cv # {} => \E s \in Among(Writers) : s \notin writer_cv
UpgraderIsUp  == upgrade_cv # {} => reader_count > 0
Awakened      == AWriterIsUp /\ UpgraderIsUp

LEMMA AwakenedIsIt ==
    ASSUME NoGhostWriter, timed_calls \subseteq {"read"} => Awakened
    PROVE  NobodySleepsOnAFreeLock
  <1> SUFFICES ASSUME timed_calls \subseteq {"read"} PROVE NobodySleepsOnAFreeLock
    BY DEF NobodySleepsOnAFreeLock
  <1>1. ReadersAsleep => ReadBlocked
    BY DEF NoGhostWriter
  <1>2. DecidersAsleep => UndecidedBlocked \/ reader_count > 0
    BY DEF NoGhostWriter, DecidersAsleep, Asleep, WriteBlocked, UndecidedBlocked
  <1>. QED BY <1>1, <1>2 DEF NobodySleepsOnAFreeLock, Awakened, AWriterIsUp, UpgraderIsUp, Writers

\* At a lock that is held only the upgrading thread may sleep in vain.
LEMMA HeldThen ==
    ASSUME WriteBlocked', UpgraderIsUp'
    PROVE  Awakened'
  BY DEF Awakened, AWriterIsUp

\* A writer that is notified is on its way.
LEMMA ToldThen ==
    ASSUME Inv, NEW t \in Threads, NEW x, Becomes(t, x), at[t] \notin Writers,
           NotifyAll, UpgraderIsUp'
    PROVE  Awakened'
  <1>1. \A s \in Threads : at'[s] = IF s = t THEN x ELSE at[s]
    BY OneThreadMoves DEF Inv
  <1>3. ASSUME writer_cv' # {}
        PROVE  \E s \in Among(Writers)' : s \notin writer_cv'
    <2>1. PICK s \in writer_cv : writer_cv' = writer_cv \ {s}
      BY <1>3 DEF NotifyAll, NotifyOne
    <2>2. s \in Threads /\ at[s] \in Writers
      BY DEF Inv, LockTypes, Among, Writers
    <2>3. s \in Among(Writers)'
      BY <1>1, <2>2 DEF Among
    <2>. QED BY <2>1, <2>3
  <1>4. AWriterIsUp'
    BY <1>3 DEF AWriterIsUp
  <1>. QED BY <1>4 DEF Awakened

\* A caller that is no writer comes back with nothing.
LEMMA EmptyThen ==
    ASSUME Inv, Awakened, NEW t \in Threads, ReturnsFalse(t), at[t] \notin Writers
    PROVE  Awakened'
  <1>1. \A s \in Threads : at'[s] = IF s = t THEN "none" ELSE at[s]
    BY OneThreadMoves DEF Inv, ReturnsFalse
  <1>2. UNCHANGED <<reader_count, has_writer, reader_cv, writer_cv, upgrade_cv>>
    BY DEF ReturnsFalse, lock
  <1>3. \A s \in Among(Writers) : s \in Among(Writers)'
    BY <1>1 DEF Among
  <1>. QED BY <1>2, <1>3 DEF Awakened, AWriterIsUp, UpgraderIsUp, WriteBlocked

LEMMA CallersAwakened ==
    ASSUME Inv, FlagIsRight, Awakened, NobodyIsMisled, "write" \notin timed_calls,
           NEW t \in Threads, Acquire(t) \/ GiveUp(t)
    PROVE  Awakened'
  <1>1. ASSUME NEW x, SleepAsReader(t, x), ReadBlocked \/ UndecidedBlocked
        PROVE  Awakened'
    BY <1>1, BlockedMeansHeld, HeldThen
       DEF SleepAsReader, lock, WriteBlocked, Awakened, UpgraderIsUp
  <1>2. ASSUME NEW x, SleepAsWriter(t, x), WriteBlocked
        PROVE  Awakened'
    BY <1>2, HeldThen DEF SleepAsWriter, WriteBlocked, Awakened, UpgraderIsUp
  <1>3. ASSUME TakeRead(t) \/ TakeWrite(t) \/ TakeUndecided(t)
        PROVE  Awakened'
    <2>1. UpgraderIsUp'
      BY <1>3 DEF TakeRead, TakeWrite, TakeUndecided, Awakened, UpgraderIsUp, Inv, LockTypes
    <2>2. WriteBlocked'
      BY <1>3 DEF TakeRead, TakeWrite, TakeUndecided, WriteBlocked, Inv, LockTypes
    <2>. QED BY <2>1, <2>2, HeldThen
  <1>4. ASSUME PassOn(t), WriteBlocked
        PROVE  Awakened'
    BY <1>4, HeldThen DEF PassOn, WriteBlocked, Awakened, UpgraderIsUp
  <1>6. CASE AcquireRead(t)
    BY <1>6, <1>1, <1>3 DEF AcquireRead
  <1>7. CASE TimedAcquireRead(t)
    BY <1>7, <1>1, <1>3 DEF TimedAcquireRead
  <1>8. CASE AcquireWrite(t)
    BY <1>8, <1>2, <1>3 DEF AcquireWrite
  <1>9. CASE AcquireUndecided(t)
    BY <1>9, <1>1, <1>3 DEF AcquireUndecided
  <1>10. CASE TimedAcquireUndecided(t)
    BY <1>10, <1>1, GarbageIsFalse, EmptyThen DEF TimedAcquireUndecided, Calls, LockAwake, Writers
  <1>11. CASE ReadTimedOut(t)
    BY <1>11, EmptyThen DEF ReadTimedOut, Writers
  <1>12. CASE WriteTimedOut(t)
    BY <1>12, <1>3, <1>4 DEF WriteTimedOut
  <1>13. CASE UndecidedTimedOut(t)
    BY <1>13, <1>3, EmptyThen DEF UndecidedTimedOut, Writers
  <1>. QED BY <1>6, <1>7, <1>8, <1>9, <1>10, <1>11, <1>12, <1>13
           DEF Acquire, GiveUp, TimedAcquireWrite

\* The upgrading thread, if there is one, is the only one on its condition variable.
LEMMA OneUpgrader ==
    ASSUME Inv
    PROVE  /\ \A u \in upgrade_cv : u \in Threads /\ at[u] = "upgrading"
           /\ \A u, v \in upgrade_cv : u = v
           /\ \A u \in upgrade_cv, s \in Threads : at[s] \notin {"undecided", "write"}
  BY DEF Inv, LockTypes, Among, Core, MutualExclusion

LEMMA HoldersAwakened ==
    ASSUME Inv, Awakened, NEW t \in Threads, Release(t) \/ Convert(t)
    PROVE  Awakened'
  <1> USE DEF UpgraderIsUp
  <1>1. CASE ReleaseRead(t)
    <2>1. reader_count' \in Nat /\ reader_count \in Nat /\ reader_count > 0
      BY <1>1, SomeReader DEF ReleaseRead
    <2>2. Becomes(t, "none") /\ at[t] \notin Writers
      BY <1>1 DEF ReleaseRead, Writers
    <2>3. CASE reader_count' # 0
      BY <2>1, <2>3, HeldThen DEF WriteBlocked
    <2>4. CASE reader_count' = 0
      <3>1. upgrade_cv' = {}
        <4>1. CASE upgratable
          BY <1>1, <2>4, <4>1, OneUpgrader DEF ReleaseRead, HandOff, NotifyOne
        <4>2. CASE ~upgratable
          <5>1. upgrade_cv = {}
            BY <2>1, <4>2, OneUpgrader DEF Inv, Core, UpgradeFlag
          <5>. QED BY <1>1, <2>4, <4>2, <5>1 DEF ReleaseRead, HandOff
        <4>. QED BY <4>1, <4>2
      <3>2. NotifyAll
        BY <1>1, <2>4 DEF ReleaseRead, HandOff
      <3>. QED BY <2>2, <3>1, <3>2, ToldThen
    <2>. QED BY <2>3, <2>4
  <1>2. CASE ReleaseUndecided(t)
    <2>1. UpgraderIsUp'
      BY <1>2, OneUpgrader DEF ReleaseUndecided
    <2>2. reader_count' \in Nat
      BY <1>2, SomeReader DEF ReleaseUndecided
    <2>3. CASE reader_count' # 0
      BY <2>1, <2>2, <2>3, HeldThen DEF WriteBlocked
    <2>4. CASE reader_count' = 0
      <3>1. Becomes(t, "none") /\ at[t] \notin Writers /\ NotifyAll
        BY <1>2, <2>4 DEF ReleaseUndecided, Writers
      <3>. QED BY <2>1, <3>1, ToldThen
    <2>. QED BY <2>3, <2>4
  <1>3. CASE ReleaseWrite(t) \/ WriteToUndecided(t) \/ WriteToRead(t) \/ DecideRead(t)
    <2>1. /\ \E x \in {"none", "undecided", "read"} : Becomes(t, x)
          /\ at[t] \notin Writers /\ NotifyAll
      BY <1>3 DEF ReleaseWrite, WriteToUndecided, WriteToRead, DecideRead, Writers
    <2>2. UpgraderIsUp'
      BY <1>3 DEF ReleaseWrite, WriteToUndecided, WriteToRead, DecideRead, Awakened, Inv, LockTypes
    <2>. QED BY <2>1, <2>2, ToldThen
  <1>4. CASE DecideWrite(t)
    <2>1. CASE reader_count' > 0
      BY <2>1, HeldThen DEF WriteBlocked
    <2>2. CASE ~(reader_count' > 0)
      <3>1. has_writer' /\ upgrade_cv' = upgrade_cv
        BY <1>4, <2>2 DEF DecideWrite, Upgrade
      <3>2. upgrade_cv = {}
        BY <1>4, OneUpgrader DEF DecideWrite, LockAwake, Inv, Core, MutualExclusion
      <3>. QED BY <3>1, <3>2, HeldThen DEF WriteBlocked
    <2>. QED BY <2>1, <2>2
  <1>. QED BY <1>1, <1>2, <1>3, <1>4 DEF Release, Convert

LEMMA AwakenedStep ==
    ASSUME Inv, FlagIsRight, Awakened, NobodyIsMisled, "write" \notin timed_calls, [LockNext]_lockVars
    PROVE  Awakened'
  <1>1. CASE UNCHANGED lockVars
    BY <1>1 DEF lockVars, lock, cvs, Awakened, AWriterIsUp, UpgraderIsUp, WriteBlocked, Among
  <1>2. ASSUME NEW t \in Threads, TimeOut(t) \/ SpuriousWakeUp(t) PROVE Awakened'
    <2>1. /\ UNCHANGED <<reader_count, has_writer, at>>
          /\ reader_cv' \subseteq reader_cv /\ writer_cv' \subseteq writer_cv
          /\ upgrade_cv' \subseteq upgrade_cv
      BY <1>2 DEF TimeOut, SpuriousWakeUp, lock
    <2>. QED BY <2>1 DEF Awakened, AWriterIsUp, UpgraderIsUp, WriteBlocked, Among
  <1>3. ASSUME NEW t \in Threads, Acquire(t) \/ GiveUp(t) PROVE Awakened'
    BY <1>3, CallersAwakened
  <1>4. ASSUME NEW t \in Threads, Release(t) \/ Convert(t) PROVE Awakened'
    BY <1>4, HoldersAwakened
  <1>. QED BY <1>1, <1>2, <1>3, <1>4 DEF LockNext, Step

\* No wake-up of the mutex is lost, whatever the wait and whichever of five
\* operations lets go of the lock, as long as nobody calls timed_acquire_write or
\* timed_acquire_undecided, which may use one up and take nothing
\* (rwmutex_impl.hpp:60-283).  Nothing is assumed of what a missing return gives.
THEOREM NobodyIsForgotten == LockSpec => []NobodySleepsOnAFreeLock
  <1> DEFINE Kept == timed_calls \subseteq {"read"} => Awakened
  <1>1. LockInit => Kept
    BY DEF LockInit, Awakened, AWriterIsUp, UpgraderIsUp
  <1>2. /\ NobodyIsMisled => Inv
        /\ NobodyIsMisled => NoGhostWriter
        /\ Kept
        /\ [LockNext]_lockVars
        => Kept'
    <2> SUFFICES ASSUME NobodyIsMisled => Inv, NobodyIsMisled => NoGhostWriter, Kept,
                        [LockNext]_lockVars, timed_calls' \subseteq {"read"}
                 PROVE  Awakened'
      OBVIOUS
    <2>1. timed_calls \subseteq {"read"}
      BY CallsAreFixed
    <2>2. NobodyIsMisled /\ "write" \notin timed_calls
      BY <2>1 DEF NobodyIsMisled
    <2>. QED BY <2>1, <2>2, NoGhostIsIt, AwakenedStep
  <1>3. (NobodyIsMisled => NoGhostWriter) /\ Kept => NobodySleepsOnAFreeLock
    <2> SUFFICES ASSUME NobodyIsMisled => NoGhostWriter, Kept, timed_calls \subseteq {"read"}
                 PROVE  NobodySleepsOnAFreeLock
      BY DEF NobodySleepsOnAFreeLock
    <2>. QED BY AwakenedIsIt DEF NobodyIsMisled
  <1>. QED BY <1>1, <1>2, <1>3, InvHolds, NoGhosts, PTL DEF LockSpec

=============================================================================
