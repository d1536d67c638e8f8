------------------------------ MODULE RWMutex ------------------------------
(***************************************************************************)
(* zi::rwmutex, zi/concurrency/detail/rwmutex_impl.hpp: a reader-writer    *)
(* lock with a third way to hold it, "undecided" - a reader that may later *)
(* become the writer without letting another writer in between.            *)
(*                                                                         *)
(* A step is one critical section of the internal mutex_, as in module     *)
(* TaskManager.  at[t] is what the client thread t holds, or the call it   *)
(* is blocked in; try_acquire_x is the step in which acquire_x does not    *)
(* block.  The clients release what they hold, and only that.              *)
(***************************************************************************)
EXTENDS Naturals, FiniteSets

CONSTANTS
    Threads,
    TimedCalls,     \* the kinds of acquisition that may be called with a timeout
    MissingReturn   \* what a timed acquisition that ends without a return
                    \* statement may hand its caller

ASSUME RWMutexAssumption ==
    /\ IsFiniteSet(Threads)
    /\ TimedCalls \subseteq {"read", "write", "undecided"}
    /\ MissingReturn \subseteq BOOLEAN

VARIABLES
    reader_count, has_writer, writer_waiting, upgratable,
    reader_cv, writer_cv, upgrade_cv,   \* the threads asleep on each
    timedout,                           \* those whose timed_wait returned false
    at,
    timed_calls                         \* the timed calls that the clients make

lock == <<reader_count, has_writer, writer_waiting, upgratable>>
cvs  == <<reader_cv, writer_cv, upgrade_cv, timedout>>
lockVars == <<lock, cvs, at, timed_calls>>

Holding == {"read", "undecided", "write"}
Timed   == {"reading_timed", "writing_timed", "deciding_timed"}
Waiting == {"reading", "writing", "deciding", "upgrading"} \cup Timed

LockInit ==
    /\ reader_count = 0
    /\ has_writer = FALSE /\ writer_waiting = FALSE /\ upgratable = FALSE
    /\ reader_cv = {} /\ writer_cv = {} /\ upgrade_cv = {} /\ timedout = {}
    /\ at = [t \in Threads |-> "none"]
    /\ timed_calls \in SUBSET TimedCalls

Becomes(t, x) == at' = [at EXCEPT ![t] = x]

\* Thread t, blocked in the call pc, runs again with mutex_ held.
LockAwake(t, pc) == at[t] = pc /\ t \notin reader_cv \cup writer_cv \cup upgrade_cv

NotifyOne(cv) == IF cv = {} THEN cv' = cv ELSE \E t \in cv : cv' = cv \ {t}

-----------------------------------------------------------------------------
(* The guards of the three acquisitions and the two ways each can go.      *)

\* (An operator whose comment begins "Broken:" is a wrong version of the one
\* that follows it; no specification uses it.)

ReadBlocked == has_writer \/ writer_waiting

\* Broken: the readers are forgotten.
WriteBlockedByWriter == has_writer

WriteBlocked == reader_count > 0 \/ has_writer

\* Broken: a second undecided holder is let in.
UndecidedBlockedByWriter == has_writer \/ writer_waiting

UndecidedBlocked == has_writer \/ writer_waiting \/ upgratable

TakeRead(t) ==
    /\ reader_count' = reader_count + 1
    /\ Becomes(t, "read")
    /\ UNCHANGED <<has_writer, writer_waiting, upgratable, reader_cv, writer_cv, upgrade_cv>>

TakeWrite(t) ==
    /\ has_writer' = TRUE
    /\ Becomes(t, "write")
    /\ UNCHANGED <<reader_count, writer_waiting, upgratable, reader_cv, writer_cv, upgrade_cv>>

TakeUndecided(t) ==
    /\ reader_count' = reader_count + 1
    /\ upgratable' = TRUE
    /\ Becomes(t, "undecided")
    /\ UNCHANGED <<has_writer, writer_waiting, reader_cv, writer_cv, upgrade_cv>>

SleepAsReader(t, pc) ==
    /\ reader_cv' = reader_cv \cup {t}
    /\ Becomes(t, pc)
    /\ UNCHANGED <<lock, writer_cv, upgrade_cv>>

SleepAsWriter(t, pc) ==
    /\ writer_waiting' = TRUE
    /\ writer_cv' = writer_cv \cup {t}
    /\ Becomes(t, pc)
    /\ UNCHANGED <<reader_count, has_writer, upgratable, reader_cv, upgrade_cv>>

ReturnsFalse(t) ==
    /\ Becomes(t, "none")
    /\ UNCHANGED <<lock, reader_cv, writer_cv, upgrade_cv>>

-----------------------------------------------------------------------------
(* Blocking calls: at their start, and after a wait.                       *)

Calls(t, pc) == at[t] = "none" \/ (LockAwake(t, pc) /\ t \notin timedout)

AcquireRead(t) ==
    /\ Calls(t, "reading")
    /\ \/ ReadBlocked /\ SleepAsReader(t, "reading")
       \/ ~ReadBlocked /\ TakeRead(t)
    /\ UNCHANGED timedout

AcquireWrite(t) ==
    /\ Calls(t, "writing")
    /\ \/ WriteBlocked /\ SleepAsWriter(t, "writing")
       \/ ~WriteBlocked /\ TakeWrite(t)
    /\ UNCHANGED timedout

AcquireUndecided(t) ==
    /\ Calls(t, "deciding")
    /\ \/ UndecidedBlocked /\ SleepAsReader(t, "deciding")
       \/ ~UndecidedBlocked /\ TakeUndecided(t)
    /\ UNCHANGED timedout

(* Timed calls.  timed_acquire_write and timed_acquire_undecided have no   *)
(* return statement after their loop: when the lock is free at the call or *)
(* after a notification they take nothing, and what the caller is told is  *)
(* whatever was in the register.                                           *)

TimedAcquireRead(t) ==
    /\ "read" \in timed_calls
    /\ Calls(t, "reading_timed")
    /\ \/ ReadBlocked /\ SleepAsReader(t, "reading_timed")
       \/ ~ReadBlocked /\ TakeRead(t)
    /\ UNCHANGED timedout

ReturnsGarbage(t, held) ==
    /\ \E told \in MissingReturn : Becomes(t, IF told THEN held ELSE "none")
    /\ UNCHANGED <<lock, reader_cv, writer_cv, upgrade_cv>>

TimedAcquireWrite(t) ==
    /\ "write" \in timed_calls
    /\ Calls(t, "writing_timed")
    /\ \/ WriteBlocked /\ SleepAsWriter(t, "writing_timed")
       \/ ~WriteBlocked /\ ReturnsGarbage(t, "write")
    /\ UNCHANGED timedout

TimedAcquireUndecided(t) ==
    /\ "undecided" \in timed_calls
    /\ Calls(t, "deciding_timed")
    /\ \/ UndecidedBlocked /\ SleepAsReader(t, "deciding_timed")
       \/ ~UndecidedBlocked /\ ReturnsGarbage(t, "undecided")
    /\ UNCHANGED timedout

\* timed_wait runs out; the thread has yet to get mutex_ back.
TimeOut(t) ==
    /\ at[t] \in Timed /\ t \in reader_cv \cup writer_cv
    /\ reader_cv' = reader_cv \ {t}
    /\ writer_cv' = writer_cv \ {t}
    /\ timedout' = timedout \cup {t}
    /\ UNCHANGED <<lock, upgrade_cv, at>>

ReadTimedOut(t) ==
    /\ at[t] = "reading_timed" /\ t \in timedout
    /\ ReturnsFalse(t)
    /\ timedout' = timedout \ {t}

\* Broken: the notification a timed-out writer may have taken from another
\* writer, or the block it put on readers, is not given back.
PassOnNothing(t) ==
    /\ Becomes(t, "none")
    /\ writer_waiting' = TRUE
    /\ UNCHANGED <<writer_cv, reader_count, has_writer, upgratable, reader_cv, upgrade_cv>>

PassOn(t) ==
    /\ Becomes(t, "none")
    /\ writer_waiting' = FALSE
    /\ NotifyOne(writer_cv)
    /\ UNCHANGED <<reader_count, has_writer, upgratable, reader_cv, upgrade_cv>>

WriteTimedOut(t) ==
    /\ at[t] = "writing_timed" /\ t \in timedout
    /\ \/ WriteBlocked /\ PassOn(t)
       \/ ~WriteBlocked /\ TakeWrite(t)
    /\ timedout' = timedout \ {t}

UndecidedTimedOut(t) ==
    /\ at[t] = "deciding_timed" /\ t \in timedout
    /\ \/ UndecidedBlocked /\ ReturnsFalse(t)
       \/ ~UndecidedBlocked /\ TakeUndecided(t)
    /\ timedout' = timedout \ {t}

-----------------------------------------------------------------------------
(* Releases and changes of mind.                                           *)

\* Broken: a waiting writer is preferred, and the readers are not told.
NotifyWriterFirst ==
    IF writer_cv = {} THEN reader_cv' = {} /\ UNCHANGED writer_cv
                      ELSE NotifyOne(writer_cv) /\ UNCHANGED reader_cv

NotifyAll == NotifyOne(writer_cv) /\ reader_cv' = {}

\* Broken: the last reader wakes the upgrading thread and leaves it to take
\* the lock itself.
HandOffLate ==
    /\ IF upgratable
       THEN NotifyOne(upgrade_cv) /\ UNCHANGED <<writer_waiting, has_writer, upgratable>>
       ELSE writer_waiting' = FALSE /\ UNCHANGED <<upgratable, has_writer, upgrade_cv>>
    /\ NotifyAll

\* The last reader gives the lock to the thread that waits in decide_write,
\* in that thread's name, or declares that no writer waits.
HandOff ==
    /\ IF upgratable
       THEN /\ upgratable' = FALSE
            /\ has_writer' = TRUE
            /\ NotifyOne(upgrade_cv)
            /\ UNCHANGED writer_waiting
       ELSE /\ writer_waiting' = FALSE
            /\ UNCHANGED <<upgratable, has_writer, upgrade_cv>>
    /\ NotifyAll

ReleaseRead(t) ==
    /\ at[t] = "read"
    /\ Becomes(t, "none")
    /\ reader_count' = reader_count - 1
    /\ IF reader_count' = 0
       THEN HandOff
       ELSE UNCHANGED <<has_writer, writer_waiting, upgratable, reader_cv, writer_cv, upgrade_cv>>
    /\ UNCHANGED timedout

ReleaseWrite(t) ==
    /\ at[t] = "write"
    /\ Becomes(t, "none")
    /\ has_writer' = FALSE /\ writer_waiting' = FALSE
    /\ NotifyAll
    /\ UNCHANGED <<reader_count, upgratable, upgrade_cv, timedout>>

ReleaseUndecided(t) ==
    /\ at[t] = "undecided"
    /\ Becomes(t, "none")
    /\ upgratable' = FALSE
    /\ reader_count' = reader_count - 1
    /\ IF reader_count' = 0
       THEN writer_waiting' = FALSE /\ NotifyAll
       ELSE UNCHANGED <<writer_waiting, reader_cv, writer_cv>>
    /\ UNCHANGED <<has_writer, upgrade_cv, timedout>>

DecideRead(t) ==
    /\ at[t] = "undecided"
    /\ Becomes(t, "read")
    /\ upgratable' = FALSE /\ writer_waiting' = FALSE
    /\ NotifyAll
    /\ UNCHANGED <<reader_count, has_writer, upgrade_cv, timedout>>

\* decide_write gives up its place as a reader and waits for the others.
Upgrade(t) ==
    /\ Becomes(t, "write")
    /\ upgratable' = FALSE
    /\ has_writer' = TRUE
    /\ UNCHANGED upgrade_cv

SleepAsUpgrader(t) ==
    /\ Becomes(t, "upgrading")
    /\ upgrade_cv' = upgrade_cv \cup {t}
    /\ UNCHANGED <<upgratable, has_writer>>

\* Broken: the place is given up again after every wake-up.
DecideWriteAgain(t) ==
    /\ at[t] = "undecided" \/ LockAwake(t, "upgrading")
    /\ reader_count' = reader_count - 1
    /\ IF reader_count' > 0 THEN SleepAsUpgrader(t) ELSE Upgrade(t)
    /\ UNCHANGED <<writer_waiting, reader_cv, writer_cv, timedout>>

DecideWrite(t) ==
    /\ \/ at[t] = "undecided" /\ reader_count' = reader_count - 1
       \/ LockAwake(t, "upgrading") /\ reader_count' = reader_count
    /\ IF reader_count' > 0 THEN SleepAsUpgrader(t) ELSE Upgrade(t)
    /\ UNCHANGED <<writer_waiting, reader_cv, writer_cv, timedout>>

WriteToUndecided(t) ==
    /\ at[t] = "write"
    /\ Becomes(t, "undecided")
    /\ reader_count' = reader_count + 1
    /\ upgratable' = TRUE
    /\ has_writer' = FALSE /\ writer_waiting' = FALSE
    /\ NotifyAll
    /\ UNCHANGED <<upgrade_cv, timedout>>

WriteToRead(t) ==
    /\ at[t] = "write"
    /\ Becomes(t, "read")
    /\ reader_count' = reader_count + 1
    /\ has_writer' = FALSE /\ writer_waiting' = FALSE
    /\ NotifyAll
    /\ UNCHANGED <<upgratable, upgrade_cv, timedout>>

\* A wait may return without a notification.
SpuriousWakeUp(t) ==
    /\ t \in reader_cv \cup writer_cv \cup upgrade_cv
    /\ reader_cv' = reader_cv \ {t}
    /\ writer_cv' = writer_cv \ {t}
    /\ upgrade_cv' = upgrade_cv \ {t}
    /\ UNCHANGED <<lock, timedout, at>>

-----------------------------------------------------------------------------
Acquire(t) ==
    \/ AcquireRead(t) \/ TimedAcquireRead(t)
    \/ AcquireWrite(t) \/ TimedAcquireWrite(t)
    \/ AcquireUndecided(t) \/ TimedAcquireUndecided(t)

GiveUp(t) == ReadTimedOut(t) \/ WriteTimedOut(t) \/ UndecidedTimedOut(t)

Release(t) == ReleaseRead(t) \/ ReleaseWrite(t) \/ ReleaseUndecided(t)

Convert(t) ==
    \/ DecideRead(t) \/ DecideWrite(t)
    \/ WriteToUndecided(t) \/ WriteToRead(t)

Step(t) ==
    \/ Acquire(t) \/ GiveUp(t) \/ Release(t) \/ Convert(t)
    \/ TimeOut(t) \/ SpuriousWakeUp(t)

LockNext == (\E t \in Threads : Step(t)) /\ UNCHANGED timed_calls

LockSpec == LockInit /\ [][LockNext]_lockVars

\* A thread that has been woken runs, and one that holds the lock releases it.
Proceeds(t) ==
    /\ at[t] \in Waiting
    /\ Acquire(t) \/ GiveUp(t) \/ DecideWrite(t)
    /\ UNCHANGED timed_calls

LetsGo(t) == Release(t) /\ UNCHANGED timed_calls

LockFairness == \A t \in Threads : WF_lockVars(Proceeds(t)) /\ WF_lockVars(LetsGo(t))

LockFairSpec == LockSpec /\ LockFairness

-----------------------------------------------------------------------------
Among(S) == {t \in Threads : at[t] \in S}

\* The fields of rwmutex_impl.hpp:41-49; reader_count_ never passes below
\* zero, where it would wrap, and a thread sleeps where its call puts it.
LockTypes ==
    /\ reader_count \in Nat
    /\ has_writer \in BOOLEAN /\ writer_waiting \in BOOLEAN /\ upgratable \in BOOLEAN
    /\ at \in [Threads -> {"none"} \cup Holding \cup Waiting]
    /\ reader_cv \subseteq Among({"reading", "reading_timed", "deciding", "deciding_timed"})
    /\ writer_cv \subseteq Among({"writing", "writing_timed"})
    /\ upgrade_cv \subseteq Among({"upgrading"})
    /\ timedout \subseteq Among(Timed) \ (reader_cv \cup writer_cv)

LockTypeOK == LockTypes /\ timed_calls \subseteq TimedCalls

\* The writer is alone; and of the undecided holder, the thread it becomes
\* while decide_write waits for the readers, and the writer there is one at
\* most, so nothing is written between deciding and writing.
MutualExclusion ==
    \A s, t \in Threads : s # t =>
        /\ at[s] = "write" => at[t] \notin Holding
        /\ at[s] \in {"undecided", "upgrading"} => at[t] \notin {"undecided", "upgrading", "write"}

\* What the four fields stand for.  The writer flag goes up before the thread
\* that waits in decide_write knows it: the last reader hands it over.
LockState ==
    /\ reader_count = Cardinality(Among({"read", "undecided"}))
    /\ has_writer => Among({"write", "upgrading"}) # {}
    /\ Among({"write"}) # {} => has_writer
    /\ upgratable <=> Among({"undecided"}) # {} \/ (Among({"upgrading"}) # {} /\ ~has_writer)
    /\ Among({"upgrading"}) # {} => (has_writer <=> reader_count = 0)

Asleep(cv, pcs) == cv \cap Among(pcs) # {}

ReadersAsleep  == Asleep(reader_cv, {"reading", "reading_timed"})
DecidersAsleep == Asleep(reader_cv, {"deciding", "deciding_timed"})

\* Who waits on reader_cv_ is held back by somebody.  The flag writer_waiting_ is up
\* only while the lock is held and a thread waits in acquire_write or its timed
\* form; nobody sleeps there beside a lock that is free; and where the writers'
\* calls have no timeout, a reader sleeps only while what it tests (:81) keeps it
\* out.  The last is not so of a writer that gives up: timed_acquire_write lowers
\* the flag and notifies writer_cv_ alone (:178-183), so that the readers it held
\* back sleep on, beside other readers, until a later release.
NoGhostWriter ==
    /\ writer_waiting => WriteBlocked /\ Among({"writing", "writing_timed"}) # {}
    /\ reader_cv # {} => WriteBlocked
    /\ ReadersAsleep /\ "write" \notin timed_calls => ReadBlocked

\* No wake-up is lost: a reader sleeps only while a writer has or awaits the lock;
\* one who wants it undecided while he is kept out, or while there are readers, the
\* last of whom will wake him (release_undecided wakes nobody when readers remain,
\* :222-233); writers sleep beside a lock they could take only with another one
\* awake before them; and the upgrading thread only while there are readers whose
\* last will wake it (rwmutex_impl.hpp:60-283).  This is so where only readers'
\* calls have a timeout: timed_acquire_write and timed_acquire_undecided may be
\* notified and take nothing.
NobodySleepsOnAFreeLock ==
    timed_calls \subseteq {"read"} =>
        /\ ReadersAsleep => ReadBlocked
        /\ DecidersAsleep => UndecidedBlocked \/ reader_count > 0
        /\ ~WriteBlocked /\ writer_cv # {} =>
              \E t \in Among({"writing", "writing_timed"}) : t \notin writer_cv
        /\ upgrade_cv # {} => reader_count > 0

NewCall(t) ==
    \/ at[t] = "none" /\ Acquire(t)
    \/ at[t] \in Holding /\ Convert(t)

\* Once the threads make no new acquisitions, all that wait get in, whatever
\* order they came in and whatever they hold, when only readers have timeouts.
EveryoneGetsIn ==
    timed_calls \subseteq {"read"} /\ <>[][\A t \in Threads : ~NewCall(t)]_lockVars
        => \A t \in Threads : at[t] \in Waiting ~> at[t] \notin Waiting

=============================================================================
