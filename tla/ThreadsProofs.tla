--------------------------- MODULE ThreadsProofs ---------------------------
(***************************************************************************)
(* What is proved of module Threads for every set of threads and callers.  *)
(***************************************************************************)
EXTENDS Threads, FiniteSetTheorems, TLAPS

\* The three sets that the registry counts.
Awaited  == Coming \cup In_({"on_before_start", "register_started"})
Live     == In_({"run", "execute", "sleep", "register_finished"})
Finished == In_({"on_before_join", "over"})

\* The counts are numbers because they count: the types of these follow.
StateTypes ==
    /\ state_ \in [AllThreads -> {"CREATED", "INITIALIZED", "STARTING", "RUNNING",
                               "SLEEPING", "JOINING", "JOINED"}]
    /\ detached_ \in [AllThreads -> BOOLEAN] /\ dying_ \in BOOLEAN

EntryTypes ==
    /\ entry \in [AllThreads -> {"none", "on_before_start", "register_started", "run", "execute",
                              "sleep", "register_finished", "on_before_join", "over"}]
    /\ sleep_cv_ \subseteq In_({"sleep"})

CallTypes ==
    /\ call \in [Callers -> [in : {"none", "initialize", "create", "join", "join_all"},
                              of : SUBSET AllThreads]]
    /\ state_cv_ \subseteq {c \in Callers : call[c].in = "join"}
    /\ dying_cv_ \subseteq {c \in Callers : call[c].in = "join_all"}

Types == StateTypes /\ EntryTypes /\ CallTypes

\* How far a thread is in ENTRY() says what its thread_info's state_ is.
StateFollowsEntry ==
    \A t \in AllThreads :
        /\ entry[t] = "none" => state_[t] \in {"CREATED", "INITIALIZED"}
        /\ entry[t] = "on_before_start" => state_[t] = "INITIALIZED"
        /\ entry[t] \in {"register_started", "run"} => state_[t] = "STARTING"
        /\ entry[t] = "execute" => state_[t] = "RUNNING"
        /\ entry[t] = "sleep" => state_[t] = "SLEEPING"
        /\ entry[t] \in {"register_finished", "on_before_join"} => state_[t] = "JOINING"
        /\ entry[t] = "over" => state_[t] = "JOINED"

Starts(c, t) == In(c, "initialize", t) \/ In(c, "create", t)

\* Whoever is in start() of a thread is alone in it, and the thread does not run yet.
OneStarter ==
    \A t \in AllThreads, c \in Callers :
        /\ In(c, "initialize", t) => entry[t] = "none" /\ state_[t] = "CREATED"
        /\ In(c, "create", t) => entry[t] = "none" /\ state_[t] = "INITIALIZED"
        /\ \A d \in Callers : Starts(c, t) /\ Starts(d, t) => c = d

Counts ==
    /\ pending_count_ = Cardinality(Awaited)
    /\ threads_ = Live
    /\ running_count_ = Cardinality(Live)
    /\ finished_count_ = Cardinality(Finished)

Stages == Types /\ StateFollowsEntry /\ OneStarter
Inv    == Stages /\ Counts

-----------------------------------------------------------------------------
(* The sets, when one thread or one caller moves.                          *)

LEMMA SetsAreFinite ==
    ASSUME ThreadsAssumption, NEW S \in SUBSET AllThreads
    PROVE  IsFiniteSet(S) /\ Cardinality(S) \in Nat
  BY FS_Subset, FS_CardinalityType DEF ThreadsAssumption

LEMMA ThreadComes ==
    ASSUME ThreadsAssumption, NEW S \in SUBSET AllThreads, NEW t \in AllThreads \ S
    PROVE  Cardinality(S \cup {t}) = Cardinality(S) + 1
  BY SetsAreFinite, FS_AddElement

LEMMA ThreadGoes ==
    ASSUME ThreadsAssumption, NEW S \in SUBSET AllThreads, NEW t \in S
    PROVE  Cardinality(S \ {t}) = Cardinality(S) - 1
  BY SetsAreFinite, FS_RemoveElement

LEMMA ThreadEnters ==
    ASSUME Types, NEW t \in AllThreads, NEW x, Enters(t, x)
    PROVE  /\ \A s \in AllThreads : entry'[s] = IF s = t THEN x ELSE entry[s]
           /\ \A S : In_(S)' = IF x \in S THEN In_(S) \cup {t} ELSE In_(S) \ {t}
  <1>1. \A s \in AllThreads : entry'[s] = IF s = t THEN x ELSE entry[s]
    BY DEF Types, EntryTypes, Enters
  <1>. QED BY <1>1 DEF In_

LEMMA EntryKeepsTypes ==
    ASSUME Types, NEW t \in AllThreads, NEW x, Enters(t, x), sleep_cv_' = sleep_cv_, t \notin sleep_cv_,
           x \in {"none", "on_before_start", "register_started", "run", "execute",
                  "sleep", "register_finished", "on_before_join", "over"}
    PROVE  EntryTypes'
  <1>1. \A s \in AllThreads : entry'[s] = IF s = t THEN x ELSE entry[s]
    BY ThreadEnters
  <1>. QED BY <1>1 DEF Types, EntryTypes, Enters, In_

LEMMA StateMoves ==
    ASSUME Types, NEW t \in AllThreads, NEW a, NEW b, Moves(t, a, b)
    PROVE  \A s \in AllThreads : state_'[s] = IF s = t /\ state_[t] = a THEN b ELSE state_[s]
  BY DEF Types, StateTypes, Moves

LEMMA StateKeepsTypes ==
    ASSUME Types, NEW t \in AllThreads, NEW a, NEW b, Moves(t, a, b),
           b \in {"CREATED", "INITIALIZED", "STARTING", "RUNNING", "SLEEPING", "JOINING", "JOINED"}
    PROVE  state_' \in [AllThreads -> {"CREATED", "INITIALIZED", "STARTING", "RUNNING",
                                    "SLEEPING", "JOINING", "JOINED"}]
  BY DEF Types, StateTypes, Moves

LEMMA CallerMoves ==
    ASSUME Types, NEW c \in Callers, NEW v, call' = [call EXCEPT ![c] = v]
    PROVE  \A d \in Callers : call'[d] = IF d = c THEN v ELSE call[d]
  BY DEF Types, CallTypes

LEMMA CallKeepsTypes ==
    ASSUME Types, NEW c \in Callers, call[c].in \notin {"join", "join_all"},
           NEW m \in {"none", "initialize", "create", "join", "join_all"}, NEW T \in SUBSET AllThreads,
           call' = [call EXCEPT ![c] = [in |-> m, of |-> T]],
           state_cv_' = state_cv_, dying_cv_' = dying_cv_
    PROVE  CallTypes'
  <1>1. \A d \in Callers : call'[d] = IF d = c THEN [in |-> m, of |-> T] ELSE call[d]
    BY DEF Types, CallTypes
  <1>2. call' \in [Callers -> [in : {"none", "initialize", "create", "join", "join_all"},
                               of : SUBSET AllThreads]]
    BY DEF Types, CallTypes
  <1>. QED BY <1>1, <1>2 DEF Types, CallTypes

-----------------------------------------------------------------------------
(* Stages: the types, and which stage of its life goes with which.         *)

LEMMA InitInv == ThreadsAssumption /\ RegistryInit => Inv
  <1>. SUFFICES ASSUME ThreadsAssumption, RegistryInit PROVE Inv
    OBVIOUS
  <1>1. Stages
    BY DEF RegistryInit, Ready, Stages, Types, StateTypes, EntryTypes, CallTypes, StateFollowsEntry, OneStarter, Starts, In, In_
  <1>2. Awaited = {} /\ Live = {} /\ Finished = {}
    BY DEF RegistryInit, Ready, Awaited, Live, Finished, Coming, In, In_
  <1>3. Counts
    BY <1>2, FS_EmptySet DEF RegistryInit, Counts
  <1>. QED BY <1>1, <1>3 DEF Inv

\* The steps of start().
LEMMA StartKeepsStages ==
    ASSUME Stages, NEW c \in Callers, NEW t \in AllThreads, StartThread(c, t)
    PROVE  Stages'
  <1>. USE DEF Stages
  <1>1. CASE RegisterPending(c, t)
    <2>1. \A d \in Callers : call'[d] = IF d = c THEN [in |-> "initialize", of |-> {t}] ELSE call[d]
      BY <1>1, CallerMoves DEF RegisterPending, CallsOn
    <2>2. Types'
      <3>1. CallTypes'
        <4>1. call[c].in \notin {"join", "join_all"}
          BY <1>1 DEF RegisterPending, Ready
        <4>2. call' = [call EXCEPT ![c] = [in |-> "initialize", of |-> {t}]]
          BY <1>1 DEF RegisterPending, CallsOn
        <4>3. state_cv_' = state_cv_ /\ dying_cv_' = dying_cv_
          BY <1>1 DEF RegisterPending, waitqueues
        <4>4. {t} \in SUBSET AllThreads
          OBVIOUS
        <4>. QED BY <4>1, <4>2, <4>3, <4>4, CallKeepsTypes
      <3>2. EntryTypes'
        BY <1>1 DEF RegisterPending, waitqueues, Types, EntryTypes, In_
      <3>3. StateTypes'
        BY <1>1 DEF RegisterPending, Types, StateTypes
      <3>. QED BY <3>1, <3>2, <3>3 DEF Types
    <2>3. StateFollowsEntry'
      BY <1>1 DEF RegisterPending, StateFollowsEntry
    <2>4. entry[t] = "none"
      BY <1>1 DEF RegisterPending, StateFollowsEntry, Types, EntryTypes
    <2>5. \A d \in Callers : ~Starts(d, t)
      BY <1>1 DEF RegisterPending, OneStarter, Starts
    <2>6. OneStarter'
      BY <1>1, <2>1, <2>4, <2>5 DEF RegisterPending, OneStarter, Starts, In
    <2>. QED BY <2>2, <2>3, <2>6
  <1>2. ASSUME NEW detached \in BOOLEAN, Initialize(c, t, detached) PROVE Stages'
    <2>1. \A d \in Callers : call'[d] = IF d = c THEN [in |-> "create", of |-> {t}] ELSE call[d]
      BY <1>2, CallerMoves DEF Initialize, CallsOn
    <2>2. \A s \in AllThreads : state_'[s] = IF s = t /\ state_[t] = "CREATED" THEN "INITIALIZED" ELSE state_[s]
      BY <1>2, StateMoves DEF Initialize
    <2>3. Types'
      <3>1. CallTypes'
        <4>1. call[c].in \notin {"join", "join_all"}
          BY <1>2 DEF Initialize, In
        <4>2. call' = [call EXCEPT ![c] = [in |-> "create", of |-> {t}]]
          BY <1>2 DEF Initialize, CallsOn
        <4>3. state_cv_' = state_cv_ /\ dying_cv_' = dying_cv_
          BY <1>2 DEF Initialize, waitqueues
        <4>4. {t} \in SUBSET AllThreads
          OBVIOUS
        <4>. QED BY <4>1, <4>2, <4>3, <4>4, CallKeepsTypes
      <3>2. EntryTypes'
        BY <1>2 DEF Initialize, waitqueues, Types, EntryTypes, In_
      <3>3. StateTypes'
        BY <1>2, StateKeepsTypes DEF Initialize, registry, Types, StateTypes
      <3>. QED BY <3>1, <3>2, <3>3 DEF Types
    <2>4. entry[t] = "none" /\ state_[t] = "CREATED" /\ Starts(c, t)
      BY <1>2 DEF Initialize, OneStarter, Starts
    <2>5. StateFollowsEntry'
      BY <1>2, <2>2, <2>4 DEF Initialize, StateFollowsEntry
    <2>6. \A d \in Callers : d # c => ~Starts(d, t)
      BY <2>4 DEF OneStarter
    <2>7. \A d \in Callers, s \in AllThreads : Starts(d, s)' => (d = c /\ s = t) \/ (d # c /\ Starts(d, s))
      BY <2>1 DEF Starts, In
    <2>8. \A s \in AllThreads : s # t => state_'[s] = state_[s]
      BY <2>2
    <2>9. \A d \in Callers, s \in AllThreads :
              /\ In(d, "initialize", s)' => s # t /\ In(d, "initialize", s)
              /\ In(d, "create", s)' => s = t \/ (s # t /\ In(d, "create", s))
      BY <2>1, <2>6 DEF Starts, In
    <2>10. OneStarter'
      BY <1>2, <2>2, <2>4, <2>6, <2>7, <2>8, <2>9 DEF Initialize, OneStarter
    <2>. QED BY <2>3, <2>5, <2>10
  <1>3. CASE Create(c, t)
    <2>1. \A d \in Callers : call'[d] = IF d = c THEN Ready ELSE call[d]
      BY <1>3, CallerMoves DEF Create, CallReturns
    <2>2. \A s \in AllThreads : entry'[s] = IF s = t THEN "on_before_start" ELSE entry[s]
      BY <1>3, ThreadEnters DEF Create
    <2>3. entry[t] = "none" /\ state_[t] = "INITIALIZED" /\ Starts(c, t)
      BY <1>3 DEF Create, OneStarter, Starts
    <2>4. Types'
      <3>1. CallTypes'
        <4>1. call[c].in \notin {"join", "join_all"}
          BY <1>3 DEF Create, In
        <4>2. call' = [call EXCEPT ![c] = [in |-> "none", of |-> {}]]
          BY <1>3 DEF Create, CallReturns, Ready
        <4>3. state_cv_' = state_cv_ /\ dying_cv_' = dying_cv_
          BY <1>3 DEF Create, waitqueues
        <4>4. {} \in SUBSET AllThreads
          OBVIOUS
        <4>. QED BY <4>1, <4>2, <4>3, <4>4, CallKeepsTypes
      <3>2. EntryTypes'
        BY <1>3, <2>3, EntryKeepsTypes DEF Create, waitqueues, Types, EntryTypes, In_
      <3>3. StateTypes'
        BY <1>3 DEF Create, registry, Types, StateTypes
      <3>. QED BY <3>1, <3>2, <3>3 DEF Types
    <2>5. StateFollowsEntry'
      BY <1>3, <2>2, <2>3 DEF Create, StateFollowsEntry
    <2>6. \A d \in Callers : d # c => ~Starts(d, t)
      BY <2>3 DEF OneStarter
    <2>7. \A d \in Callers, s \in AllThreads : Starts(d, s)' => d # c /\ s # t /\ Starts(d, s)
      BY <2>1, <2>6 DEF Starts, In, Ready
    <2>8. \A d \in Callers, s \in AllThreads, m \in {"initialize", "create"} :
              In(d, m, s)' => s # t /\ In(d, m, s)
      BY <2>1, <2>6 DEF Starts, In, Ready
    <2>9. OneStarter'
      BY <1>3, <2>2, <2>7, <2>8 DEF Create, OneStarter
    <2>. QED BY <2>4, <2>5, <2>9
  <1>. QED BY <1>1, <1>2, <1>3 DEF StartThread

\* A thread that has been created is in nobody's start() any more.
LEMMA OthersStart ==
    ASSUME OneStarter, NEW t \in AllThreads, entry[t] # "none", call' = call,
           \A s \in AllThreads : s # t => entry'[s] = entry[s] /\ state_'[s] = state_[s]
    PROVE  OneStarter'
  <1>1. \A d \in Callers : ~In(d, "initialize", t) /\ ~In(d, "create", t)
    BY DEF OneStarter
  <1>2. \A m : \A d \in Callers, s \in AllThreads : In(d, m, s)' = In(d, m, s)
    BY DEF In
  <1>. QED BY <1>1, <1>2 DEF OneStarter, Starts

LEMMA FewerWait ==
    ASSUME CallTypes, call' = call, state_cv_' \subseteq state_cv_, dying_cv_' \subseteq dying_cv_
    PROVE  CallTypes'
  BY DEF CallTypes

\* The steps of ENTRY(), and of what the thread executes.
LEMMA EntryKeepsStages ==
    ASSUME Stages, NEW t \in AllThreads, Entry(t) \/ SleepThread(t)
    PROVE  Stages'
  <1>. USE DEF Stages
  <1>0. entry[t] # "none"
    BY DEF Entry, SleepThread, OnBeforeStart, RegisterStarted, RunBegins, SleepIsOver, SleepReturns, RunEnds,
           RegisterFinished, OnBeforeJoin, Types, EntryTypes, In_
  <1>1. CASE OnBeforeStart(t)
    <2>1. \A s \in AllThreads : entry'[s] = IF s = t THEN "register_started" ELSE entry[s]
      BY <1>1, ThreadEnters DEF OnBeforeStart
    <2>2. \A s \in AllThreads : state_'[s] = IF s = t /\ state_[t] = "INITIALIZED" THEN "STARTING" ELSE state_[s]
      BY <1>1, StateMoves DEF OnBeforeStart
    <2>3. Types'
      <3>1. EntryTypes'
        <4>1. t \notin sleep_cv_ /\ sleep_cv_' = sleep_cv_
          BY <1>1 DEF OnBeforeStart, waitqueues, Types, EntryTypes, In_
        <4>. QED BY <1>1, <4>1, EntryKeepsTypes DEF OnBeforeStart
      <3>2. StateTypes'
        BY <1>1, StateKeepsTypes DEF OnBeforeStart, registry, Types, StateTypes
      <3>3. CallTypes'
        BY <1>1, FewerWait DEF OnBeforeStart, waitqueues, Types
      <3>. QED BY <3>1, <3>2, <3>3 DEF Types
    <2>4. StateFollowsEntry'
      BY <1>1, <2>1, <2>2 DEF OnBeforeStart, StateFollowsEntry
    <2>5. OneStarter'
      BY <1>1, <1>0, <2>1, <2>2, OthersStart DEF OnBeforeStart
    <2>. QED BY <2>3, <2>4, <2>5
  <1>2. CASE RegisterStarted(t)
    <2>1. \A s \in AllThreads : entry'[s] = IF s = t THEN "run" ELSE entry[s]
      BY <1>2, ThreadEnters DEF RegisterStarted
    <2>2. state_' = state_
      BY <1>2 DEF RegisterStarted
    <2>3. Types'
      <3>1. EntryTypes'
        <4>1. t \notin sleep_cv_ /\ sleep_cv_' = sleep_cv_
          BY <1>2 DEF RegisterStarted, waitqueues, Types, EntryTypes, In_
        <4>. QED BY <1>2, <4>1, EntryKeepsTypes DEF RegisterStarted
      <3>2. StateTypes'
        BY <1>2 DEF RegisterStarted, registry, Types, StateTypes
      <3>3. CallTypes'
        BY <1>2, FewerWait DEF RegisterStarted, waitqueues, Types
      <3>. QED BY <3>1, <3>2, <3>3 DEF Types
    <2>4. StateFollowsEntry'
      BY <1>2, <2>1, <2>2 DEF RegisterStarted, StateFollowsEntry
    <2>5. OneStarter'
      BY <1>2, <1>0, <2>1, <2>2, OthersStart DEF RegisterStarted
    <2>. QED BY <2>3, <2>4, <2>5
  <1>3. CASE RunBegins(t)
    <2>1. \A s \in AllThreads : entry'[s] = IF s = t THEN (IF state_[t] = "STARTING" THEN "execute" ELSE "register_finished") ELSE entry[s]
      BY <1>3, ThreadEnters DEF RunBegins
    <2>2. \A s \in AllThreads : state_'[s] = IF s = t /\ state_[t] = "STARTING" THEN "RUNNING" ELSE state_[s]
      BY <1>3, StateMoves DEF RunBegins
    <2>3. Types'
      <3>1. EntryTypes'
        <4>1. t \notin sleep_cv_ /\ sleep_cv_' = sleep_cv_
          BY <1>3 DEF RunBegins, waitqueues, Types, EntryTypes, In_
        <4>. QED BY <1>3, <4>1, EntryKeepsTypes DEF RunBegins
      <3>2. StateTypes'
        BY <1>3, StateKeepsTypes DEF RunBegins, registry, Types, StateTypes
      <3>3. CallTypes'
        BY <1>3, FewerWait DEF RunBegins, waitqueues, Types
      <3>. QED BY <3>1, <3>2, <3>3 DEF Types
    <2>4. StateFollowsEntry'
      BY <1>3, <2>1, <2>2 DEF RunBegins, StateFollowsEntry
    <2>5. OneStarter'
      BY <1>3, <1>0, <2>1, <2>2, OthersStart DEF RunBegins
    <2>. QED BY <2>3, <2>4, <2>5
  <1>4. CASE SleepReturns(t)
    <2>1. \A s \in AllThreads : entry'[s] = IF s = t THEN "execute" ELSE entry[s]
      BY <1>4, ThreadEnters DEF SleepReturns
    <2>2. \A s \in AllThreads : state_'[s] = IF s = t /\ state_[t] = "SLEEPING" THEN "RUNNING" ELSE state_[s]
      BY <1>4, StateMoves DEF SleepReturns
    <2>3. Types'
      <3>1. EntryTypes'
        <4>1. t \notin sleep_cv_ /\ sleep_cv_' = sleep_cv_
          BY <1>4 DEF SleepReturns, waitqueues, Types, EntryTypes, In_
        <4>. QED BY <1>4, <4>1, EntryKeepsTypes DEF SleepReturns
      <3>2. StateTypes'
        BY <1>4, StateKeepsTypes DEF SleepReturns, registry, Types, StateTypes
      <3>3. CallTypes'
        BY <1>4, FewerWait DEF SleepReturns, waitqueues, Types
      <3>. QED BY <3>1, <3>2, <3>3 DEF Types
    <2>4. StateFollowsEntry'
      BY <1>4, <2>1, <2>2 DEF SleepReturns, StateFollowsEntry
    <2>5. OneStarter'
      BY <1>4, <1>0, <2>1, <2>2, OthersStart DEF SleepReturns
    <2>. QED BY <2>3, <2>4, <2>5
  <1>5. CASE RunEnds(t)
    <2>1. \A s \in AllThreads : entry'[s] = IF s = t THEN "register_finished" ELSE entry[s]
      BY <1>5, ThreadEnters DEF RunEnds
    <2>2. \A s \in AllThreads : state_'[s] = IF s = t /\ state_[t] = "RUNNING" THEN "JOINING" ELSE state_[s]
      BY <1>5, StateMoves DEF RunEnds
    <2>3. Types'
      <3>1. EntryTypes'
        <4>1. t \notin sleep_cv_ /\ sleep_cv_' = sleep_cv_
          BY <1>5 DEF RunEnds, waitqueues, Types, EntryTypes, In_
        <4>. QED BY <1>5, <4>1, EntryKeepsTypes DEF RunEnds
      <3>2. StateTypes'
        BY <1>5, StateKeepsTypes DEF RunEnds, registry, Types, StateTypes
      <3>3. CallTypes'
        BY <1>5, FewerWait DEF RunEnds, waitqueues, Types
      <3>. QED BY <3>1, <3>2, <3>3 DEF Types
    <2>4. StateFollowsEntry'
      BY <1>5, <2>1, <2>2 DEF RunEnds, StateFollowsEntry
    <2>5. OneStarter'
      BY <1>5, <1>0, <2>1, <2>2, OthersStart DEF RunEnds
    <2>. QED BY <2>3, <2>4, <2>5
  <1>6. CASE RegisterFinished(t)
    <2>1. \A s \in AllThreads : entry'[s] = IF s = t THEN "on_before_join" ELSE entry[s]
      BY <1>6, ThreadEnters DEF RegisterFinished
    <2>2. state_' = state_
      BY <1>6 DEF RegisterFinished
    <2>3. Types'
      <3>1. EntryTypes'
        <4>1. t \notin sleep_cv_ /\ sleep_cv_' = sleep_cv_
          BY <1>6 DEF RegisterFinished, waitqueues, Types, EntryTypes, In_
        <4>. QED BY <1>6, <4>1, EntryKeepsTypes DEF RegisterFinished
      <3>2. StateTypes'
        BY <1>6 DEF RegisterFinished, registry, Types, StateTypes
      <3>3. CallTypes'
        BY <1>6, FewerWait DEF RegisterFinished, waitqueues, Types
      <3>. QED BY <3>1, <3>2, <3>3 DEF Types
    <2>4. StateFollowsEntry'
      BY <1>6, <2>1, <2>2 DEF RegisterFinished, StateFollowsEntry
    <2>5. OneStarter'
      BY <1>6, <1>0, <2>1, <2>2, OthersStart DEF RegisterFinished
    <2>. QED BY <2>3, <2>4, <2>5
  <1>7. CASE OnBeforeJoin(t)
    <2>1. \A s \in AllThreads : entry'[s] = IF s = t THEN "over" ELSE entry[s]
      BY <1>7, ThreadEnters DEF OnBeforeJoin
    <2>2. \A s \in AllThreads : state_'[s] = IF s = t /\ state_[t] = "JOINING" THEN "JOINED" ELSE state_[s]
      BY <1>7, StateMoves DEF OnBeforeJoin
    <2>3. Types'
      <3>1. EntryTypes'
        <4>1. t \notin sleep_cv_ /\ sleep_cv_' = sleep_cv_
          BY <1>7 DEF OnBeforeJoin, waitqueues, Types, EntryTypes, In_
        <4>. QED BY <1>7, <4>1, EntryKeepsTypes DEF OnBeforeJoin
      <3>2. StateTypes'
        BY <1>7, StateKeepsTypes DEF OnBeforeJoin, registry, Types, StateTypes
      <3>3. CallTypes'
        BY <1>7, FewerWait DEF OnBeforeJoin, waitqueues, Types
      <3>. QED BY <3>1, <3>2, <3>3 DEF Types
    <2>4. StateFollowsEntry'
      BY <1>7, <2>1, <2>2 DEF OnBeforeJoin, StateFollowsEntry
    <2>5. OneStarter'
      BY <1>7, <1>0, <2>1, <2>2, OthersStart DEF OnBeforeJoin
    <2>. QED BY <2>3, <2>4, <2>5
  <1>8. CASE SleepIsOver(t)
    <2>1. Types'
      BY <1>8 DEF SleepIsOver, registry, Types, StateTypes, EntryTypes, CallTypes, In_
    <2>2. StateFollowsEntry'
      BY <1>8 DEF SleepIsOver, StateFollowsEntry
    <2>3. OneStarter'
      BY <1>8, <1>0, OthersStart DEF SleepIsOver
    <2>. QED BY <2>1, <2>2, <2>3
  <1>9. CASE SleepThread(t)
    <2>1. \A s \in AllThreads : entry'[s] = IF s = t THEN "sleep" ELSE entry[s]
      BY <1>9, ThreadEnters DEF SleepThread
    <2>2. \A s \in AllThreads : state_'[s] = IF s = t THEN "SLEEPING" ELSE state_[s]
      BY <1>9 DEF SleepThread, Types, StateTypes
    <2>3. Types'
      <3>1. EntryTypes'
        BY <1>9, <2>1 DEF SleepThread, Enters, Types, EntryTypes, In_
      <3>2. StateTypes'
        BY <1>9 DEF SleepThread, registry, Types, StateTypes
      <3>3. CallTypes'
        BY <1>9, FewerWait DEF SleepThread, Types
      <3>. QED BY <3>1, <3>2, <3>3 DEF Types
    <2>4. StateFollowsEntry'
      BY <1>9, <2>1, <2>2 DEF SleepThread, StateFollowsEntry
    <2>5. OneStarter'
      BY <1>9, <1>0, <2>1, <2>2, OthersStart DEF SleepThread
    <2>. QED BY <2>3, <2>4, <2>5
  <1>. QED BY <1>1, <1>2, <1>3, <1>4, <1>5, <1>6, <1>7, <1>8, <1>9 DEF Entry

LEMMA SameStarters ==
    ASSUME OneStarter, entry' = entry, state_' = state_,
           \A d \in Callers, s \in AllThreads, m \in {"initialize", "create"} : In(d, m, s)' => In(d, m, s)
    PROVE  OneStarter'
  BY DEF OneStarter, Starts

\* The other calls of clients.
Client(c, t) ==
    \/ c \in Callers /\ t \in AllThreads /\ Join(c, t)
    \/ c \in Callers /\ JoinAll(c)
    \/ Detach(t) \/ Wake(t) \/ WakesByItself(c)

LEMMA ClientKeepsStages ==
    ASSUME Stages, NEW c, NEW t, Client(c, t)
    PROVE  Stages'
  <1>. USE DEF Stages
  <1>1. CASE c \in Callers /\ t \in AllThreads /\ Join(c, t)
    <2>1. PICK v \in {Ready, [in |-> "join", of |-> {t}]} :
              /\ call' = [call EXCEPT ![c] = v]
              /\ state_cv_' = IF v = Ready THEN state_cv_ ELSE state_cv_ \cup {c}
      BY <1>1 DEF Join, CallReturns, CallsOn, Ready
    <2>2. \A d \in Callers : call'[d] = IF d = c THEN v ELSE call[d]
      BY <1>1, <2>1, CallerMoves
    <2>3. c \notin dying_cv_ /\ (v = Ready => c \notin state_cv_)
      <3>1. call[c].in \in {"none", "join"}
        BY <1>1 DEF Join, Ready, In
      <3>2. c \notin dying_cv_
        BY <3>1 DEF Types, CallTypes
      <3>3. c \notin state_cv_
        BY <1>1 DEF Join, Ready, In, Types, CallTypes
      <3>. QED BY <3>2, <3>3
    <2>4. Types'
      <3>1. CallTypes'
        <4>1. call' \in [Callers -> [in : {"none", "initialize", "create", "join", "join_all"},
                                     of : SUBSET AllThreads]]
          BY <1>1, <2>1 DEF Types, CallTypes, Ready
        <4>2. state_cv_' \subseteq {d \in Callers : call'[d].in = "join"}
          BY <1>1, <2>1, <2>2, <2>3 DEF Types, CallTypes
        <4>3. dying_cv_' \subseteq {d \in Callers : call'[d].in = "join_all"}
          BY <1>1, <2>2, <2>3 DEF Join, Types, CallTypes
        <4>. QED BY <4>1, <4>2, <4>3 DEF CallTypes
      <3>2. StateTypes' /\ EntryTypes'
        BY <1>1 DEF Join, registry, Types, StateTypes, EntryTypes, In_
      <3>. QED BY <3>1, <3>2 DEF Types
    <2>5. StateFollowsEntry'
      BY <1>1 DEF Join, StateFollowsEntry
    <2>6. OneStarter'
      <3>1. \A d \in Callers, s \in AllThreads, m \in {"initialize", "create"} : In(d, m, s)' => In(d, m, s)
        BY <2>2 DEF In, Ready
      <3>. QED BY <1>1, <3>1, SameStarters DEF Join
    <2>. QED BY <2>4, <2>5, <2>6
  <1>2. CASE c \in Callers /\ JoinAll(c)
    <2>1. PICK v \in {Ready, [in |-> "join_all", of |-> {}]} :
              /\ call' = [call EXCEPT ![c] = v]
              /\ dying_cv_' = IF v = Ready THEN dying_cv_ ELSE dying_cv_ \cup {c}
      BY <1>2 DEF JoinAll, CallReturns, Ready
    <2>2. \A d \in Callers : call'[d] = IF d = c THEN v ELSE call[d]
      BY <1>2, <2>1, CallerMoves
    <2>3. c \notin state_cv_ /\ c \notin dying_cv_
      BY <1>2 DEF JoinAll, Ready, Types, CallTypes
    <2>4. Types'
      <3>1. CallTypes'
        <4>1. call' \in [Callers -> [in : {"none", "initialize", "create", "join", "join_all"},
                                     of : SUBSET AllThreads]]
          BY <1>2, <2>1 DEF Types, CallTypes, Ready
        <4>2. state_cv_' \subseteq {d \in Callers : call'[d].in = "join"}
          BY <1>2, <2>2, <2>3 DEF JoinAll, Types, CallTypes
        <4>3. dying_cv_' \subseteq {d \in Callers : call'[d].in = "join_all"}
          BY <1>2, <2>1, <2>2, <2>3 DEF Types, CallTypes
        <4>. QED BY <4>1, <4>2, <4>3 DEF CallTypes
      <3>2. StateTypes' /\ EntryTypes'
        BY <1>2 DEF JoinAll, Types, StateTypes, EntryTypes, In_
      <3>. QED BY <3>1, <3>2 DEF Types
    <2>5. StateFollowsEntry'
      BY <1>2 DEF JoinAll, StateFollowsEntry
    <2>6. OneStarter'
      <3>1. \A d \in Callers, s \in AllThreads, m \in {"initialize", "create"} : In(d, m, s)' => In(d, m, s)
        BY <2>2 DEF In, Ready
      <3>. QED BY <1>2, <3>1, SameStarters DEF JoinAll
    <2>. QED BY <2>4, <2>5, <2>6
  <1>3. CASE Detach(t) \/ Wake(t) \/ WakesByItself(c)
    <2>1. /\ call' = call /\ entry' = entry /\ state_' = state_ /\ dying_' = dying_
          /\ state_cv_' \subseteq state_cv_ /\ dying_cv_' \subseteq dying_cv_
          /\ sleep_cv_' \subseteq sleep_cv_
      BY <1>3 DEF Detach, Wake, WakesByItself, registry
    <2>2. detached_' \in [AllThreads -> BOOLEAN]
      BY <1>3 DEF Detach, Wake, WakesByItself, Types, StateTypes
    <2>3. CallTypes'
      BY <2>1, FewerWait DEF Types
    <2>4. StateTypes' /\ EntryTypes'
      BY <2>1, <2>2 DEF Types, StateTypes, EntryTypes, In_
    <2>5. OneStarter' /\ StateFollowsEntry'
      BY <2>1, SameStarters DEF StateFollowsEntry, In
    <2>. QED BY <2>3, <2>4, <2>5 DEF Types
  <1>. QED BY <1>1, <1>2, <1>3 DEF Client

LEMMA StutterKeepsInv == Inv /\ UNCHANGED thrVars => Inv'
  BY DEF Inv, Stages, Types, StateTypes, EntryTypes, CallTypes, StateFollowsEntry, OneStarter, Starts, Counts,
         Awaited, Live, Finished, Coming, In, In_, thrVars, registry, waitqueues

-----------------------------------------------------------------------------
(* Counts: a step moves at most one thread from one set to the next, and   *)
(* the counters with it.                                                   *)

LEMMA SetsAreSubsets ==
    Awaited \in SUBSET AllThreads /\ Live \in SUBSET AllThreads /\ Finished \in SUBSET AllThreads
  BY DEF Awaited, Live, Finished, Coming, In_

LEMMA SameSets ==
    ASSUME Counts, Awaited' = Awaited, Live' = Live, Finished' = Finished,
           pending_count_' = pending_count_, running_count_' = running_count_,
           finished_count_' = finished_count_, threads_' = threads_
    PROVE  Counts'
  BY DEF Counts

LEMMA StartKeepsCounts ==
    ASSUME ThreadsAssumption, Inv, NEW c \in Callers, NEW t \in AllThreads, StartThread(c, t)
    PROVE  Counts'
  <1>. USE DEF Inv, Stages
  <1>1. CASE RegisterPending(c, t)
    <2>1. \A d \in Callers : call'[d] = IF d = c THEN [in |-> "initialize", of |-> {t}] ELSE call[d]
      BY <1>1, CallerMoves DEF RegisterPending, CallsOn
    <2>2. t \notin Awaited
      BY <1>1 DEF RegisterPending, OneStarter, StateFollowsEntry, Awaited, Coming, In_
    <2>3. Coming' = Coming \cup {t}
      BY <1>1, <2>1 DEF RegisterPending, Coming, In, Ready
    <2>4. Awaited' = Awaited \cup {t} /\ Live' = Live /\ Finished' = Finished
      BY <1>1, <2>3 DEF RegisterPending, Awaited, Live, Finished, In_
    <2>5. Cardinality(Awaited') = Cardinality(Awaited) + 1
      BY <2>2, <2>4, SetsAreSubsets, ThreadComes
    <2>. QED BY <1>1, <2>4, <2>5 DEF RegisterPending, Counts
  <1>2. ASSUME NEW detached \in BOOLEAN, Initialize(c, t, detached) PROVE Counts'
    <2>1. \A d \in Callers : call'[d] = IF d = c THEN [in |-> "create", of |-> {t}] ELSE call[d]
      BY <1>2, CallerMoves DEF Initialize, CallsOn
    <2>2. Coming' = Coming
      BY <1>2, <2>1 DEF Initialize, Coming, In
    <2>3. Awaited' = Awaited /\ Live' = Live /\ Finished' = Finished
      BY <1>2, <2>2 DEF Initialize, Awaited, Live, Finished, In_
    <2>. QED BY <1>2, <2>3, SameSets DEF Initialize, registry
  <1>3. CASE Create(c, t)
    <2>1. \A d \in Callers : call'[d] = IF d = c THEN Ready ELSE call[d]
      BY <1>3, CallerMoves DEF Create, CallReturns
    <2>2. \A s \in AllThreads : entry'[s] = IF s = t THEN "on_before_start" ELSE entry[s]
      BY <1>3, ThreadEnters DEF Create
    <2>3. entry[t] = "none" /\ t \in Coming
      BY <1>3 DEF Create, OneStarter, Coming
    <2>4. \A d \in Callers : d # c => ~Starts(d, t)
      BY <1>3 DEF Create, OneStarter, Starts
    <2>5. Coming' = Coming \ {t}
      <3>1. \A d \in Callers, s \in AllThreads : Starts(d, s)' <=> d # c /\ Starts(d, s)
        BY <2>1 DEF Starts, In, Ready
      <3>2. \A s \in AllThreads : Starts(c, s) => s = t
        BY <1>3 DEF Create, Starts, In
      <3>. QED BY <2>4, <3>1, <3>2 DEF Coming, Starts
    <2>6. /\ In_({"on_before_start", "register_started"})'
               = In_({"on_before_start", "register_started"}) \cup {t}
          /\ Live' = Live /\ Finished' = Finished
      BY <2>2, <2>3 DEF In_, Live, Finished
    <2>7. Awaited' = Awaited
      BY <2>3, <2>5, <2>6 DEF Awaited
    <2>. QED BY <1>3, <2>6, <2>7, SameSets DEF Create, registry
  <1>. QED BY <1>1, <1>2, <1>3 DEF StartThread

LEMMA EntryKeepsCounts ==
    ASSUME ThreadsAssumption, Inv, NEW t \in AllThreads, Entry(t) \/ SleepThread(t)
    PROVE  Counts'
  <1>. USE DEF Inv, Stages
  <1>1. Coming' = Coming
    BY DEF Entry, SleepThread, OnBeforeStart, RegisterStarted, RunBegins, SleepIsOver, SleepReturns, RunEnds,
           RegisterFinished, OnBeforeJoin, Coming, In
  <1>2. CASE RegisterStarted(t)
    <2>1. \A s \in AllThreads : entry'[s] = IF s = t THEN "run" ELSE entry[s]
      BY <1>2, ThreadEnters DEF RegisterStarted
    <2>2. t \in Awaited /\ t \notin Coming /\ t \notin Live
      BY <1>2 DEF RegisterStarted, Awaited, Live, In_, OneStarter, Coming
    <2>3. Awaited' = Awaited \ {t} /\ Live' = Live \cup {t} /\ Finished' = Finished
      BY <1>1, <1>2, <2>1, <2>2 DEF RegisterStarted, Awaited, Live, Finished, In_
    <2>4. Cardinality(Awaited') = Cardinality(Awaited) - 1
      BY <2>2, <2>3, SetsAreSubsets, ThreadGoes
    <2>5. Cardinality(Live') = Cardinality(Live) + 1
      BY <2>2, <2>3, SetsAreSubsets, ThreadComes
    <2>. QED BY <1>2, <2>3, <2>4, <2>5 DEF RegisterStarted, Counts
  <1>3. CASE RegisterFinished(t)
    <2>1. \A s \in AllThreads : entry'[s] = IF s = t THEN "on_before_join" ELSE entry[s]
      BY <1>3, ThreadEnters DEF RegisterFinished
    <2>2. t \in Live /\ t \notin Finished
      BY <1>3 DEF RegisterFinished, Live, Finished, In_
    <2>3. Awaited' = Awaited /\ Live' = Live \ {t} /\ Finished' = Finished \cup {t}
      BY <1>1, <1>3, <2>1 DEF RegisterFinished, Awaited, Live, Finished, In_
    <2>4. Cardinality(Live') = Cardinality(Live) - 1
      BY <2>2, <2>3, SetsAreSubsets, ThreadGoes
    <2>5. Cardinality(Finished') = Cardinality(Finished) + 1
      BY <2>2, <2>3, SetsAreSubsets, ThreadComes
    <2>. QED BY <1>3, <2>3, <2>4, <2>5 DEF RegisterFinished, Counts
  <1>4. CASE OnBeforeStart(t)
    <2>1. \A s \in AllThreads : entry'[s] = IF s = t THEN "register_started" ELSE entry[s]
      BY <1>4, ThreadEnters DEF OnBeforeStart
    <2>2. Awaited' = Awaited /\ Live' = Live /\ Finished' = Finished
      BY <1>1, <1>4, <2>1 DEF OnBeforeStart, Awaited, Live, Finished, In_
    <2>. QED BY <1>4, <2>2, SameSets DEF OnBeforeStart, registry
  <1>5. CASE RunBegins(t) \/ SleepReturns(t) \/ RunEnds(t) \/ SleepThread(t)
    <2>1. PICK x \in {"execute", "register_finished", "sleep"} : Enters(t, x)
      BY <1>5 DEF RunBegins, SleepReturns, RunEnds, SleepThread
    <2>2. \A s \in AllThreads : entry'[s] = IF s = t THEN x ELSE entry[s]
      BY <2>1, ThreadEnters
    <2>3. entry[t] \in {"run", "sleep", "execute"}
      BY <1>5 DEF RunBegins, SleepReturns, RunEnds, SleepThread
    <2>4. Awaited' = Awaited /\ Live' = Live /\ Finished' = Finished
      BY <1>1, <2>2, <2>3 DEF Awaited, Live, Finished, In_
    <2>. QED BY <1>5, <2>4, SameSets DEF RunBegins, SleepReturns, RunEnds, SleepThread, registry
  <1>6. CASE OnBeforeJoin(t)
    <2>1. \A s \in AllThreads : entry'[s] = IF s = t THEN "over" ELSE entry[s]
      BY <1>6, ThreadEnters DEF OnBeforeJoin
    <2>2. Awaited' = Awaited /\ Live' = Live /\ Finished' = Finished
      BY <1>1, <1>6, <2>1 DEF OnBeforeJoin, Awaited, Live, Finished, In_
    <2>. QED BY <1>6, <2>2, SameSets DEF OnBeforeJoin, registry
  <1>7. CASE SleepIsOver(t)
    <2>1. Awaited' = Awaited /\ Live' = Live /\ Finished' = Finished
      BY <1>1, <1>7 DEF SleepIsOver, Awaited, Live, Finished, In_
    <2>. QED BY <1>7, <2>1, SameSets DEF SleepIsOver, registry
  <1>. QED BY <1>2, <1>3, <1>4, <1>5, <1>6, <1>7 DEF Entry

LEMMA ClientKeepsCounts ==
    ASSUME Inv, NEW c, NEW t, Client(c, t)
    PROVE  Counts'
  <1>. USE DEF Inv, Stages
  <1>1. /\ entry' = entry /\ pending_count_' = pending_count_ /\ running_count_' = running_count_
        /\ finished_count_' = finished_count_ /\ threads_' = threads_
    BY DEF Client, Join, JoinAll, Detach, Wake, WakesByItself, registry
  <1>2. \A d \in Callers, s \in AllThreads : Starts(d, s)' <=> Starts(d, s)
    <2>1. CASE Detach(t) \/ Wake(t) \/ WakesByItself(c)
      BY <2>1 DEF Detach, Wake, WakesByItself, Starts, In
    <2>2. CASE c \in Callers /\ t \in AllThreads /\ Join(c, t)
      <3>1. PICK v \in {Ready, [in |-> "join", of |-> {t}]} : call' = [call EXCEPT ![c] = v]
        BY <2>2 DEF Join, CallReturns, CallsOn
      <3>2. \A d \in Callers : call'[d] = IF d = c THEN v ELSE call[d]
        BY <2>2, <3>1, CallerMoves
      <3>. QED BY <2>2, <3>2 DEF Join, Starts, In, Ready
    <2>3. CASE c \in Callers /\ JoinAll(c)
      <3>1. PICK v \in {Ready, [in |-> "join_all", of |-> {}]} : call' = [call EXCEPT ![c] = v]
        BY <2>3 DEF JoinAll, CallReturns
      <3>2. \A d \in Callers : call'[d] = IF d = c THEN v ELSE call[d]
        BY <2>3, <3>1, CallerMoves
      <3>. QED BY <2>3, <3>2 DEF JoinAll, Starts, In, Ready
    <2>. QED BY <2>1, <2>2, <2>3 DEF Client
  <1>3. Coming' = Coming
    BY <1>2 DEF Coming, Starts
  <1>4. Awaited' = Awaited /\ Live' = Live /\ Finished' = Finished
    BY <1>1, <1>3 DEF Awaited, Live, Finished, In_
  <1>. QED BY <1>1, <1>4, SameSets

-----------------------------------------------------------------------------
LEMMA NextKeepsInv ==
    ASSUME ThreadsAssumption, Inv, [RegistryNext]_thrVars
    PROVE  Inv'
  <1>1. CASE \E t \in AllThreads : Entry(t) \/ SleepThread(t)
    BY <1>1, EntryKeepsStages, EntryKeepsCounts DEF Inv
  <1>2. CASE \E c \in Callers, t \in AllThreads : StartThread(c, t)
    BY <1>2, StartKeepsStages, StartKeepsCounts DEF Inv
  <1>3. CASE \E c, t : Client(c, t)
    BY <1>3, ClientKeepsStages, ClientKeepsCounts DEF Inv
  <1>4. CASE UNCHANGED thrVars
    BY <1>4, StutterKeepsInv
  <1>. QED BY <1>1, <1>2, <1>3, <1>4 DEF RegistryNext, Client

\* The stages of the threads, and the counts that follow them, at every moment.
THEOREM Invariance == ASSUME ThreadsAssumption PROVE RegistrySpec => []Inv
  BY InitInv, NextKeepsInv, PTL DEF RegistrySpec

\* Every count of the registry is a number, a caller sleeps only in the join()
\* or join_all() it has called, and a thread only in its own sleep().
THEOREM TypeCorrect == ASSUME ThreadsAssumption PROVE RegistrySpec => []RegistryTypes
  <1>1. Inv => RegistryTypes
    <2>. SUFFICES ASSUME Inv PROVE RegistryTypes
      OBVIOUS
    <2>1. pending_count_ \in Nat /\ running_count_ \in Nat /\ finished_count_ \in Nat
      BY SetsAreSubsets, SetsAreFinite DEF Inv, Counts
    <2>2. threads_ \subseteq AllThreads
      BY SetsAreSubsets DEF Inv, Counts
    <2>. QED BY <2>1, <2>2 DEF Inv, Stages, Types, StateTypes, EntryTypes, CallTypes, RegistryTypes
  <1>. QED BY <1>1, Invariance, PTL

\* A thread whose start() has told the registry is in exactly one of its counts
\* at every moment (all_threads_data.hpp:96-138).
THEOREM CountsAreRight == ASSUME ThreadsAssumption PROVE RegistrySpec => []Counted
  <1>1. Inv => Counted
    BY DEF Inv, Counts, Awaited, Live, Finished, Counted
  <1>. QED BY <1>1, Invariance, PTL

LEMMA NoneLeftMeansNone ==
    ASSUME ThreadsAssumption, Inv, NoneLeft
    PROVE  Coming = {} /\ In_({"none", "on_before_join", "over"}) = AllThreads
  <1>1. Awaited = {} /\ Live = {}
    <2>1. Cardinality(Awaited) = 0 /\ Cardinality(Live) = 0
      BY DEF Inv, Counts, NoneLeft
    <2>. QED BY <2>1, SetsAreSubsets, SetsAreFinite, FS_EmptySet
  <1>. QED BY <1>1 DEF Awaited, Live, In_, Inv, Stages, Types, EntryTypes

\* No call is changed but by the caller's own step.
LEMMA WhoReturns ==
    ASSUME Inv, RegistryNext, NEW c \in Callers, call[c].in \in {"join", "join_all"}, call'[c] = Ready
    PROVE  \/ \E t \in AllThreads : JoinEnds(t) /\ In(c, "join", t)
           \/ NoneLeft /\ call[c].in = "join_all"
  <1>1. ASSUME NEW t \in AllThreads, Entry(t) \/ SleepThread(t) \/ Detach(t) \/ Wake(t) PROVE call' = call
    BY <1>1 DEF Entry, SleepThread, Detach, Wake, OnBeforeStart, RegisterStarted, RunBegins, SleepIsOver, SleepReturns,
                RunEnds, RegisterFinished, OnBeforeJoin
  <1>2. call' # call
    BY DEF Ready
  <1>3. PICK d \in Callers : JoinAll(d) \/ WakesByItself(d) \/ \E t \in AllThreads : StartThread(d, t) \/ Join(d, t)
    BY <1>1, <1>2 DEF RegistryNext
  <1>4. d = c
    <2>. SUFFICES ASSUME d # c PROVE call'[c] = call[c]
      BY DEF Ready
    <2>. QED BY <1>3 DEF JoinAll, WakesByItself, StartThread, RegisterPending, Initialize, Create, Join, CallsOn, CallReturns,
                         Inv, Stages, Types, CallTypes
  <1>5. CASE JoinAll(c)
    BY <1>5 DEF JoinAll, Ready, Inv, Stages, Types, CallTypes
  <1>6. ASSUME NEW t \in AllThreads, Join(c, t) PROVE JoinEnds(t) /\ In(c, "join", t)
    BY <1>6 DEF Join, CallsOn, Ready, Inv, Stages, Types, CallTypes
  <1>7. ASSUME NEW t \in AllThreads, StartThread(c, t) PROVE FALSE
    BY <1>7 DEF StartThread, RegisterPending, Initialize, Create, In, Ready
  <1>. QED BY <1>2, <1>3, <1>4, <1>5, <1>6, <1>7 DEF WakesByItself

\* join() returns when the thread has left its runnable for good and has
\* unregistered, unless it is detached; join_all() when no thread executes
\* anything and none will (thread_info.hpp:277-296, all_threads_data.hpp:77-94).
THEOREM JoinsWait == ASSUME ThreadsAssumption PROVE RegistrySpec => JoinsWaitForTheEnd
  <1>1. Inv /\ [RegistryNext]_thrVars => [ReturnsOnlyAfterTheEnd]_thrVars
    <2>. SUFFICES ASSUME Inv, RegistryNext PROVE ReturnsOnlyAfterTheEnd
      OBVIOUS
    <2>1. ASSUME NEW c \in Callers, NEW t \in AllThreads, In(c, "join", t), call'[c] = Ready, ~detached_[t]
          PROVE  entry[t] = "over"
      <3>1. \A s \in AllThreads : In(c, "join", s) => s = t
        BY <2>1 DEF In
      <3>2. JoinEnds(t)
        <4>1. call[c].in = "join"
          BY <2>1 DEF In
        <4>2. \/ \E s \in AllThreads : JoinEnds(s) /\ In(c, "join", s)
              \/ NoneLeft /\ call[c].in = "join_all"
          BY <2>1, <4>1, WhoReturns
        <4>. QED BY <3>1, <4>1, <4>2
      <3>. QED BY <2>1, <3>2 DEF JoinEnds, Inv, Stages, StateFollowsEntry, Types, EntryTypes
    <2>2. ASSUME NEW c \in Callers, call[c].in = "join_all", call'[c] = Ready
          PROVE  Coming = {} /\ In_({"none", "on_before_join", "over"}) = AllThreads
      <3>1. NoneLeft
        <4>1. \/ \E s \in AllThreads : JoinEnds(s) /\ In(c, "join", s)
              \/ NoneLeft /\ call[c].in = "join_all"
          BY <2>2, WhoReturns
        <4>2. \A s \in AllThreads : ~In(c, "join", s)
          BY <2>2 DEF In
        <4>. QED BY <4>1, <4>2
      <3>. QED BY <3>1, NoneLeftMeansNone
    <2>. QED BY <2>1, <2>2 DEF ReturnsOnlyAfterTheEnd
  <1>. QED BY <1>1, Invariance, PTL DEF RegistrySpec, JoinsWaitForTheEnd

=============================================================================
