-------------------------- MODULE EvaluatorProofs ---------------------------
(***************************************************************************)
(* Proofs about module Evaluator, for any number of programs, effects,     *)
(* workers and frames.  The inductive invariant says where the effect      *)
(* thread is in the tree of the argument lists (Walk), what the locks      *)
(* protect (Locking), how the stamps of an effect that stands at one place *)
(* tell how far its node has come (Stamps), and that only images of this   *)
(* frame are fetched (Fetched).                                            *)
(***************************************************************************)
EXTENDS Evaluator, FiniteSetTheorems, TLAPS

Working == {"test_image", "test_tick", "stamp", "lock", "process", "unlock", "store"}
Stages  == {"idle", "args", "queued", "done"} \cup Working

Items(n) == prog.evals[n]
ImgArgs(n) == prog.args[n]

Types ==
    /\ prog \in Programs /\ is_running_ \in BOOLEAN
    /\ phase \in {"top", "eval", "show", "showing", "over"}
    /\ cur \in Nodes
    /\ visited \in [Nodes -> Nat]
    /\ at \in [Nodes -> Stages]
    /\ queue \in Seq(Nodes)
    /\ ticker \in 0..MaxTicker
    /\ tick_ \in [Effects -> 0..ticker] /\ image_ \in [Effects -> 0..ticker]
    /\ imgs \in [Nodes -> Seq(Nat)]
    /\ held \subseteq Nodes \X Nat
    /\ writer \in [Effects -> Nodes \cup {NoOne, Screen}]
    /\ writer_waiting_ \subseteq Effects
    /\ calls \in [Effects -> 0..2]

\* The effect thread has left node m behind: it is done, or in the pool.
Passed(m) == at[m] = "done" \/ (Job(m) /\ at[m] \notin {"idle", "args"})

\* How the effect thread walks through the tree.
Begun ==
    \A n \in Nodes :
        /\ visited[n] <= Len(Items(n))
        /\ at[n] = "idle" => visited[n] = 0
        /\ \A i \in DOMAIN Items(n) : at[Items(n)[i]] = "idle" <=> i > visited[n]

Ready ==
    \A n \in Nodes :
        at[n] \notin {"idle", "args"} =>
            visited[n] = Len(Items(n)) /\ \A i \in DOMAIN Items(n) : at[Items(n)[i]] = "done"

Behind ==
    /\ \A n \in Nodes : \A i \in DOMAIN Items(n) : i < visited[n] => Passed(Items(n)[i])
    /\ phase = "eval" /\ at[cur] = "args" /\ visited[cur] > 0 => Passed(Items(cur)[visited[cur]])

OnPath(n) == n = cur \/ at[n] = "args"

Path ==
    phase = "eval" =>
        \A n \in Nodes : OnPath(n) /\ n # prog.root =>
            /\ at[Parent(n)] = "args" /\ visited[Parent(n)] \in DOMAIN Items(Parent(n))
            /\ n = Items(Parent(n))[visited[Parent(n)]]

Here ==
    /\ phase = "eval" => at[cur] = "args" \/ (~Job(cur) /\ at[cur] \notin {"idle", "queued"})
    /\ \A n \in Nodes : at[n] = "args" => phase = "eval"
    /\ \A n \in Nodes : at[n] = "queued" => Job(n)
    /\ \A n \in Nodes : at[n] \in Working /\ ~Job(n) => phase = "eval" /\ n = cur

Rest ==
    /\ phase # "eval" => cur = prog.root /\ \A n \in Nodes : at[n] \in {"idle", "done"}
    /\ phase \in {"show", "showing"} => \A n \in Nodes : at[n] = "done"
    /\ ticker = 0 => phase \in {"top", "over"} /\ \A n \in Nodes : at[n] = "idle"

Queue ==
    /\ \A i \in DOMAIN queue : at[queue[i]] = "queued"
    /\ \A i, j \in DOMAIN queue : queue[i] = queue[j] => i = j

Walk == Begun /\ Ready /\ Behind /\ Path /\ Here /\ Rest /\ Queue

\* What the locks protect.
Prefix(n, k) == {<<n, i>> : i \in 1..k}

Lockers ==
    \A n \in Nodes :
        /\ imgs[n] # <<>> => at[n] \in {"lock", "process", "unlock"}
        /\ Len(imgs[n]) <= Len(ImgArgs(n))
        /\ \E k \in Nat :
              /\ Held(n) = Prefix(n, k) /\ k <= Len(imgs[n]) /\ Len(imgs[n]) <= k + 1
              /\ at[n] # "lock" => k = Len(imgs[n])
        /\ at[n] = "process" => Len(imgs[n]) = Len(ImgArgs(n))

Writers ==
    \A f \in Effects :
        /\ writer[f] \in Nodes => at[writer[f]] = "process" /\ Fx(writer[f]) = f
        /\ writer[f] = Screen => phase = "showing" /\ f = Fx(prog.root)

Waiting == \A f \in writer_waiting_ : WriteBlocked(f)

Locking == Lockers /\ Writers /\ Waiting

\* The effect of node n stands at no other place.
Alone(n) == \A m \in Nodes : Fx(m) = Fx(n) => m = n

\* calls, tick_ and image_ of an effect tell how far its only node has come.
Stamped(n) ==
    LET c == calls[Fx(n)]
        t == tick_[Fx(n)]
        i == image_[Fx(n)]
    IN  /\ at[n] \in {"idle", "args", "queued", "test_image", "stamp"} =>
              c = 0 /\ (ticker > 0 => t < ticker)
        /\ at[n] \in {"lock", "process"} => c = 0 /\ t = ticker
        /\ at[n] = "unlock" => c = 1 /\ t = ticker
        /\ at[n] = "test_tick" => i # 0 /\ ((c = 0 /\ t < ticker) \/ (c = 1 /\ t = ticker /\ i = ticker))
        /\ at[n] \in {"store", "done"} =>
              i # 0 /\ ((c = 1 /\ i = ticker) \/ (c = 0 /\ Fx(n) \in Static))

Stamps == \A n \in Nodes : Alone(n) => Stamped(n)

Fetched ==
    \A n \in Nodes : at[n] \in {"lock", "process"} =>
        \A i \in DOMAIN imgs[n] : Alone(ImgArgs(n)[i]) => Current(Arg(n, i), imgs[n][i])

IInv == Types /\ Walk /\ Locking /\ Stamps /\ Fetched

-----------------------------------------------------------------------------
(* The tree of the argument lists.                                         *)

\* What EvaluatorAssumption says of the program that runs.
LEMMA ProgramFacts ==
    ASSUME prog \in Programs
    PROVE  /\ IsProgram(prog) /\ IsFiniteSet(Nodes)
           /\ prog.root \in Nodes /\ ~Job(prog.root)
           /\ NoOne \notin Nodes /\ Screen \notin Nodes /\ NoOne # Screen
           /\ \A n \in Nodes : Fx(n) \in Effects /\ Items(n) \in Seq(Nodes) /\ ImgArgs(n) \in Seq(Nodes)
BY EvaluatorAssumption DEF IsProgram, IsTree, Nodes, Fx, Items, ImgArgs, Job

\* A node stands at one place at most, and the root at none.
LEMMA OnePlace ==
    ASSUME prog \in Programs, NEW a \in Nodes, NEW i \in DOMAIN Items(a)
    PROVE  /\ Items(a)[i] \in Nodes /\ Items(a)[i] # prog.root
           /\ \A b \in Nodes : \A j \in DOMAIN Items(b) : Items(a)[i] = Items(b)[j] => a = b /\ i = j
<1>1. IsProgram(prog) /\ Items(a) \in Seq(Nodes)  BY ProgramFacts
<1>2. Items(a)[i] \in Nodes  BY <1>1
<1>3. QED  BY <1>1, <1>2 DEF IsProgram, IsTree, Nodes, Items

LEMMA ItemFacts ==
    ASSUME prog \in Programs
    PROVE  \A m \in Nodes : /\ Items(m) \in Seq(Nodes)
                            /\ \A i \in DOMAIN Items(m) : /\ i \in Nat /\ i > 0 /\ i <= Len(Items(m))
                                                            /\ Items(m)[i] \in Nodes /\ Items(m)[i] # prog.root
<1>1. SUFFICES ASSUME NEW m \in Nodes, NEW i \in DOMAIN Items(m)
               PROVE  i \in Nat /\ i > 0 /\ i <= Len(Items(m))
  BY OnePlace, ProgramFacts
<1>2. Items(m) \in Seq(Nodes)  BY ProgramFacts
<1>3. QED  BY <1>2

\* A set of nodes that has with a node its items has, with a node, all that
\* is evaluated for its sake; and all nodes, if it has the root.
LEMMA Closed ==
    ASSUME prog \in Programs, NEW S \in SUBSET Nodes,
           \A x \in S : \A i \in DOMAIN Items(x) : Items(x)[i] \in S
    PROVE  /\ \A n \in S : Within(prog, n) \subseteq S
           /\ prog.root \in S => S = Nodes
<1>1. \A x \in S, y \in DOMAIN prog.fx : Item(prog, x, y) => y \in S
  BY DEF Item, Items
<1>2. S \in SUBSET (DOMAIN prog.fx)
  BY DEF Nodes
<1>3. ASSUME NEW n \in S PROVE Within(prog, n) \subseteq S
  BY <1>1, <1>2, <1>3 DEF Within
<1>4. prog.root \in S => S = Nodes
  BY <1>3, ProgramFacts DEF IsProgram, IsTree, Nodes
<1>5. QED  BY <1>3, <1>4

\* Every node but the root stands in its parent's list,
LEMMA HasParent ==
    ASSUME prog \in Programs, NEW n \in Nodes, n # prog.root
    PROVE  Parent(n) \in Nodes /\ \E i \in DOMAIN Items(Parent(n)) : Items(Parent(n))[i] = n
<1> DEFINE S == {m \in Nodes : m = prog.root \/ \E p \in Nodes : \E i \in DOMAIN Items(p) : Items(p)[i] = m}
<1>1. S \in SUBSET Nodes  OBVIOUS
<1>2. \A x \in S : \A i \in DOMAIN Items(x) : Items(x)[i] \in S
  BY OnePlace
<1>3. prog.root \in S  BY ProgramFacts
<1>4. S = Nodes
  <2> HIDE DEF S
  <2> QED  BY <1>1, <1>2, <1>3, Closed
<1>5. \E p \in Nodes : \E i \in DOMAIN prog.evals[p] : prog.evals[p][i] = n
  BY <1>4 DEF Items
<1>6. QED  BY <1>5 DEF Parent, Items

\* in no other one, and not in its own.
LEMMA ParentOf ==
    ASSUME prog \in Programs, NEW a \in Nodes, NEW i \in DOMAIN Items(a)
    PROVE  Parent(Items(a)[i]) = a /\ Items(a)[i] # a
<1>1. Parent(Items(a)[i]) = a
  <2>1. Items(a)[i] \in Nodes /\ Items(a)[i] # prog.root  BY OnePlace
  <2>2. PICK j \in DOMAIN Items(Parent(Items(a)[i])) : Items(Parent(Items(a)[i]))[j] = Items(a)[i]
    BY <2>1, HasParent
  <2>3. Parent(Items(a)[i]) \in Nodes  BY <2>1, HasParent
  <2>4. QED  BY <2>2, <2>3, OnePlace
<1>2. ASSUME Items(a)[i] = a PROVE FALSE
  <2> DEFINE S == Nodes \ {a}
  <2>1. \A x \in S : \A j \in DOMAIN Items(x) : Items(x)[j] \in S
    BY <1>2, OnePlace
  <2>2. prog.root \in S  BY <1>2, ProgramFacts, OnePlace
  <2>3. S = Nodes
    <3>1. S \in SUBSET Nodes  OBVIOUS
    <3> HIDE DEF S
    <3> QED  BY <2>1, <2>2, <3>1, Closed
  <2>4. QED  BY <2>3
<1>3. QED  BY <1>1, <1>2

-----------------------------------------------------------------------------
(* Types.                                                                  *)

LEMMA TypesInit == Init => Types
<1> SUFFICES ASSUME Init PROVE Types  OBVIOUS
<1>1. prog \in Programs  BY DEF Init
<1>2. prog.root \in Nodes /\ \A n \in Nodes : Fx(n) \in Effects  BY <1>1, ProgramFacts
<1>3. MaxTicker \in Nat  BY EvaluatorAssumption
<1>4. queue \in Seq(Nodes)  BY DEF Init
<1>5. imgs \in [Nodes -> Seq(Nat)]  BY DEF Init
<1>6. QED  BY <1>1, <1>2, <1>3, <1>4, <1>5 DEF Init, Types, Stages

LEMMA TypesKept == Types /\ [Next]_vars => Types'
<1> SUFFICES ASSUME Types, [Next]_vars PROVE Types'  OBVIOUS
<1>1. /\ prog \in Programs /\ MaxTicker \in Nat /\ prog.root \in Nodes
      /\ \A n \in Nodes : Fx(n) \in Effects /\ Items(n) \in Seq(Nodes) /\ ImgArgs(n) \in Seq(Nodes)
  BY ProgramFacts, EvaluatorAssumption DEF Types
<1>2. prog' = prog => Nodes' = Nodes  BY DEF Nodes
<1>3. CASE Stop  BY <1>2, <1>3 DEF Types, Stop, locks
<1>4. CASE Loop
  <2>1. CASE BeginFrame
    <3>1. ticker' \in 0..MaxTicker /\ 0..ticker \subseteq 0..ticker'
      BY <1>1, <2>1 DEF Types, BeginFrame
    <3>2. tick_' \in [Effects -> 0..ticker'] /\ image_' \in [Effects -> 0..ticker']
      BY <2>1, <3>1 DEF Types, BeginFrame
    <3>3. at' \in [Nodes -> Stages] /\ visited' \in [Nodes -> Nat] /\ calls' \in [Effects -> 0..2]
      BY <2>1 DEF BeginFrame, Stages
    <3>4. QED  BY <1>1, <1>2, <2>1, <3>1, <3>2, <3>3 DEF Types, BeginFrame, locks
  <2>2. CASE LoopReturns  BY <1>2, <2>2 DEF Types, LoopReturns, locks
  <2>3. CASE NextItem
    <3>1. visited[cur] + 1 \in DOMAIN Items(cur) /\ Items(cur)[visited[cur] + 1] \in Nodes
      <4>1. cur \in Nodes /\ visited[cur] \in Nat  BY <1>1 DEF Types
      <4>2. visited[cur] < Len(Items(cur))  BY <2>3 DEF NextItem, Items
      <4>3. Items(cur) \in Seq(Nodes)  BY <1>1, <4>1
      <4>4. visited[cur] + 1 \in DOMAIN Items(cur)  BY <4>1, <4>2, <4>3
      <4>5. QED  BY <4>3, <4>4
    <3>2. cur' = Items(cur)[visited[cur] + 1]  BY <2>3 DEF NextItem, Items
    <3>3. cur' \in Nodes  BY <3>1, <3>2
    <3>4. QED  BY <1>2, <2>3, <3>3 DEF Types, NextItem, Goes, locks, Stages
  <2>4. CASE AddJob
    <3>1. cur # prog.root  BY ProgramFacts, <1>1, <2>4 DEF AddJob
    <3>2. Parent(cur) \in Nodes  BY <1>1, <3>1, HasParent DEF Types
    <3>3. QED  BY <1>2, <2>4, <3>2 DEF Types, AddJob, Goes, locks, Stages
  <2>5. CASE ProcessHere  BY <1>2, <2>5 DEF Types, ProcessHere, Goes, thread, locks, Stages, Working
  <2>6. CASE EvalReturns
    <3>1. cur # prog.root => Parent(cur) \in Nodes  BY <1>1, HasParent DEF Types
    <3>2. QED  BY <1>2, <2>6, <3>1 DEF Types, EvalReturns, locks
  <2>7. CASE ShowBegins  BY <1>1, <1>2, <2>7 DEF Types, ShowBegins, AcquireWrite
  <2>8. CASE ShowEnds  BY <1>1, <1>2, <2>8 DEF Types, ShowEnds, ReleaseWrite
  <2>9. QED  BY <1>4, <2>1, <2>2, <2>3, <2>4, <2>5, <2>6, <2>7, <2>8 DEF Loop
<1>5. CASE HandOut
  <2>1. Head(queue) \in Nodes /\ Tail(queue) \in Seq(Nodes)  BY <1>5 DEF Types, HandOut
  <2>2. QED  BY <1>2, <1>5, <2>1 DEF Types, HandOut, Goes, thread, locks, Stages, Working
<1>6. ASSUME NEW n \in Nodes, ProcessFx(n) PROVE Types'
  <2>1. CASE TestImage(n)  BY <1>2, <2>1 DEF Types, TestImage, Goes, thread, locks, Stages, Working
  <2>2. CASE TestTick(n)  BY <1>2, <2>2 DEF Types, TestTick, Goes, thread, locks, Stages, Working
  <2>3. CASE Stamp(n)
    <3>1. at' \in [Nodes -> Stages]  BY <2>3 DEF Types, Stamp, Goes, Stages, Working
    <3>2. tick_' \in [Effects -> 0..ticker]  BY <1>1, <2>3 DEF Types, Stamp
    <3>3. QED  BY <1>2, <2>3, <3>1, <3>2 DEF Types, Stamp, thread, locks
  <2>4. CASE FetchImage(n)
    <3>1. Len(imgs[n]) + 1 \in DOMAIN ImgArgs(n)
      <4>1. Len(imgs[n]) < Len(ImgArgs(n)) /\ Len(imgs[n]) \in Nat  BY <2>4 DEF Types, FetchImage, ImgArgs
      <4>2. ImgArgs(n) \in Seq(Nodes)  BY <1>1
      <4>3. QED  BY <4>1, <4>2
    <3>2. Arg(n, Len(imgs[n]) + 1) \in Effects  BY <1>1, <3>1 DEF Arg, ImgArgs
    <3>3. image_[Arg(n, Len(imgs[n]) + 1)] \in Nat  BY <3>2 DEF Types
    <3>4. imgs' \in [Nodes -> Seq(Nat)]  BY <2>4, <3>3 DEF Types, FetchImage
    <3>5. QED  BY <1>2, <2>4, <3>4 DEF Types, FetchImage, thread
  <2>5. CASE LockArgument(n)
    <3>1. Len(imgs[n]) \in Nat  BY DEF Types
    <3>2. QED  BY <1>2, <2>5, <3>1 DEF Types, LockArgument, thread
  <2>6. CASE LockEffect(n)
    BY <1>1, <1>2, <2>6 DEF Types, LockEffect, AcquireWrite, Goes, thread, Stages, Working
  <2>7. CASE WaitForEffect(n)  BY <1>1, <1>2, <2>7 DEF Types, WaitForEffect, thread
  <2>8. CASE Process(n)
    <3>1. at' \in [Nodes -> Stages]  BY <2>8 DEF Types, Process, Goes, Stages, Working
    <3>2. calls' \in [Effects -> 0..2]
      <4>1. calls[Fx(n)] \in 0..2  BY <1>1 DEF Types
      <4>2. (IF calls[Fx(n)] = 2 THEN 2 ELSE calls[Fx(n)] + 1) \in 0..2  BY <4>1
      <4>3. QED  BY <2>8, <4>2 DEF Types, Process
    <3>3. writer' \in [Effects -> Nodes \cup {NoOne, Screen}] /\ writer_waiting_' \subseteq Effects
      BY <2>8 DEF Types, Process, ReleaseWrite
    <3>4. QED  BY <1>2, <2>8, <3>1, <3>2, <3>3 DEF Types, Process, thread
  <2>9. CASE UnlockArgument(n)
    <3>1. imgs' \in [Nodes -> Seq(Nat)]  BY <2>9 DEF Types, UnlockArgument
    <3>2. QED  BY <1>2, <2>9, <3>1 DEF Types, UnlockArgument, thread
  <2>10. CASE StoreImage(n)
    <3>1. at' \in [Nodes -> Stages]  BY <2>10 DEF Types, StoreImage, Goes, Stages, Working
    <3>2. image_' \in [Effects -> 0..ticker]  BY <1>1, <2>10 DEF Types, StoreImage
    <3>3. QED  BY <1>2, <2>10, <3>1, <3>2 DEF Types, StoreImage, thread, locks
  <2>11. CASE Finish(n)  BY <1>2, <2>11 DEF Types, Finish, Goes, thread, locks, Stages
  <2>12. QED
    BY <1>6, <2>1, <2>2, <2>3, <2>4, <2>5, <2>6, <2>7, <2>8, <2>9, <2>10, <2>11 DEF ProcessFx
<1>7. CASE UNCHANGED vars  BY <1>2, <1>7 DEF Types, vars, thread, locks
<1>8. QED  BY <1>3, <1>4, <1>5, <1>6, <1>7 DEF Next, Over

-----------------------------------------------------------------------------
(* Where the effect thread is.                                             *)

LEMMA SameProgram ==
    ASSUME prog' = prog
    PROVE  /\ Nodes' = Nodes
           /\ \A n : /\ Items(n)' = Items(n) /\ ImgArgs(n)' = ImgArgs(n) /\ Parent(n)' = Parent(n)
                     /\ Job(n)' = Job(n) /\ Fx(n)' = Fx(n)
BY DEF Nodes, Items, ImgArgs, Parent, Job, Fx

LEMMA WalkInit == Init => Walk
<1> SUFFICES ASSUME Init PROVE Walk  OBVIOUS
<1>1. \A n \in Nodes : Items(n) \in Seq(Nodes)  BY ProgramFacts DEF Init
<1>2. Begun  BY <1>1 DEF Init, Begun
<1>3. Ready  BY DEF Init, Ready
<1>4. Behind  BY <1>1 DEF Init, Behind
<1>5. Path  BY DEF Init, Path
<1>6. Here  BY DEF Init, Here, Working
<1>7. Rest  BY DEF Init, Rest
<1>8. Queue  BY DEF Init, Queue
<1>9. QED  BY <1>2, <1>3, <1>4, <1>5, <1>6, <1>7, <1>8 DEF Walk

LEMMA SameWalk ==
    ASSUME Walk, UNCHANGED <<prog, phase, cur, visited, at, queue, ticker>>
    PROVE  Walk'
<1>1. /\ Nodes' = Nodes
      /\ \A n : Items(n)' = Items(n) /\ Parent(n)' = Parent(n) /\ Job(n)' = Job(n) /\ Fx(n)' = Fx(n)
  BY SameProgram
<1>2. Begun'  BY <1>1 DEF Walk, Begun
<1>3. Ready'  BY <1>1 DEF Walk, Ready
<1>4. Behind'  BY <1>1 DEF Walk, Behind, Passed
<1>5. Path'  BY <1>1 DEF Walk, Path, OnPath
<1>6. Here'  BY <1>1 DEF Walk, Here
<1>7. Rest'  BY <1>1 DEF Walk, Rest
<1>8. Queue'  BY DEF Walk, Queue
<1>9. QED  BY <1>2, <1>3, <1>4, <1>5, <1>6, <1>7, <1>8 DEF Walk

\* The processing of an effect begins in a job, or goes on.
LEMMA RunWalks ==
    ASSUME Types, Walk, NEW n \in Nodes, NEW x \in Working \cup {"done"},
           at[n] \in Working \cup {"queued"}, at' = [at EXCEPT ![n] = x],
           UNCHANGED <<prog, phase, cur, visited, ticker>>,
           \A i \in DOMAIN queue' : at'[queue'[i]] = "queued",
           \A i, j \in DOMAIN queue' : queue'[i] = queue'[j] => i = j
    PROVE  Walk'
<1>1. /\ Nodes' = Nodes
      /\ \A m : Items(m)' = Items(m) /\ Parent(m)' = Parent(m) /\ Job(m)' = Job(m) /\ Fx(m)' = Fx(m)
  BY SameProgram
<1>2. \A m \in Nodes : Items(m) \in Seq(Nodes)  BY ProgramFacts DEF Types
<1>3. /\ at[n] \notin {"idle", "args", "done"} /\ at'[n] \notin {"idle", "args", "queued"}
      /\ at'[n] = x /\ \A m \in Nodes : m # n => at'[m] = at[m]
  BY DEF Types, Working
<1>4. \A m \in Nodes : /\ at'[m] = "idle" <=> at[m] = "idle"
                       /\ at'[m] = "args" <=> at[m] = "args"
                       /\ at'[m] = "queued" => at[m] = "queued"
                       /\ at[m] = "done" => at'[m] = "done"
                       /\ at'[m] \in Working => at[m] \in Working \cup {"queued"}
  BY <1>3
<1>5. Begun'
  <2>1. \A m \in Nodes : \A i \in DOMAIN Items(m) : Items(m)[i] \in Nodes  BY <1>2
  <2>2. QED  BY <1>1, <1>4, <2>1 DEF Walk, Begun
<1>6. Ready'  BY <1>1, <1>2, <1>4 DEF Walk, Ready
<1>7. Behind'
  <2>1. \A m \in Nodes : Passed(m) => Passed(m)'  BY <1>1, <1>4 DEF Passed
  <2>2. visited[cur] > 0 => visited[cur] \in DOMAIN Items(cur)
    BY <1>2 DEF Types, Walk, Begun
  <2>3. \A m \in Nodes : \A i \in DOMAIN Items(m) : Items(m)[i] \in Nodes  BY <1>2
  <2>4. (\A m \in Nodes : \A i \in DOMAIN Items(m) : i < visited[m] => Passed(Items(m)[i]))'
    BY <1>1, <2>1, <2>3 DEF Walk, Behind
  <2>5. (phase = "eval" /\ at[cur] = "args" /\ visited[cur] > 0 => Passed(Items(cur)[visited[cur]]))'
    <3>1. cur \in Nodes  BY DEF Types
    <3>2. SUFFICES ASSUME phase = "eval", at'[cur] = "args", visited[cur] > 0
                   PROVE  Passed(Items(cur)[visited[cur]])'
      BY <1>1
    <3>3. Passed(Items(cur)[visited[cur]])  BY <1>4, <3>1, <3>2 DEF Walk, Behind
    <3>4. Items(cur)[visited[cur]] \in Nodes  BY <2>2, <2>3, <3>1, <3>2
    <3>5. Passed(Items(cur)[visited[cur]])'  BY <1>1, <2>1, <3>3, <3>4
    <3>6. QED  BY <3>5
  <2>6. QED  BY <2>4, <2>5 DEF Behind
<1>8. Path'
  <2>1. \A m \in Nodes : m # prog.root => Parent(m) \in Nodes  BY HasParent DEF Types
  <2>2. QED  BY <1>1, <1>4, <2>1 DEF Walk, Path, OnPath
<1>9. Here'  BY <1>1, <1>4 DEF Types, Walk, Here
<1>10. Rest'
  <2>1. phase = "eval" /\ ticker # 0  BY <1>3 DEF Walk, Rest
  <2>2. QED  BY <2>1 DEF Rest
<1>11. Queue'  BY DEF Queue
<1>12. QED  BY <1>5, <1>6, <1>7, <1>8, <1>9, <1>10, <1>11 DEF Walk

LEMMA WorkWalks ==
    ASSUME Types, Walk, NEW n \in Nodes, NEW x \in Working \cup {"done"}, at[n] \in Working,
           at' = [at EXCEPT ![n] = x], UNCHANGED <<prog, phase, cur, visited, queue, ticker>>
    PROVE  Walk'
<1>1. \A i \in DOMAIN queue' : at'[queue'[i]] = "queued"
  BY DEF Types, Walk, Queue, Working
<1>2. \A i, j \in DOMAIN queue' : queue'[i] = queue'[j] => i = j
  BY DEF Walk, Queue
<1>3. QED  BY <1>1, <1>2, RunWalks

LEMMA HandOutWalks == ASSUME Types, Walk, HandOut PROVE Walk'
<1> DEFINE n == Head(queue)
<1>1. /\ queue # <<>> /\ queue' = Tail(queue) /\ at' = [at EXCEPT ![n] = "test_image"]
      /\ UNCHANGED <<prog, phase, cur, visited, ticker>>
  BY DEF HandOut, Goes, thread
<1>2. queue \in Seq(Nodes)  BY DEF Types
<1>3. 1 \in DOMAIN queue /\ n = queue[1]  BY <1>1, <1>2
<1>4. n \in Nodes /\ at[n] = "queued"  BY <1>2, <1>3 DEF Walk, Queue
<1>5. \A i \in DOMAIN queue' : i + 1 \in DOMAIN queue /\ queue'[i] = queue[i + 1] /\ i \in Nat /\ i > 0
  BY <1>1, <1>2
<1>6. ASSUME NEW i \in DOMAIN queue' PROVE at'[queue'[i]] = "queued"
  <2>1. i + 1 \in DOMAIN queue /\ queue'[i] = queue[i + 1] /\ i + 1 # 1  BY <1>5
  <2>2. queue'[i] \in Nodes /\ queue'[i] # n /\ at[queue'[i]] = "queued"
    BY <1>2, <1>3, <2>1 DEF Walk, Queue
  <2>3. QED  BY <1>1, <2>2 DEF Types
<1>7. ASSUME NEW i \in DOMAIN queue', NEW j \in DOMAIN queue', queue'[i] = queue'[j] PROVE i = j
  <2>1. i + 1 = j + 1  BY <1>5, <1>7 DEF Walk, Queue
  <2>2. QED  BY <1>5, <2>1
<1> HIDE DEF n
<1>8. QED  BY <1>1, <1>4, <1>6, <1>7, RunWalks DEF Working

LEMMA BeginFrameWalks == ASSUME Types, Types', Walk, BeginFrame PROVE Walk'
<1>1. /\ Nodes' = Nodes
      /\ \A m : Items(m)' = Items(m) /\ Parent(m)' = Parent(m) /\ Job(m)' = Job(m)
  BY SameProgram DEF BeginFrame
<1>2. \A m \in Nodes : Items(m) \in Seq(Nodes)  BY ProgramFacts DEF Types
<1>3. /\ visited' = [m \in Nodes |-> 0] /\ phase' = "eval" /\ cur' = prog.root /\ prog' = prog
      /\ at' = [m \in Nodes |-> IF m = prog.root THEN "args" ELSE "idle"]
      /\ phase = "top" /\ queue' = queue /\ ticker' = ticker + 1
  BY DEF BeginFrame
<1>4. \A m \in Nodes : \A i \in DOMAIN Items(m) :
        Items(m)[i] \in Nodes /\ Items(m)[i] # prog.root /\ i \in Nat /\ i > 0
  BY ItemFacts DEF Types
<1>5. Begun'  BY <1>1, <1>2, <1>3, <1>4 DEF Begun
<1>6. Ready'  BY <1>1, <1>3 DEF Ready
<1>7. Behind'
  <2>1. prog.root \in Nodes  BY ProgramFacts DEF Types
  <2>2. QED  BY <1>1, <1>3, <1>4, <2>1 DEF Behind
<1>8. Path'  BY <1>1, <1>3 DEF Path, OnPath
<1>9. Here'  BY <1>1, <1>3, ProgramFacts DEF Types, Here, Working
<1>10. Rest'  BY <1>3, EvaluatorAssumption DEF Types, Rest
<1>11. Queue'
  <2>1. \A i \in DOMAIN queue : queue[i] \in Nodes /\ at[queue[i]] = "queued"  BY DEF Types, Walk, Queue
  <2>2. DOMAIN queue = {}  BY <1>3, <2>1 DEF Walk, Rest
  <2>3. QED  BY <1>3, <2>2 DEF Queue
<1>12. QED  BY <1>5, <1>6, <1>7, <1>8, <1>9, <1>10, <1>11 DEF Walk

LEMMA NextItemWalks == ASSUME Types, Walk, NextItem PROVE Walk'
<1> DEFINE c == Items(cur)[visited[cur] + 1]
<1>1. /\ Nodes' = Nodes
      /\ \A m : Items(m)' = Items(m) /\ Parent(m)' = Parent(m) /\ Job(m)' = Job(m)
  BY SameProgram DEF NextItem
<1>2. \A m \in Nodes : Items(m) \in Seq(Nodes)  BY ProgramFacts DEF Types
<1>3. /\ phase = "eval" /\ at[cur] = "args" /\ cur \in Nodes
      /\ visited[cur] \in Nat /\ visited[cur] + 1 \in DOMAIN Items(cur)
      /\ UNCHANGED <<prog, phase, queue, ticker>>
      /\ visited' = [visited EXCEPT ![cur] = visited[cur] + 1]
      /\ cur' = c /\ at' = [at EXCEPT ![c] = "args"]
  BY <1>2 DEF Types, NextItem, Goes, Items
<1>4. c \in Nodes /\ c # prog.root /\ Parent(c) = cur /\ c # cur
  BY <1>3, OnePlace, ParentOf DEF Types
<1>5. at[c] = "idle" /\ visited[c] = 0
  BY <1>3, <1>4 DEF Walk, Begun
<1>6. /\ at'[c] = "args" /\ \A m \in Nodes : m # c => at'[m] = at[m]
      /\ visited'[cur] = visited[cur] + 1 /\ \A m \in Nodes : m # cur => visited'[m] = visited[m]
  BY <1>3, <1>4 DEF Types
<1> HIDE DEF c
<1>7. \A m \in Nodes : \A i \in DOMAIN Items(m) :
        /\ Items(m)[i] \in Nodes /\ i \in Nat /\ i > 0
        /\ Items(m)[i] = c <=> m = cur /\ i = visited[cur] + 1
  <2>1. ASSUME NEW m \in Nodes, NEW i \in DOMAIN Items(m)
        PROVE  Items(m)[i] = c <=> m = cur /\ i = visited[cur] + 1
    BY <1>3, OnePlace DEF Types, c
  <2>2. QED  BY <2>1, ItemFacts DEF Types
<1>8. \A m \in Nodes : Passed(m) => Passed(m)' /\ m # c
  BY <1>1, <1>5, <1>6 DEF Passed
<1>9. Begun'
  <2>1. \A m \in Nodes : visited'[m] <= Len(Items(m))
    BY <1>2, <1>3, <1>6 DEF Walk, Begun
  <2>2. \A m \in Nodes : at'[m] = "idle" => visited'[m] = 0
    BY <1>3, <1>6 DEF Walk, Begun
  <2>3. ASSUME NEW m \in Nodes, NEW i \in DOMAIN Items(m)
        PROVE  at'[Items(m)[i]] = "idle" <=> i > visited'[m]
    <3>1. at[Items(m)[i]] = "idle" <=> i > visited[m]  BY DEF Walk, Begun
    <3>2. visited[m] \in Nat /\ i \in Nat  BY <1>7 DEF Types
    <3>3. CASE Items(m)[i] = c  BY <1>3, <1>6, <1>7, <3>3
    <3>4. CASE Items(m)[i] # c  BY <1>3, <1>6, <1>7, <3>1, <3>2, <3>4
    <3>5. QED  BY <3>3, <3>4
  <2>4. QED  BY <1>1, <2>1, <2>2, <2>3 DEF Begun
<1>10. Ready'
  <2>1. SUFFICES ASSUME NEW m \in Nodes, at'[m] \notin {"idle", "args"}
                 PROVE  visited'[m] = Len(Items(m)) /\ \A i \in DOMAIN Items(m) : at'[Items(m)[i]] = "done"
    BY <1>1 DEF Ready
  <2>2. m # c /\ m # cur /\ at[m] \notin {"idle", "args"}  BY <1>3, <1>6, <2>1
  <2>3. visited[m] = Len(Items(m)) /\ \A i \in DOMAIN Items(m) : at[Items(m)[i]] = "done"
    BY <2>2 DEF Walk, Ready
  <2>4. QED  BY <1>6, <1>7, <2>2, <2>3
<1>11. Behind'
  <2>1. ASSUME NEW m \in Nodes, NEW i \in DOMAIN Items(m), i < visited'[m]
        PROVE  Passed(Items(m)[i])
    <3>1. CASE m # cur  BY <1>6, <2>1, <3>1 DEF Walk, Behind
    <3>2. CASE m = cur /\ i < visited[cur]  BY <3>2 DEF Walk, Behind
    <3>3. CASE m = cur /\ i = visited[cur]  BY <1>3, <1>7, <3>3 DEF Walk, Behind
    <3>4. QED  BY <1>3, <1>6, <1>7, <2>1, <3>1, <3>2, <3>3
  <2>2. (\A m \in Nodes : \A i \in DOMAIN Items(m) : i < visited[m] => Passed(Items(m)[i]))'
    BY <1>1, <1>7, <1>8, <2>1
  <2>3. visited'[c] = 0  BY <1>4, <1>5, <1>6
  <2>4. QED  BY <1>3, <2>2, <2>3 DEF Behind
<1>12. Path'
  <2>1. SUFFICES ASSUME NEW m \in Nodes, OnPath(m)', m # prog.root
                 PROVE  /\ at'[Parent(m)] = "args" /\ visited'[Parent(m)] \in DOMAIN Items(Parent(m))
                        /\ m = Items(Parent(m))[visited'[Parent(m)]]
    BY <1>1, <1>3 DEF Path
  <2>2. CASE m = c  BY <1>3, <1>4, <1>6, <2>2 DEF c
  <2>3. CASE m # c
    <3>1. at[m] = "args" /\ Parent(m) \in Nodes
      BY <1>3, <1>6, <2>1, <2>3, HasParent DEF OnPath, Types
    <3>2. /\ at[Parent(m)] = "args" /\ visited[Parent(m)] \in DOMAIN Items(Parent(m))
          /\ m = Items(Parent(m))[visited[Parent(m)]]
      BY <1>3, <2>1, <3>1 DEF Walk, Path, OnPath
    <3>3. ASSUME Parent(m) = cur PROVE FALSE
      <4>1. visited[cur] > 0  BY <1>7, <3>1, <3>2, <3>3
      <4>2. Passed(m)  BY <1>3, <3>2, <3>3, <4>1 DEF Walk, Behind
      <4>3. QED  BY <3>1, <4>2 DEF Passed
    <3>4. Parent(m) # c  BY <1>5, <3>2
    <3>5. QED  BY <1>6, <3>1, <3>2, <3>3, <3>4
  <2>4. QED  BY <2>2, <2>3
<1>13. Here'
  <2>1. \A m \in Nodes : at[m] \in Working => Job(m)
    BY <1>3 DEF Walk, Here, Working
  <2>2. QED  BY <1>1, <1>3, <1>4, <1>6, <2>1 DEF Walk, Here, Working
<1>14. Rest'  BY <1>3 DEF Walk, Rest
<1>15. Queue'
  <2>1. \A i \in DOMAIN queue : queue[i] \in Nodes  BY DEF Types
  <2>2. QED  BY <1>3, <1>5, <1>6, <2>1 DEF Walk, Queue
<1>16. QED  BY <1>9, <1>10, <1>11, <1>12, <1>13, <1>14, <1>15 DEF Walk

\* The argument list of a node is through, and the node goes on to x.
LEMMA LeavesArguments ==
    ASSUME Types, Walk, phase = "eval", ArgumentsReady(cur), NEW x \in {"queued", "test_image"},
           Job(cur) <=> x = "queued",
           at' = [at EXCEPT ![cur] = x], UNCHANGED <<prog, phase, visited, ticker>>,
           Job(cur) => cur # prog.root /\ cur' = Parent(cur),
           ~Job(cur) => cur' = cur,
           \A i \in DOMAIN queue' : queue'[i] \in Nodes /\ at'[queue'[i]] = "queued",
           \A i, j \in DOMAIN queue' : queue'[i] = queue'[j] => i = j
    PROVE  Walk'
<1>1. /\ Nodes' = Nodes
      /\ \A m : Items(m)' = Items(m) /\ Parent(m)' = Parent(m) /\ Job(m)' = Job(m)
  BY SameProgram
<1>2. \A m \in Nodes : \A i \in DOMAIN Items(m) : Items(m)[i] \in Nodes /\ i \in Nat /\ i > 0
  BY ItemFacts DEF Types
<1>3. /\ cur \in Nodes /\ at[cur] = "args" /\ at'[cur] = x /\ \A m \in Nodes : m # cur => at'[m] = at[m]
      /\ visited[cur] = Len(Items(cur)) /\ \A i \in DOMAIN Items(cur) : at[Items(cur)[i]] = "done"
  BY DEF Types, ArgumentsReady, Items
<1>4. \A m \in Nodes : /\ at'[m] = "idle" <=> at[m] = "idle"
                       /\ at[m] = "done" <=> at'[m] = "done"
                       /\ Passed(m) => Passed(m)'
  BY <1>1, <1>3 DEF Passed
<1>5. Begun'  BY <1>1, <1>2, <1>4 DEF Walk, Begun
<1>6. Ready'
  <2>1. SUFFICES ASSUME NEW m \in Nodes, at'[m] \notin {"idle", "args"}
                 PROVE  visited[m] = Len(Items(m)) /\ \A i \in DOMAIN Items(m) : at[Items(m)[i]] = "done"
    BY <1>1, <1>2, <1>4 DEF Ready
  <2>2. QED  BY <1>3, <2>1 DEF Walk, Ready
<1>7. Job(cur) => /\ Parent(cur) \in Nodes /\ Parent(cur) # cur /\ at[Parent(cur)] = "args"
                  /\ visited[Parent(cur)] \in DOMAIN Items(Parent(cur))
                  /\ cur = Items(Parent(cur))[visited[Parent(cur)]]
  BY <1>3, HasParent, ParentOf DEF Types, Walk, Path, OnPath
<1>8. Behind'
  <2>1. (\A m \in Nodes : \A i \in DOMAIN Items(m) : i < visited[m] => Passed(Items(m)[i]))'
    BY <1>1, <1>2, <1>4 DEF Walk, Behind
  <2>2. CASE Job(cur)
    <3>1. \A m \in Nodes : m = cur => Passed(m)'  BY <1>1, <1>3, <2>2 DEF Passed
    <3>2. QED  BY <1>1, <1>3, <1>7, <2>1, <2>2, <3>1 DEF Behind
  <2>3. CASE ~Job(cur)
    <3>1. at'[cur'] # "args"  BY <1>3, <2>3
    <3>2. QED  BY <2>1, <3>1 DEF Behind
  <2>4. QED  BY <2>2, <2>3
<1>9. Path'
  <2>1. SUFFICES ASSUME NEW m \in Nodes, OnPath(m)', m # prog.root
                 PROVE  /\ at'[Parent(m)] = "args" /\ visited[Parent(m)] \in DOMAIN Items(Parent(m))
                        /\ m = Items(Parent(m))[visited[Parent(m)]]
    BY <1>1 DEF Path
  <2>2. OnPath(m)
    BY <1>3, <1>7, <2>1 DEF OnPath
  <2>3. /\ at[Parent(m)] = "args" /\ visited[Parent(m)] \in DOMAIN Items(Parent(m)) /\ Parent(m) \in Nodes
        /\ m = Items(Parent(m))[visited[Parent(m)]]
    BY <2>1, <2>2, HasParent DEF Types, Walk, Path
  <2>4. Parent(m) # cur
    <3>1. m # cur \/ Parent(m) # cur  BY <2>3, ParentOf DEF Types
    <3>2. m # cur => at[m] = "args"  BY <2>2 DEF OnPath
    <3>3. Parent(m) = cur => at[m] = "done"  BY <1>3, <2>3
    <3>4. QED  BY <3>1, <3>2, <3>3
  <2>5. QED  BY <1>3, <2>3, <2>4
<1>10. Here'
  <2>1. \A m \in Nodes : at[m] \in Working => Job(m)
    BY <1>3 DEF Walk, Here, Working
  <2>2. (phase = "eval" => at[cur] = "args" \/ (~Job(cur) /\ at[cur] \notin {"idle", "queued"}))'
    BY <1>1, <1>3, <1>7
  <2>3. QED  BY <1>1, <1>3, <2>1, <2>2 DEF Walk, Here, Working
<1>11. Rest'  BY DEF Walk, Rest
<1>12. Queue'  BY DEF Queue
<1>13. QED  BY <1>5, <1>6, <1>8, <1>9, <1>10, <1>11, <1>12 DEF Walk

LEMMA AddJobWalks == ASSUME Types, Walk, AddJob PROVE Walk'
<1>1. cur # prog.root  BY ProgramFacts DEF AddJob, Types
<1>2. at' = [at EXCEPT ![cur] = "queued"] /\ queue' = Append(queue, cur) /\ at[cur] = "args" /\ cur \in Nodes
  BY DEF AddJob, Goes, ArgumentsReady, Types
<1>3. \A i \in DOMAIN queue : queue[i] \in Nodes /\ at[queue[i]] = "queued" /\ queue[i] # cur
  BY <1>2 DEF Types, Walk, Queue
<1>4. \A i \in DOMAIN queue' : \/ i \in DOMAIN queue /\ queue'[i] = queue[i]
                               \/ i = Len(queue) + 1 /\ queue'[i] = cur
  BY <1>2 DEF Types
<1>5. \A i \in DOMAIN queue' : queue'[i] \in Nodes /\ at'[queue'[i]] = "queued"
  BY <1>2, <1>3, <1>4 DEF Types
<1>6. \A i, j \in DOMAIN queue' : queue'[i] = queue'[j] => i = j
  BY <1>3, <1>4 DEF Walk, Queue
<1>7. /\ phase = "eval" /\ ArgumentsReady(cur) /\ Job(cur) /\ cur' = Parent(cur)
      /\ UNCHANGED <<prog, phase, visited, ticker>>
  BY DEF AddJob
<1>8. QED  BY <1>1, <1>2, <1>5, <1>6, <1>7, LeavesArguments

LEMMA ProcessHereWalks == ASSUME Types, Walk, ProcessHere PROVE Walk'
<1>1. /\ at' = [at EXCEPT ![cur] = "test_image"] /\ at[cur] = "args" /\ cur \in Nodes /\ cur' = cur
      /\ phase = "eval" /\ ArgumentsReady(cur) /\ ~Job(cur)
      /\ UNCHANGED <<prog, phase, visited, ticker, queue>>
  BY DEF ProcessHere, Goes, ArgumentsReady, thread, Types
<1>2. \A i \in DOMAIN queue' : queue'[i] \in Nodes /\ at'[queue'[i]] = "queued"
  BY <1>1 DEF Types, Walk, Queue
<1>3. \A i, j \in DOMAIN queue' : queue'[i] = queue'[j] => i = j
  BY <1>1 DEF Walk, Queue
<1>4. QED  BY <1>1, <1>2, <1>3, LeavesArguments

LEMMA EvalReturnsWalks == ASSUME Types, Walk, EvalReturns PROVE Walk'
<1>1. /\ Nodes' = Nodes
      /\ \A m : Items(m)' = Items(m) /\ Parent(m)' = Parent(m) /\ Job(m)' = Job(m)
  BY SameProgram DEF EvalReturns
<1>2. /\ phase = "eval" /\ at[cur] = "done" /\ cur \in Nodes
      /\ UNCHANGED <<prog, visited, at, queue, ticker>>
  BY DEF Types, EvalReturns
<1>3. Begun'  BY <1>1, <1>2 DEF Walk, Begun
<1>4. Ready'  BY <1>1, <1>2 DEF Walk, Ready
<1>5. Queue'  BY <1>2 DEF Walk, Queue
<1>6. CASE cur = prog.root
  <2>1. phase' = "show" /\ cur' = cur  BY <1>6 DEF EvalReturns
  <2>2. \A n \in Nodes : at[n] = "done"
    <3> DEFINE S == {n \in Nodes : at[n] = "done"}
    <3>1. \A n \in S : \A i \in DOMAIN Items(n) : Items(n)[i] \in S
      BY ItemFacts DEF Types, Walk, Ready
    <3>2. prog.root \in S /\ S \in SUBSET Nodes  BY <1>2, <1>6
    <3>3. S = Nodes
      <4> HIDE DEF S
      <4> QED  BY <3>1, <3>2, Closed DEF Types
    <3>4. QED  BY <3>3
  <2>3. Behind'  BY <1>1, <1>2, <2>1 DEF Walk, Behind, Passed
  <2>4. Path'  BY <2>1 DEF Path
  <2>5. Here'  BY <1>1, <1>2, <2>1, <2>2 DEF Here, Working
  <2>6. Rest'  BY <1>1, <1>2, <1>6, <2>1, <2>2 DEF Walk, Rest
  <2>7. QED  BY <1>3, <1>4, <1>5, <2>3, <2>4, <2>5, <2>6 DEF Walk
<1>7. CASE cur # prog.root
  <2>1. phase' = "eval" /\ cur' = Parent(cur)  BY <1>2, <1>7 DEF EvalReturns
  <2>2. /\ Parent(cur) \in Nodes /\ at[Parent(cur)] = "args"
        /\ visited[Parent(cur)] \in DOMAIN Items(Parent(cur))
        /\ cur = Items(Parent(cur))[visited[Parent(cur)]]
    BY <1>2, <1>7, HasParent DEF Types, Walk, Path, OnPath
  <2>3. Behind'
    <3>1. \A m \in Nodes : m = cur => Passed(m)'  BY <1>2 DEF Passed
    <3>2. (\A m \in Nodes : \A i \in DOMAIN Items(m) : i < visited[m] => Passed(Items(m)[i]))'
      BY <1>1, <1>2 DEF Walk, Behind, Passed
    <3>3. QED  BY <1>1, <1>2, <2>1, <2>2, <3>1, <3>2 DEF Behind
  <2>4. Path'  BY <1>1, <1>2, <2>1, <2>2 DEF Walk, Path, OnPath
  <2>5. Here'  BY <1>1, <1>2, <2>1, <2>2 DEF Walk, Here, Working
  <2>6. Rest'  BY <1>2, <2>1 DEF Walk, Rest
  <2>7. QED  BY <1>3, <1>4, <1>5, <2>3, <2>4, <2>5, <2>6 DEF Walk
<1>8. QED  BY <1>6, <1>7

LEMMA OutsideWalks ==
    ASSUME Types, Walk, LoopReturns \/ ShowBegins \/ ShowEnds
    PROVE  Walk'
<1>1. /\ phase # "eval" /\ phase' # "eval" /\ (phase' = "showing" => phase = "show") /\ phase' # "show"
      /\ UNCHANGED <<prog, cur, visited, at, queue, ticker>>
      /\ ticker = 0 => phase' \in {"top", "over"}
  BY DEF LoopReturns, ShowBegins, ShowEnds, AcquireWrite, Walk, Rest
<1>2. /\ Nodes' = Nodes /\ \A m : Items(m)' = Items(m) /\ Job(m)' = Job(m)
  BY <1>1, SameProgram
<1>3. Begun'  BY <1>1, <1>2 DEF Walk, Begun
<1>4. Ready'  BY <1>1, <1>2 DEF Walk, Ready
<1>5. Behind'  BY <1>1, <1>2 DEF Walk, Behind, Passed
<1>6. Path'  BY <1>1 DEF Path
<1>7. Here'  BY <1>1, <1>2 DEF Walk, Here
<1>8. Rest'  BY <1>1, <1>2 DEF Walk, Rest
<1>9. Queue'  BY <1>1 DEF Walk, Queue
<1>10. QED  BY <1>3, <1>4, <1>5, <1>6, <1>7, <1>8, <1>9 DEF Walk

\* What the steps of process_fx have in common.
LEMMA ProcessFxSteps ==
    ASSUME Types, NEW n \in Nodes, ProcessFx(n)
    PROVE  /\ at[n] \in Working
           /\ UNCHANGED <<prog, phase, cur, visited, queue, ticker>>
           /\ at' = at \/ \E x \in Working \cup {"done"} : at' = [at EXCEPT ![n] = x]
<1>1. CASE TestImage(n)  BY <1>1 DEF TestImage, Goes, thread, Working
<1>2. CASE TestTick(n)  BY <1>2 DEF TestTick, Goes, thread, Working
<1>3. CASE Stamp(n)  BY <1>3 DEF Stamp, Goes, thread, Working
<1>4. CASE FetchImage(n) \/ LockArgument(n)  BY <1>4 DEF FetchImage, LockArgument, thread, Working
<1>5. CASE LockEffect(n) \/ WaitForEffect(n)
  BY <1>5 DEF LockEffect, WaitForEffect, ArgumentsLocked, Goes, thread, Working
<1>6. CASE Process(n)  BY <1>6 DEF Process, Goes, thread, Working
<1>7. CASE UnlockArgument(n)  BY <1>7 DEF UnlockArgument, thread, Working
<1>8. CASE StoreImage(n)  BY <1>8 DEF StoreImage, Goes, thread, Working
<1>9. CASE Finish(n)  BY <1>9 DEF Finish, Goes, thread, Working
<1>10. QED  BY <1>1, <1>2, <1>3, <1>4, <1>5, <1>6, <1>7, <1>8, <1>9 DEF ProcessFx

LEMMA WalkKept == Types /\ Walk /\ [Next]_vars => Walk'
<1> SUFFICES ASSUME Types, Walk, [Next]_vars PROVE Walk'  OBVIOUS
<1>1. CASE Stop \/ UNCHANGED vars
  BY <1>1, SameWalk DEF Stop, vars, thread
<1>2. CASE BeginFrame  BY <1>2, BeginFrameWalks, TypesKept
<1>3. CASE NextItem  BY <1>3, NextItemWalks
<1>4. CASE AddJob  BY <1>4, AddJobWalks
<1>5. CASE ProcessHere  BY <1>5, ProcessHereWalks
<1>6. CASE EvalReturns  BY <1>6, EvalReturnsWalks
<1>7. CASE LoopReturns \/ ShowBegins \/ ShowEnds  BY <1>7, OutsideWalks
<1>8. CASE HandOut  BY <1>8, HandOutWalks
<1>9. ASSUME NEW n \in Nodes, ProcessFx(n) PROVE Walk'
  <2>1. CASE at' = at  BY <1>9, <2>1, ProcessFxSteps, SameWalk
  <2>2. CASE \E x \in Working \cup {"done"} : at' = [at EXCEPT ![n] = x]
    BY <1>9, <2>2, ProcessFxSteps, WorkWalks
  <2>3. QED  BY <1>9, <2>1, <2>2, ProcessFxSteps
<1>10. QED  BY <1>1, <1>2, <1>3, <1>4, <1>5, <1>6, <1>7, <1>8, <1>9 DEF Next, Loop, Over

-----------------------------------------------------------------------------
(* The locks.                                                              *)

LEMMA PrefixSize ==
    ASSUME NEW n, NEW k \in Nat
    PROVE  IsFiniteSet(Prefix(n, k)) /\ Cardinality(Prefix(n, k)) = k
<1> DEFINE f == [i \in 1..k |-> <<n, i>>]
<1>1. IsFiniteSet(1..k) /\ Cardinality(1..k) = k
  BY FS_Interval
<1>2. f \in Bijection(1..k, Prefix(n, k))
  BY DEF Bijection, Injection, Surjection, IsInjective, Prefix
<1>3. ExistsBijection(1..k, Prefix(n, k))
  BY <1>2 DEF ExistsBijection
<1>4. QED  BY <1>1, <1>3, FS_Bijection

LEMMA LockingInit == Init => Locking
<1> SUFFICES ASSUME Init PROVE Locking  OBVIOUS
<1>1. \A n \in Nodes : /\ ImgArgs(n) \in Seq(Nodes) /\ imgs[n] = <<>> /\ at[n] = "idle"
                       /\ Held(n) = Prefix(n, 0)
  BY ProgramFacts DEF Init, Held, Prefix
<1>2. Lockers  BY <1>1 DEF Lockers
<1>3. Writers  BY ProgramFacts DEF Init, Writers
<1>4. Waiting  BY DEF Init, Waiting
<1>5. QED  BY <1>2, <1>3, <1>4 DEF Locking

LEMMA SameLockers ==
    ASSUME Types, Lockers, UNCHANGED <<prog, imgs, held>>,
           \A m \in Nodes : \/ at'[m] = at[m]
                            \/ imgs[m] = <<>> /\ at'[m] # "process"
    PROVE  Lockers'
<1>1. Nodes' = Nodes /\ \A m : ImgArgs(m)' = ImgArgs(m)  BY SameProgram
<1>2. \A m : Held(m)' = Held(m)  BY DEF Held
<1>3. SUFFICES ASSUME NEW n \in Nodes, at'[n] # at[n]
               PROVE  \E k \in Nat : /\ Held(n) = Prefix(n, k) /\ k <= Len(imgs[n]) /\ Len(imgs[n]) <= k + 1
                                     /\ at'[n] # "lock" => k = Len(imgs[n])
  BY <1>1, <1>2 DEF Lockers
<1>4. PICK k \in Nat : Held(n) = Prefix(n, k) /\ k <= Len(imgs[n])  BY DEF Lockers
<1>5. imgs[n] = <<>> /\ Len(imgs[n]) = 0  BY <1>3
<1>6. k = 0  BY <1>4, <1>5
<1>7. QED  BY <1>4, <1>5, <1>6

LEMMA SameLocking ==
    ASSUME Types, Locking, UNCHANGED <<prog, locks>>, phase = "showing" => phase' = "showing",
           \A m \in Nodes : \/ at'[m] = at[m]
                            \/ imgs[m] = <<>> /\ at[m] # "process" /\ at'[m] # "process"
    PROVE  Locking'
<1>1. Nodes' = Nodes /\ \A m : Fx(m)' = Fx(m)  BY SameProgram
<1>2. UNCHANGED <<imgs, held, writer, writer_waiting_>>  BY DEF locks
<1>3. Lockers'  BY <1>2, SameLockers DEF Locking
<1>4. Writers'  BY <1>1, <1>2 DEF Locking, Writers
<1>5. Waiting'  BY <1>2 DEF Locking, Waiting, WriteBlocked, Readers, Arg, Fx
<1>6. QED  BY <1>3, <1>4, <1>5 DEF Locking

\* Where no lock is held.
LEMMA NothingHeld ==
    ASSUME Types, Locking, \A n \in Nodes : at[n] \notin {"lock", "process", "unlock"}
    PROVE  /\ \A n \in Nodes : imgs[n] = <<>>
           /\ held = {}
           /\ \A f \in Effects : writer[f] \notin Nodes
<1>1. \A n \in Nodes : imgs[n] = <<>>  BY DEF Locking, Lockers
<1>2. ASSUME NEW l \in held PROVE FALSE
  <2>1. l[1] \in Nodes /\ l \in Held(l[1])  BY DEF Types, Held
  <2>2. PICK k \in Nat : Held(l[1]) = Prefix(l[1], k) /\ k <= Len(imgs[l[1]])
    BY <2>1 DEF Locking, Lockers
  <2>3. k = 0  BY <1>1, <2>1, <2>2
  <2>4. QED  BY <2>1, <2>2, <2>3 DEF Prefix
<1>3. \A f \in Effects : writer[f] \notin Nodes  BY DEF Locking, Writers
<1>4. QED  BY <1>1, <1>2, <1>3

LEMMA FetchImageLocks == ASSUME Types, Locking, NEW n \in Nodes, FetchImage(n) PROVE Locking'
<1>1. /\ Nodes' = Nodes /\ \A m : ImgArgs(m)' = ImgArgs(m) /\ Fx(m)' = Fx(m)
  BY SameProgram DEF FetchImage, thread
<1>2. /\ UNCHANGED <<prog, at, phase, held, writer, writer_waiting_>>
      /\ at[n] = "lock" /\ Len(imgs[n]) < Len(ImgArgs(n)) /\ Cardinality(Held(n)) = Len(imgs[n])
      /\ imgs' = [imgs EXCEPT ![n] = Append(imgs[n], image_[Arg(n, Len(imgs[n]) + 1)])]
  BY DEF FetchImage, thread, ImgArgs
<1>3. \A m : Held(m)' = Held(m)  BY <1>2 DEF Held
<1>4. Lockers'
  <2>1. SUFFICES ASSUME NEW m \in Nodes
                 PROVE  /\ imgs'[m] # <<>> => at[m] \in {"lock", "process", "unlock"}
                        /\ Len(imgs'[m]) <= Len(ImgArgs(m))
                        /\ \E k \in Nat : /\ Held(m) = Prefix(m, k) /\ k <= Len(imgs'[m])
                                          /\ Len(imgs'[m]) <= k + 1
                                          /\ at[m] # "lock" => k = Len(imgs'[m])
                        /\ at[m] = "process" => Len(imgs'[m]) = Len(ImgArgs(m))
    BY <1>1, <1>2, <1>3 DEF Lockers
  <2>2. CASE m # n  BY <1>2, <2>2 DEF Types, Locking, Lockers
  <2>3. CASE m = n
    <3>1. Len(imgs'[n]) = Len(imgs[n]) + 1 /\ Len(imgs[n]) \in Nat  BY <1>2 DEF Types
    <3>2. PICK k \in Nat : Held(n) = Prefix(n, k)  BY DEF Locking, Lockers
    <3>3. k = Len(imgs[n])  BY <1>2, <3>2, PrefixSize
    <3>4. Len(ImgArgs(n)) \in Nat  BY ProgramFacts DEF Types
    <3>5. Held(n) = Prefix(n, k) /\ k <= Len(imgs'[n]) /\ Len(imgs'[n]) <= k + 1
      BY <3>1, <3>2, <3>3
    <3>6. QED  BY <1>2, <2>3, <3>1, <3>4, <3>5
  <2>4. QED  BY <2>2, <2>3
<1>5. Writers'  BY <1>1, <1>2 DEF Locking, Writers
<1>6. Waiting'  BY <1>2 DEF Locking, Waiting, WriteBlocked, Readers, Arg, Fx
<1>7. QED  BY <1>4, <1>5, <1>6 DEF Locking

LEMMA LockArgumentLocks == ASSUME Types, Locking, NEW n \in Nodes, LockArgument(n) PROVE Locking'
<1>1. /\ Nodes' = Nodes /\ \A m : ImgArgs(m)' = ImgArgs(m) /\ Fx(m)' = Fx(m)
  BY SameProgram DEF LockArgument, thread
<1>2. /\ UNCHANGED <<prog, at, phase, imgs, writer, writer_waiting_>>
      /\ at[n] = "lock" /\ Cardinality(Held(n)) < Len(imgs[n]) /\ Len(imgs[n]) \in Nat
      /\ held' = held \cup {<<n, Len(imgs[n])>>}
  BY DEF LockArgument, thread, Types
<1>3. \A m \in Nodes : m # n => Held(m)' = Held(m)  BY <1>2 DEF Held
<1>4. Held(n)' = Held(n) \cup {<<n, Len(imgs[n])>>}  BY <1>2 DEF Held
<1>5. Lockers'
  <2>1. PICK k \in Nat : Held(n) = Prefix(n, k) /\ k <= Len(imgs[n]) /\ Len(imgs[n]) <= k + 1
    BY DEF Locking, Lockers
  <2>2. Len(imgs[n]) = k + 1  BY <1>2, <2>1, PrefixSize
  <2>3. Held(n)' = Prefix(n, k + 1)
    <3>1. Prefix(n, k + 1) = Prefix(n, k) \cup {<<n, k + 1>>}  BY DEF Prefix
    <3>2. QED  BY <1>4, <2>1, <2>2, <3>1
  <2>4. k + 1 \in Nat /\ k + 1 <= Len(imgs[n]) /\ Len(imgs[n]) <= (k + 1) + 1  BY <2>2
  <2>5. \E j \in Nat : Held(n)' = Prefix(n, j) /\ j <= Len(imgs[n]) /\ Len(imgs[n]) <= j + 1
    BY <2>3, <2>4
  <2>6. QED  BY <1>1, <1>2, <1>3, <2>5 DEF Locking, Lockers
<1>6. Writers'  BY <1>1, <1>2 DEF Locking, Writers
<1>7. Waiting'
  <2>1. \A f : Readers(f) \subseteq Readers(f)'  BY <1>2 DEF Readers, Arg, Fx
  <2>2. QED  BY <1>2, <2>1 DEF Locking, Waiting, WriteBlocked
<1>8. QED  BY <1>5, <1>6, <1>7 DEF Locking

LEMMA LockEffectLocks == ASSUME Types, Locking, NEW n \in Nodes, LockEffect(n) PROVE Locking'
<1>1. /\ Nodes' = Nodes /\ \A m : ImgArgs(m)' = ImgArgs(m) /\ Fx(m)' = Fx(m)
  BY SameProgram DEF LockEffect, thread
<1>2. /\ UNCHANGED <<prog, phase, imgs, held, writer_waiting_>>
      /\ at[n] = "lock" /\ Cardinality(Held(n)) = Len(ImgArgs(n))
      /\ at' = [at EXCEPT ![n] = "process"] /\ writer' = [writer EXCEPT ![Fx(n)] = n]
      /\ Fx(n) \in Effects /\ writer[Fx(n)] = NoOne
      /\ n # NoOne /\ n # Screen /\ ImgArgs(n) \in Seq(Nodes)
  BY ProgramFacts DEF LockEffect, ArgumentsLocked, AcquireWrite, WriteBlocked, Goes, thread, ImgArgs, Types
<1>3. \A m : Held(m)' = Held(m)  BY <1>2 DEF Held
<1>4. /\ at'[n] = "process" /\ \A m \in Nodes : m # n => at'[m] = at[m]
      /\ writer'[Fx(n)] = n /\ \A f \in Effects : f # Fx(n) => writer'[f] = writer[f]
  BY <1>2 DEF Types
<1>5. Lockers'
  <2>1. PICK k \in Nat : /\ Held(n) = Prefix(n, k) /\ k <= Len(imgs[n]) /\ Len(imgs[n]) <= Len(ImgArgs(n))
                         /\ Len(imgs[n]) \in Nat
    BY DEF Locking, Lockers, Types
  <2>2. k = Len(ImgArgs(n))  BY <1>2, <2>1, PrefixSize
  <2>3. k = Len(imgs[n]) /\ Len(imgs[n]) = Len(ImgArgs(n))  BY <1>2, <2>1, <2>2
  <2>4. \E j \in Nat : Held(n) = Prefix(n, j) /\ j = Len(imgs[n])  BY <2>1, <2>3
  <2>5. ASSUME NEW m \in Nodes
        PROVE  /\ imgs[m] # <<>> => at'[m] \in {"lock", "process", "unlock"}
               /\ Len(imgs[m]) <= Len(ImgArgs(m))
               /\ \E j \in Nat : /\ Held(m) = Prefix(m, j) /\ j <= Len(imgs[m]) /\ Len(imgs[m]) <= j + 1
                                 /\ at'[m] # "lock" => j = Len(imgs[m])
               /\ at'[m] = "process" => Len(imgs[m]) = Len(ImgArgs(m))
    <3>1. CASE m # n  BY <1>4, <3>1 DEF Locking, Lockers
    <3>2. CASE m = n  BY <1>4, <2>1, <2>3, <2>4, <3>2
    <3>3. QED  BY <3>1, <3>2
  <2>6. QED  BY <1>1, <1>2, <1>3, <2>5 DEF Lockers
<1>6. Writers'
  <2>1. ASSUME NEW f \in Effects
        PROVE  /\ writer'[f] \in Nodes => at'[writer'[f]] = "process" /\ Fx(writer'[f]) = f
               /\ writer'[f] = Screen => phase = "showing" /\ f = Fx(prog.root)
    <3>1. CASE f = Fx(n)  BY <1>2, <1>4, <3>1
    <3>2. CASE f # Fx(n)
      <4>1. writer[f] \in Nodes => writer[f] # n  BY <1>2, <3>2 DEF Locking, Writers
      <4>2. QED  BY <1>4, <3>2, <4>1 DEF Locking, Writers
    <3>3. QED  BY <3>1, <3>2
  <2>2. QED  BY <1>1, <1>2, <2>1 DEF Writers
<1>7. Waiting'
  <2>1. \A f : Readers(f)' = Readers(f)  BY <1>2 DEF Readers, Arg, Fx
  <2>2. QED  BY <1>2, <1>4, <2>1 DEF Locking, Waiting, WriteBlocked, Types
<1>8. QED  BY <1>5, <1>6, <1>7 DEF Locking

LEMMA WaitForEffectLocks == ASSUME Types, Locking, NEW n \in Nodes, WaitForEffect(n) PROVE Locking'
<1>1. /\ Nodes' = Nodes /\ \A m : ImgArgs(m)' = ImgArgs(m) /\ Fx(m)' = Fx(m)
  BY SameProgram DEF WaitForEffect, thread
<1>2. /\ UNCHANGED <<prog, phase, at, imgs, held, writer>> /\ WriteBlocked(Fx(n))
      /\ writer_waiting_' = writer_waiting_ \cup {Fx(n)}
  BY DEF WaitForEffect, thread
<1>3. Lockers'  BY <1>2, SameLockers DEF Locking
<1>4. Writers'  BY <1>1, <1>2 DEF Locking, Writers
<1>5. Waiting'
  <2>1. \A f : WriteBlocked(f)' = WriteBlocked(f)  BY <1>2 DEF WriteBlocked, Readers, Arg, Fx
  <2>2. QED  BY <1>2, <2>1 DEF Locking, Waiting
<1>6. QED  BY <1>3, <1>4, <1>5 DEF Locking

LEMMA ProcessLocks == ASSUME Types, Locking, NEW n \in Nodes, Process(n) PROVE Locking'
<1>1. /\ Nodes' = Nodes /\ \A m : ImgArgs(m)' = ImgArgs(m) /\ Fx(m)' = Fx(m)
  BY SameProgram DEF Process, thread
<1>2. /\ UNCHANGED <<prog, phase, imgs, held>> /\ at[n] = "process" /\ at' = [at EXCEPT ![n] = "unlock"]
      /\ writer' = [writer EXCEPT ![Fx(n)] = NoOne] /\ writer_waiting_' = writer_waiting_ \ {Fx(n)}
      /\ Fx(n) \in Effects /\ NoOne \notin Nodes /\ NoOne # Screen
  BY ProgramFacts DEF Process, ReleaseWrite, Goes, thread, Types
<1>3. \A m : Held(m)' = Held(m)  BY <1>2 DEF Held
<1>4. /\ at'[n] = "unlock" /\ \A m \in Nodes : m # n => at'[m] = at[m]
      /\ writer'[Fx(n)] = NoOne /\ \A f \in Effects : f # Fx(n) => writer'[f] = writer[f]
  BY <1>2 DEF Types
<1>5. Lockers'
  <2>1. \A m \in Nodes : /\ at'[m] \in {"lock", "process", "unlock"} <=> at[m] \in {"lock", "process", "unlock"}
                         /\ at'[m] = "lock" <=> at[m] = "lock"
                         /\ at'[m] = "process" => at[m] = "process"
    BY <1>2, <1>4
  <2>2. QED  BY <1>1, <1>2, <1>3, <2>1 DEF Locking, Lockers
<1>6. Writers'
  <2>1. ASSUME NEW f \in Effects
        PROVE  /\ writer'[f] \in Nodes => at'[writer'[f]] = "process" /\ Fx(writer'[f]) = f
               /\ writer'[f] = Screen => phase = "showing" /\ f = Fx(prog.root)
    <3>1. CASE f = Fx(n)  BY <1>2, <1>4, <3>1
    <3>2. CASE f # Fx(n)
      <4>1. writer[f] \in Nodes => writer[f] # n  BY <3>2 DEF Locking, Writers
      <4>2. QED  BY <1>4, <3>2, <4>1 DEF Locking, Writers
    <3>3. QED  BY <3>1, <3>2
  <2>2. QED  BY <1>1, <1>2, <2>1 DEF Writers
<1>7. Waiting'
  <2>1. \A f : Readers(f)' = Readers(f)  BY <1>2 DEF Readers, Arg, Fx
  <2>2. QED  BY <1>2, <1>4, <2>1 DEF Locking, Waiting, WriteBlocked, Types
<1>8. QED  BY <1>5, <1>6, <1>7 DEF Locking

LEMMA UnlockArgumentLocks == ASSUME Types, Locking, NEW n \in Nodes, UnlockArgument(n) PROVE Locking'
<1> DEFINE i == Len(imgs[n])
<1>1. /\ Nodes' = Nodes /\ \A m : ImgArgs(m)' = ImgArgs(m) /\ Fx(m)' = Fx(m)
  BY SameProgram DEF UnlockArgument, thread
<1>2. /\ UNCHANGED <<prog, at, phase, writer>> /\ at[n] = "unlock" /\ imgs[n] # <<>>
      /\ held' = held \ {<<n, i>>} /\ imgs' = [imgs EXCEPT ![n] = SubSeq(imgs[n], 1, i - 1)]
      /\ writer_waiting_' = IF Readers(Arg(n, i)) = {<<n, i>>}
                            THEN writer_waiting_ \ {Arg(n, i)} ELSE writer_waiting_
  BY DEF UnlockArgument, thread
<1>3. i \in Nat /\ i > 0 /\ Len(imgs'[n]) = i - 1 /\ \A m \in Nodes : m # n => imgs'[m] = imgs[m]
  <2>1. imgs[n] \in Seq(Nat)  BY DEF Types
  <2>2. i \in Nat /\ i > 0  BY <1>2, <2>1
  <2>3. Len(SubSeq(imgs[n], 1, i - 1)) = i - 1  BY <2>1, <2>2
  <2>4. QED  BY <1>2, <2>2, <2>3 DEF Types
<1>4. Lockers'
  <2>1. PICK k \in Nat : Held(n) = Prefix(n, k) /\ k = i
    BY <1>2 DEF Locking, Lockers
  <2>2. Held(n)' = Prefix(n, i - 1) /\ i - 1 \in Nat
    <3>1. Held(n)' = Held(n) \ {<<n, i>>}  BY <1>2 DEF Held
    <3>2. Prefix(n, i - 1) = Prefix(n, i) \ {<<n, i>>}  BY <1>3 DEF Prefix
    <3>3. QED  BY <1>3, <2>1, <3>1, <3>2
  <2>3. \A m \in Nodes : m # n => Held(m)' = Held(m)  BY <1>2 DEF Held
  <2>4. Len(ImgArgs(n)) \in Nat /\ i <= Len(ImgArgs(n))  BY ProgramFacts DEF Types, Locking, Lockers
  <2>5. ASSUME NEW m \in Nodes
        PROVE  /\ imgs'[m] # <<>> => at[m] \in {"lock", "process", "unlock"}
               /\ Len(imgs'[m]) <= Len(ImgArgs(m))
               /\ \E j \in Nat : /\ Held(m)' = Prefix(m, j) /\ j <= Len(imgs'[m]) /\ Len(imgs'[m]) <= j + 1
                                 /\ at[m] # "lock" => j = Len(imgs'[m])
               /\ at[m] = "process" => Len(imgs'[m]) = Len(ImgArgs(m))
    <3>1. CASE m # n  BY <1>3, <2>3, <3>1 DEF Locking, Lockers
    <3>2. CASE m = n
      <4>1. \E j \in Nat : Held(n)' = Prefix(n, j) /\ j = Len(imgs'[n])  BY <1>3, <2>2
      <4>2. Len(imgs'[n]) \in Nat /\ Len(imgs'[n]) <= Len(ImgArgs(n))  BY <1>3, <2>4
      <4>3. QED  BY <1>2, <3>2, <4>1, <4>2
    <3>3. QED  BY <3>1, <3>2
  <2>6. QED  BY <1>1, <1>2, <2>5 DEF Lockers
<1>5. Writers'  BY <1>1, <1>2 DEF Locking, Writers
<1>6. Waiting'
  <2>1. \A f : Readers(f)' = Readers(f) \ {<<n, i>>}  BY <1>2 DEF Readers, Arg, Fx
  <2>2. \A f : f # Arg(n, i) => <<n, i>> \notin Readers(f)  BY DEF Readers
  <2>3. SUFFICES ASSUME NEW f \in writer_waiting_' PROVE writer[f] # NoOne \/ Readers(f)' # {}
    BY <1>2 DEF Waiting, WriteBlocked
  <2>4. writer[f] # NoOne \/ Readers(f) # {}
    BY <1>2 DEF Locking, Waiting, WriteBlocked
  <2>5. CASE f # Arg(n, i)  BY <2>1, <2>2, <2>4, <2>5
  <2>6. CASE f = Arg(n, i)  BY <1>2, <2>1, <2>4, <2>6
  <2>7. QED  BY <2>5, <2>6
<1>7. QED  BY <1>4, <1>5, <1>6 DEF Locking

LEMMA ShowLocks == ASSUME Types, Walk, Locking, ShowBegins \/ ShowEnds PROVE Locking'
<1>1. /\ Nodes' = Nodes /\ \A m : Fx(m)' = Fx(m)
  BY SameProgram DEF ShowBegins, ShowEnds
<1>2. UNCHANGED <<prog, at, imgs, held>>  BY DEF ShowBegins, ShowEnds
<1>3. /\ prog.root \in Nodes /\ Fx(prog.root) \in Effects /\ NoOne # Screen
      /\ Screen \notin Nodes /\ NoOne \notin Nodes
  BY ProgramFacts DEF Types
<1>4. Lockers'  BY <1>2, SameLockers DEF Locking
<1>5. \A f : Readers(f)' = Readers(f)  BY <1>2 DEF Readers, Arg, Fx
<1>6. CASE ShowBegins
  <2>1. /\ phase' = "showing" /\ writer' = [writer EXCEPT ![Fx(prog.root)] = Screen]
        /\ writer_waiting_' = writer_waiting_ /\ phase = "show"
    BY <1>6 DEF ShowBegins, AcquireWrite
  <2>2. Writers'  BY <1>1, <1>2, <1>3, <2>1 DEF Types, Locking, Writers
  <2>3. Waiting'  BY <1>3, <1>5, <2>1 DEF Types, Locking, Waiting, WriteBlocked
  <2>4. QED  BY <1>4, <2>2, <2>3 DEF Locking
<1>7. CASE ShowEnds
  <2>1. /\ phase' = "top" /\ writer' = [writer EXCEPT ![Fx(prog.root)] = NoOne]
        /\ writer_waiting_' = writer_waiting_ \ {Fx(prog.root)}
    BY <1>7 DEF ShowEnds, ReleaseWrite
  <2>2. Writers'  BY <1>1, <1>2, <1>3, <2>1 DEF Types, Locking, Writers
  <2>3. Waiting'  BY <1>3, <1>5, <2>1 DEF Types, Locking, Waiting, WriteBlocked
  <2>4. QED  BY <1>4, <2>2, <2>3 DEF Locking
<1>8. QED  BY <1>6, <1>7

LEMMA LockingKept == Types /\ Walk /\ Locking /\ [Next]_vars => Locking'
<1> SUFFICES ASSUME Types, Walk, Locking, [Next]_vars PROVE Locking'  OBVIOUS
<1>1. Types'  BY TypesKept
<1>2. CASE Stop \/ LoopReturns \/ EvalReturns \/ UNCHANGED vars
  <2>1. UNCHANGED <<prog, at, locks>> /\ (phase = "showing" => phase' = "showing")
    BY <1>2 DEF Stop, LoopReturns, EvalReturns, vars, thread
  <2>2. QED  BY <2>1, SameLocking
<1>3. CASE BeginFrame
  <2>1. \A m \in Nodes : at[m] \in {"idle", "done"}  BY <1>3 DEF BeginFrame, Walk, Rest
  <2>2. \A m \in Nodes : imgs[m] = <<>>  BY <2>1, NothingHeld
  <2>3. \A m \in Nodes : at'[m] \in {"idle", "args"}  BY <1>3 DEF BeginFrame
  <2>4. UNCHANGED <<prog, locks>> /\ phase = "top"  BY <1>3 DEF BeginFrame
  <2>5. QED  BY <2>1, <2>2, <2>3, <2>4, SameLocking
<1>4. CASE NextItem \/ AddJob \/ ProcessHere
  <2>1. PICK n \in Nodes, x \in {"args", "queued", "test_image"} :
          /\ at' = [at EXCEPT ![n] = x] /\ at[n] \in {"idle", "args"}
          /\ UNCHANGED <<prog, phase, locks>>
    <3>1. CASE NextItem
      <4>1. LET c == Items(cur)[visited[cur] + 1] IN c \in Nodes /\ at[c] = "idle"
        <5>1. visited[cur] \in Nat /\ cur \in Nodes /\ visited[cur] + 1 \in DOMAIN Items(cur)
          BY <3>1, ItemFacts DEF Types, NextItem, Items
        <5>2. QED  BY <5>1, ItemFacts DEF Types, Walk, Begun
      <4>2. QED  BY <3>1, <4>1 DEF NextItem, Goes, Items
    <3>2. CASE AddJob \/ ProcessHere
      BY <3>2 DEF AddJob, ProcessHere, ArgumentsReady, Goes, thread, Types
    <3>3. QED  BY <1>4, <3>1, <3>2
  <2>2. imgs[n] = <<>>  BY <2>1 DEF Locking, Lockers
  <2>3. at[n] # "process" /\ at'[n] # "process" /\ \A m \in Nodes : m # n => at'[m] = at[m]
    BY <2>1 DEF Types
  <2>4. QED  BY <2>1, <2>2, <2>3, SameLocking
<1>5. CASE ShowBegins \/ ShowEnds  BY <1>5, ShowLocks
<1>6. CASE HandOut
  <2> DEFINE n == Head(queue)
  <2>1. /\ n \in Nodes /\ at[n] = "queued" /\ at' = [at EXCEPT ![n] = "test_image"]
        /\ UNCHANGED <<prog, phase, locks>>
    BY <1>6 DEF HandOut, Goes, thread, Types, Walk, Queue
  <2> HIDE DEF n
  <2>2. imgs[n] = <<>>  BY <2>1 DEF Locking, Lockers
  <2>3. at[n] # "process" /\ at'[n] # "process" /\ \A m \in Nodes : m # n => at'[m] = at[m]
    BY <2>1 DEF Types
  <2>4. QED  BY <2>1, <2>2, <2>3, SameLocking
<1>7. ASSUME NEW n \in Nodes, ProcessFx(n) PROVE Locking'
  <2>1. CASE FetchImage(n)  BY <2>1, FetchImageLocks
  <2>2. CASE LockArgument(n)  BY <2>2, LockArgumentLocks
  <2>3. CASE LockEffect(n)  BY <2>3, LockEffectLocks
  <2>4. CASE WaitForEffect(n)  BY <2>4, WaitForEffectLocks
  <2>5. CASE Process(n)  BY <2>5, ProcessLocks
  <2>6. CASE UnlockArgument(n)  BY <2>6, UnlockArgumentLocks
  <2>7. CASE TestImage(n) \/ TestTick(n) \/ Stamp(n) \/ StoreImage(n) \/ Finish(n)
    <3>1. /\ at[n] \in {"test_image", "test_tick", "stamp", "store"} \/ (at[n] = "unlock" /\ imgs[n] = <<>>)
          /\ \E x \in {"test_tick", "stamp", "lock", "store", "done"} : at' = [at EXCEPT ![n] = x]
          /\ UNCHANGED <<prog, phase, locks>>
      BY <2>7 DEF TestImage, TestTick, Stamp, StoreImage, Finish, Goes, thread
    <3>2. imgs[n] = <<>>  BY <3>1 DEF Locking, Lockers
    <3>3. at[n] # "process" /\ at'[n] # "process" /\ \A m \in Nodes : m # n => at'[m] = at[m]
      BY <3>1 DEF Types
    <3>4. QED  BY <3>1, <3>2, <3>3, SameLocking
  <2>8. QED  BY <1>7, <2>1, <2>2, <2>3, <2>4, <2>5, <2>6, <2>7 DEF ProcessFx
<1>8. QED  BY <1>2, <1>3, <1>4, <1>5, <1>6, <1>7 DEF Next, Loop, Over

-----------------------------------------------------------------------------
(* The stamps of the effects that stand at one place.                      *)

LEMMA StampsInit == Init => Stamps
BY ProgramFacts DEF Init, Stamps, Stamped

LEMMA StampsKept == Types /\ Walk /\ Stamps /\ [Next]_vars => Stamps'
<1> SUFFICES ASSUME Types, Walk, Stamps, [Next]_vars PROVE Stamps'  OBVIOUS
<1>1. prog' = prog /\ Nodes' = Nodes /\ \A m : Fx(m)' = Fx(m)
  <2>1. \A n \in Nodes : ProcessFx(n) => prog' = prog  BY ProcessFxSteps
  <2>2. prog' = prog
    BY <2>1 DEF Next, Loop, Over, Stop, BeginFrame, LoopReturns, NextItem, AddJob, ProcessHere,
       EvalReturns, ShowBegins, ShowEnds, HandOut, vars, thread
  <2>3. QED  BY <2>2, SameProgram
<1>2. /\ \A m \in Nodes : Fx(m) \in Effects
      /\ ticker \in Nat /\ \A f \in Effects : tick_[f] \in 0..ticker /\ image_[f] \in Nat
  BY ProgramFacts, EvaluatorAssumption DEF Types
<1>3. SUFFICES ASSUME NEW n \in Nodes, Alone(n), Stamped(n) PROVE Stamped(n)'
  BY <1>1 DEF Stamps, Alone
<1> DEFINE f == Fx(n)
<1>4. f \in Effects /\ Fx(n)' = f  BY <1>1, <1>2
<1>5. tick_[f] \in 0..ticker /\ image_[f] \in Nat  BY <1>2, <1>4
<1>6. CASE BeginFrame
  <2>1. /\ calls'[f] = 0 /\ tick_'[f] = tick_[f] /\ ticker' = ticker + 1 /\ at'[n] \in {"idle", "args"}
    BY <1>4, <1>6 DEF BeginFrame
  <2>2. QED  BY <1>2, <1>4, <1>5, <2>1 DEF Stamped
<1>7. CASE NextItem \/ AddJob \/ ProcessHere \/ HandOut
  <2>1. PICK m \in Nodes, x \in {"args", "queued", "test_image"} :
          at[m] \in {"idle", "args", "queued"} /\ at' = [at EXCEPT ![m] = x]
    <3>1. CASE NextItem
      <4>1. LET c == Items(cur)[visited[cur] + 1] IN c \in Nodes /\ at[c] = "idle"
        <5>1. visited[cur] \in Nat /\ cur \in Nodes /\ visited[cur] + 1 \in DOMAIN Items(cur)
          BY <3>1, ItemFacts DEF Types, NextItem, Items
        <5>2. QED  BY <5>1, ItemFacts DEF Types, Walk, Begun
      <4>2. QED  BY <3>1, <4>1 DEF NextItem, Goes, Items
    <3>2. CASE AddJob \/ ProcessHere
      BY <3>2 DEF AddJob, ProcessHere, ArgumentsReady, Goes, Types
    <3>3. CASE HandOut
      <4>1. Head(queue) \in Nodes /\ at[Head(queue)] = "queued"  BY <3>3 DEF HandOut, Types, Walk, Queue
      <4>2. QED  BY <3>3, <4>1 DEF HandOut, Goes
    <3>4. QED  BY <1>7, <3>1, <3>2, <3>3
  <2>2. UNCHANGED <<ticker, tick_, image_, calls>>
    BY <1>7 DEF NextItem, AddJob, ProcessHere, HandOut
  <2>3. at'[n] = at[n] \/ (at[n] \in {"idle", "args", "queued"} /\ at'[n] \in {"args", "queued", "test_image"})
    BY <2>1 DEF Types
  <2>4. QED  BY <1>3, <1>4, <2>2, <2>3 DEF Stamped
<1>8. CASE Stop \/ LoopReturns \/ EvalReturns \/ ShowBegins \/ ShowEnds \/ UNCHANGED vars
  <2>1. UNCHANGED <<at, ticker, tick_, image_, calls>>
    BY <1>8 DEF Stop, LoopReturns, EvalReturns, ShowBegins, ShowEnds, vars, thread
  <2>2. QED  BY <1>3, <1>4, <2>1 DEF Stamped
<1>9. ASSUME NEW m \in Nodes, ProcessFx(m), m # n PROVE Stamped(n)'
  <2>1. Fx(m) # f /\ Fx(m) \in Effects  BY <1>2, <1>3, <1>9 DEF Alone
  <2>2. at'[n] = at[n] /\ ticker' = ticker
    BY <1>9, ProcessFxSteps DEF Types
  <2>3. calls'[f] = calls[f]
    BY <1>4, <1>9, <2>1 DEF Types, ProcessFx, TestImage, TestTick, Stamp, FetchImage, LockArgument, LockEffect,
       WaitForEffect, Process, UnlockArgument, StoreImage, Finish
  <2>4. tick_'[f] = tick_[f]
    BY <1>4, <1>9, <2>1 DEF Types, ProcessFx, TestImage, TestTick, Stamp, FetchImage, LockArgument, LockEffect,
       WaitForEffect, Process, UnlockArgument, StoreImage, Finish
  <2>5. image_'[f] = image_[f]
    BY <1>4, <1>9, <2>1 DEF Types, ProcessFx, TestImage, TestTick, Stamp, FetchImage, LockArgument, LockEffect,
       WaitForEffect, Process, UnlockArgument, StoreImage, Finish
  <2>6. QED  BY <1>3, <1>4, <2>2, <2>3, <2>4, <2>5 DEF Stamped
<1>10. CASE ProcessFx(n)
  <2>1. ticker > 0 /\ ticker' = ticker
    BY <1>2, <1>10, ProcessFxSteps DEF Walk, Rest, Working
  <2>2. CASE TestImage(n)
    <3>1. /\ at[n] = "test_image" /\ at'[n] = (IF image_[f] = 0 THEN "stamp" ELSE "test_tick")
          /\ UNCHANGED <<tick_, image_, calls>>
      BY <2>2 DEF TestImage, Goes, Types
    <3>2. QED  BY <1>3, <1>4, <2>1, <3>1 DEF Stamped
  <2>3. CASE TestTick(n)
    <3>1. /\ at[n] = "test_tick" /\ UNCHANGED <<tick_, image_, calls>>
          /\ at'[n] = (IF f \notin Static /\ tick_[f] < ticker THEN "stamp" ELSE "store")
      BY <2>3 DEF TestTick, Goes, Types
    <3>2. QED  BY <1>3, <1>4, <1>5, <2>1, <3>1 DEF Stamped
  <2>4. CASE Stamp(n)
    <3>1. at[n] = "stamp" /\ at'[n] = "lock" /\ tick_'[f] = ticker /\ UNCHANGED <<image_, calls>>
      BY <1>4, <2>4 DEF Stamp, Goes, Types
    <3>2. QED  BY <1>3, <1>4, <2>1, <3>1 DEF Stamped
  <2>5. CASE FetchImage(n) \/ LockArgument(n) \/ WaitForEffect(n) \/ UnlockArgument(n)
    <3>1. UNCHANGED <<at, tick_, image_, calls>>
      BY <2>5 DEF FetchImage, LockArgument, WaitForEffect, UnlockArgument
    <3>2. QED  BY <1>3, <1>4, <2>1, <3>1 DEF Stamped
  <2>6. CASE LockEffect(n)
    <3>1. at[n] = "lock" /\ at'[n] = "process" /\ UNCHANGED <<tick_, image_, calls>>
      BY <2>6 DEF LockEffect, ArgumentsLocked, Goes, Types
    <3>2. QED  BY <1>3, <1>4, <2>1, <3>1 DEF Stamped
  <2>7. CASE Process(n)
    <3>1. /\ at[n] = "process" /\ at'[n] = "unlock" /\ UNCHANGED <<tick_, image_>>
          /\ calls'[f] = (IF calls[f] = 2 THEN 2 ELSE calls[f] + 1)
      BY <1>4, <2>7 DEF Process, Goes, Types
    <3>2. QED  BY <1>3, <1>4, <2>1, <3>1 DEF Stamped
  <2>8. CASE StoreImage(n)
    <3>1. at[n] = "unlock" /\ at'[n] = "test_tick" /\ image_'[f] = ticker /\ UNCHANGED <<tick_, calls>>
      BY <1>4, <2>8 DEF StoreImage, Goes, Types
    <3>2. QED  BY <1>3, <1>4, <2>1, <3>1 DEF Stamped
  <2>9. CASE Finish(n)
    <3>1. at[n] = "store" /\ at'[n] = "done" /\ UNCHANGED <<tick_, image_, calls>>
      BY <2>9 DEF Finish, Goes, Types
    <3>2. QED  BY <1>3, <1>4, <2>1, <3>1 DEF Stamped
  <2>10. QED  BY <1>10, <2>2, <2>3, <2>4, <2>5, <2>6, <2>7, <2>8, <2>9 DEF ProcessFx
<1>11. QED  BY <1>6, <1>7, <1>8, <1>9, <1>10 DEF Next, Loop, Over

-----------------------------------------------------------------------------
(* The images an effect is given.                                          *)

\* What is evaluated for the sake of a node has not begun before the node has.
LEMMA IdleWithin ==
    ASSUME Types, Walk, NEW n \in Nodes, at[n] = "idle"
    PROVE  \A m \in Within(prog, n) : at[m] = "idle"
<1> DEFINE S == {m \in Nodes : at[m] = "idle"}
<1>1. \A x \in S : \A i \in DOMAIN Items(x) : Items(x)[i] \in S
  BY ItemFacts DEF Types, Walk, Begun
<1>2. n \in S /\ S \in SUBSET Nodes  OBVIOUS
<1>3. Within(prog, n) \subseteq S
  <2> HIDE DEF S
  <2> QED  BY <1>1, <1>2, Closed DEF Types
<1>4. QED  BY <1>3

\* When a node has all of its argument list, its image arguments are done,
\* also the ones that were made before, higher up in the tree.
LEMMA ArgumentsDone ==
    ASSUME Types, Walk, NEW n \in Nodes, at[n] \notin {"idle", "args"}, NEW k \in DOMAIN ImgArgs(n)
    PROVE  ImgArgs(n)[k] \in Nodes /\ at[ImgArgs(n)[k]] = "done"
<1> DEFINE m == ImgArgs(n)[k]
<1>1. m \in Nodes  BY ProgramFacts DEF Types
<1>2. InScope(prog, m, n)  BY ProgramFacts DEF Types, IsProgram, Nodes, ImgArgs
<1> SUFFICES at[m] = "done"  BY <1>1
<1> HIDE DEF m
<1>3. CASE Item(prog, n, m)  BY <1>3 DEF Item, Items, Walk, Ready
<1>4. CASE /\ ~Job(m)
           /\ \E a \in Nodes : \E i, j \in DOMAIN Items(a) :
                 i < j /\ Items(a)[i] = m /\ n \in Within(prog, Items(a)[j])
  <2> PICK a \in Nodes : \E i, j \in DOMAIN Items(a) :
          i < j /\ Items(a)[i] = m /\ n \in Within(prog, Items(a)[j])
    BY <1>4
  <2>1. PICK i, j \in DOMAIN Items(a) : i < j /\ Items(a)[i] = m /\ n \in Within(prog, Items(a)[j])
    OBVIOUS
  <2>2. Items(a)[j] \in Nodes /\ i \in Nat /\ j \in Nat /\ visited[a] \in Nat
    BY ItemFacts DEF Types
  <2>3. at[Items(a)[j]] # "idle"  BY <2>1, <2>2, IdleWithin
  <2>4. i < visited[a]  BY <2>1, <2>2, <2>3 DEF Walk, Begun
  <2>5. Passed(m)  BY <2>1, <2>4 DEF Walk, Behind
  <2>6. QED  BY <1>4, <2>5 DEF Passed
<1>5. QED  BY <1>2, <1>3, <1>4 DEF InScope, Job, Nodes, Items

\* An effect that is done, and stands at no other place, has an image of this
\* frame.
LEMMA DoneIsCurrent ==
    ASSUME Types, Walk, Stamps, NEW m \in Nodes, Alone(m), at[m] = "done"
    PROVE  Current(Fx(m), image_[Fx(m)])
<1>1. Stamped(m)  BY DEF Stamps
<1>2. QED  BY <1>1 DEF Stamped, Current

LEMMA FetchedInit == Init => Fetched
BY DEF Init, Fetched

LEMMA FetchedKept == Types /\ Walk /\ Locking /\ Stamps /\ Fetched /\ [Next]_vars => Fetched'
<1> SUFFICES ASSUME Types, Walk, Locking, Stamps, Fetched, [Next]_vars PROVE Fetched'  OBVIOUS
<1>1. prog' = prog
  <2>1. \A n \in Nodes : ProcessFx(n) => prog' = prog  BY ProcessFxSteps
  <2>2. QED
    BY <2>1 DEF Next, Loop, Over, Stop, BeginFrame, LoopReturns, NextItem, AddJob, ProcessHere,
       EvalReturns, ShowBegins, ShowEnds, HandOut, vars, thread
<1>2. /\ Nodes' = Nodes /\ \A m : Fx(m)' = Fx(m) /\ ImgArgs(m)' = ImgArgs(m)
      /\ \A m, i : Arg(m, i)' = Arg(m, i)
  BY <1>1, SameProgram DEF Arg, Fx
<1>3. SUFFICES ASSUME NEW n \in Nodes, at'[n] \in {"lock", "process"},
                      NEW i \in DOMAIN (imgs'[n]), Alone(ImgArgs(n)[i])
               PROVE  IF Arg(n, i) \in Static THEN imgs'[n][i] # 0 ELSE imgs'[n][i] = ticker'
  BY <1>2 DEF Fetched, Alone, Current
<1>4. CASE UNCHANGED <<ticker, imgs>> /\ at[n] \in {"lock", "process"}
  BY <1>3, <1>4 DEF Fetched, Current
<1>5. CASE UNCHANGED <<at, ticker, imgs>>  BY <1>3, <1>4, <1>5
<1>6. CASE BeginFrame  BY <1>3, <1>6 DEF BeginFrame
<1>7. CASE NextItem \/ AddJob \/ ProcessHere \/ HandOut
  <2>1. UNCHANGED <<ticker, imgs>>  BY <1>7 DEF NextItem, AddJob, ProcessHere, HandOut, locks
  <2>2. at'[n] = at[n]
    BY <1>3, <1>7 DEF NextItem, AddJob, ProcessHere, HandOut, Goes, Types
  <2>3. QED  BY <1>3, <1>4, <2>1, <2>2
<1>8. CASE Stop \/ LoopReturns \/ EvalReturns \/ ShowBegins \/ ShowEnds \/ UNCHANGED vars
  BY <1>5, <1>8 DEF Stop, LoopReturns, EvalReturns, ShowBegins, ShowEnds, vars, thread, locks
<1>9. ASSUME NEW m \in Nodes, ProcessFx(m), m # n
      PROVE  IF Arg(n, i) \in Static THEN imgs'[n][i] # 0 ELSE imgs'[n][i] = ticker'
  <2>1. at'[n] = at[n] /\ ticker' = ticker  BY <1>9, ProcessFxSteps DEF Types
  <2>2. imgs'[n] = imgs[n]
    BY <1>9 DEF Types, ProcessFx, TestImage, TestTick, Stamp, FetchImage, LockArgument, LockEffect,
       WaitForEffect, Process, UnlockArgument, StoreImage, Finish, locks
  <2>3. QED  BY <1>3, <2>1, <2>2 DEF Fetched, Current
<1>10. CASE ProcessFx(n)
  <2>1. CASE Stamp(n)
    <3>1. at[n] = "stamp" /\ imgs' = imgs  BY <2>1 DEF Stamp, locks
    <3>2. imgs'[n] = <<>>  BY <3>1 DEF Locking, Lockers
    <3>3. QED  BY <1>3, <3>2
  <2>2. CASE FetchImage(n)
    <3>1. /\ at[n] = "lock" /\ UNCHANGED <<ticker, at>>
          /\ imgs'[n] = Append(imgs[n], image_[Arg(n, Len(imgs[n]) + 1)])
          /\ imgs[n] \in Seq(Nat) /\ Len(imgs[n]) < Len(ImgArgs(n)) /\ ImgArgs(n) \in Seq(Nodes)
      BY <2>2, ProgramFacts DEF FetchImage, thread, Types, ImgArgs
    <3>2. CASE i \in DOMAIN imgs[n]
      <4>1. imgs'[n][i] = imgs[n][i]  BY <3>1, <3>2
      <4>2. QED  BY <1>3, <3>1, <3>2, <4>1 DEF Fetched, Current
    <3>3. CASE i = Len(imgs[n]) + 1
      <4>1. i \in DOMAIN ImgArgs(n) /\ imgs'[n][i] = image_[Arg(n, i)]  BY <3>1, <3>3
      <4>2. ImgArgs(n)[i] \in Nodes /\ at[ImgArgs(n)[i]] = "done"  BY <3>1, <4>1, ArgumentsDone
      <4>3. Current(Arg(n, i), image_[Arg(n, i)])
        BY <1>3, <4>2, DoneIsCurrent DEF Arg, ImgArgs
      <4>4. QED  BY <3>1, <4>1, <4>3 DEF Current
    <3>4. QED  BY <3>1, <3>2, <3>3
  <2>3. CASE LockArgument(n) \/ WaitForEffect(n)
    BY <1>5, <2>3 DEF LockArgument, WaitForEffect, thread
  <2>4. CASE LockEffect(n)
    BY <1>4, <2>4 DEF LockEffect, ArgumentsLocked
  <2>5. CASE TestImage(n) \/ TestTick(n) \/ Process(n) \/ UnlockArgument(n) \/ StoreImage(n) \/ Finish(n)
    BY <1>3, <2>5 DEF TestImage, TestTick, Process, UnlockArgument, StoreImage, Finish, Goes, Types
  <2>6. QED  BY <1>10, <2>1, <2>2, <2>3, <2>4, <2>5 DEF ProcessFx
<1>11. QED  BY <1>6, <1>7, <1>8, <1>9, <1>10 DEF Next, Loop, Over

-----------------------------------------------------------------------------
(* The theorems.                                                           *)

LEMMA IInvAlways == Spec => []IInv
<1>1. Init => IInv
  BY TypesInit, WalkInit, LockingInit, StampsInit, FetchedInit DEF IInv
<1>2. IInv /\ [Next]_vars => IInv'
  BY TypesKept, WalkKept, LockingKept, StampsKept, FetchedKept DEF IInv
<1>3. QED  BY <1>1, <1>2, PTL DEF Spec

\* The nodes, the pool's queue, the frames' stamps and the locks stay within
\* the types of eval.hpp and fx_fwd.hpp; a lock is held at a node only while
\* that node is being processed.
THEOREM TypeCorrect == Spec => []TypeOK
<1>1. IInv => TypeOK
  <2> SUFFICES ASSUME IInv PROVE TypeOK  OBVIOUS
  <2>1. \A n \in Nodes : visited[n] \in 0..Len(prog.evals[n])
    <3>1. \A n \in Nodes : Len(prog.evals[n]) \in Nat  BY ItemFacts DEF IInv, Types, Items
    <3>2. QED  BY <3>1 DEF IInv, Types, Walk, Begun, Items
  <2>2. ASSUME NEW l \in held PROVE l[1] \in Nodes /\ l[2] \in DOMAIN imgs[l[1]]
    <3>1. l[1] \in Nodes /\ l \in Held(l[1]) /\ imgs[l[1]] \in Seq(Nat)  BY DEF IInv, Types, Held
    <3>2. PICK k \in Nat : Held(l[1]) = Prefix(l[1], k) /\ k <= Len(imgs[l[1]])
      BY <3>1 DEF IInv, Locking, Lockers
    <3>3. PICK i \in 1..k : l = <<l[1], i>>  BY <3>1, <3>2 DEF Prefix
    <3>4. QED  BY <3>1, <3>2, <3>3
  <2>3. \A n \in Nodes : imgs[n] # <<>> => at[n] \in {"lock", "process", "unlock"}
    BY DEF IInv, Locking, Lockers
  <2>4. \A f \in Effects : writer[f] \in Nodes => at[writer[f]] = "process"
    BY DEF IInv, Locking, Writers
  <2>5. \A i \in DOMAIN queue : at[queue[i]] = "queued"
    BY DEF IInv, Walk, Queue
  <2>6. at \in [Nodes -> {"idle", "args", "queued", "test_image", "test_tick", "stamp",
                          "lock", "process", "unlock", "store", "done"}]
    BY DEF IInv, Types, Stages, Working
  <2>7. QED  BY <2>1, <2>2, <2>3, <2>4, <2>5, <2>6 DEF IInv, Types, TypeOK
<1>2. QED  BY <1>1, IInvAlways, PTL

\* An effect that stands at one place stands at no other.
LEMMA SoleIsAlone ==
    ASSUME prog \in Programs, NEW m \in Nodes, Fx(m) \in Sole
    PROVE  Alone(m)
<1> DEFINE S == {n \in Nodes : Fx(n) = Fx(m)}
<1>1. Cardinality(S) = 1  BY DEF Sole
<1>2. IsFiniteSet(S)  BY ProgramFacts, FS_Subset
<1>3. \E x : S = {x}  BY <1>1, <1>2, FS_Singleton
<1>4. QED  BY <1>3 DEF Alone

\* However many workers there are and however the jobs overtake one another,
\* an effect is given the images of this frame, although it fetches them
\* before it holds their read locks (fx.hpp:23-28); and so is the screen.
THEOREM ImagesAreFresh == Spec => []FreshImages
<1>1. IInv => FreshImages
  <2> SUFFICES ASSUME IInv PROVE FreshImages  OBVIOUS
  <2>1. prog \in Programs  BY DEF IInv, Types
  <2>2. ASSUME NEW n \in Nodes, at[n] = "process", NEW i \in DOMAIN prog.args[n], Arg(n, i) \in Sole
        PROVE  Current(Arg(n, i), imgs[n][i])
    <3>1. Len(imgs[n]) = Len(ImgArgs(n)) /\ imgs[n] \in Seq(Nat) /\ ImgArgs(n) \in Seq(Nodes)
      BY <2>2, ProgramFacts DEF IInv, Types, Locking, Lockers
    <3>2. i \in DOMAIN imgs[n] /\ ImgArgs(n)[i] \in Nodes  BY <2>2, <3>1 DEF ImgArgs
    <3>3. Alone(ImgArgs(n)[i])  BY <2>1, <2>2, <3>2, SoleIsAlone DEF Arg, ImgArgs
    <3>4. QED  BY <2>2, <3>2, <3>3 DEF IInv, Fetched
  <2>3. ASSUME phase = "showing", Fx(prog.root) \in Sole
        PROVE  Current(Fx(prog.root), image_[Fx(prog.root)])
    <3>1. prog.root \in Nodes /\ at[prog.root] = "done"  BY <2>1, <2>3, ProgramFacts DEF IInv, Walk, Rest
    <3>2. Alone(prog.root)  BY <2>1, <2>3, <3>1, SoleIsAlone
    <3>3. QED  BY <3>1, <3>2, DoneIsCurrent DEF IInv
  <2>4. QED  BY <2>2, <2>3 DEF FreshImages
<1>2. QED  BY <1>1, IInvAlways, PTL

\* The two tests of process_fx (fx_fwd.hpp:98-108) let an effect that stands
\* at one place be processed once in a frame, and not left out of it.
THEOREM ProcessedOnce == Spec => []OncePerFrame
<1>1. IInv => OncePerFrame
  <2> SUFFICES ASSUME IInv, NEW f \in Sole
               PROVE  calls[f] <= 1 /\ (phase = "showing" /\ f \notin Static => calls[f] = 1)
    BY DEF OncePerFrame
  <2> DEFINE S == {n \in Nodes : Fx(n) = f}
  <2>1. prog \in Programs  BY DEF IInv, Types
  <2>2. \E n : S = {n}
    <3>1. Cardinality(S) = 1  BY DEF Sole
    <3>2. IsFiniteSet(S)  BY <2>1, ProgramFacts, FS_Subset
    <3>3. QED  BY <3>1, <3>2, FS_Singleton
  <2>3. PICK n \in Nodes : Fx(n) = f  BY <2>2
  <2>4. Alone(n)  BY <2>1, <2>3, SoleIsAlone
  <2>5. Stamped(n)  BY <2>4 DEF IInv, Stamps
  <2>6. at[n] \in Stages  BY DEF IInv, Types
  <2>7. calls[f] <= 1  BY <2>3, <2>5, <2>6 DEF Stamped, Stages, Working
  <2>8. phase = "showing" => at[n] = "done"  BY DEF IInv, Walk, Rest
  <2>9. QED  BY <2>3, <2>5, <2>7, <2>8 DEF Stamped
<1>2. QED  BY <1>1, IInvAlways, PTL

\* Between two evaluations no job is queued or running and no lock is held:
\* when the outermost node is done, so is the whole tree.
THEOREM NothingStaysBehind == Spec => []NothingLeftBehind
<1>1. IInv => NothingLeftBehind
  <2> SUFFICES ASSUME IInv, phase \in {"show", "top", "over"}
               PROVE  /\ queue = <<>> /\ \A n \in Nodes : at[n] \in {"idle", "done"}
                      /\ held = {} /\ writer_waiting_ = {}
                      /\ \A f \in Effects : writer[f] = NoOne
    BY DEF NothingLeftBehind
  <2>1. \A n \in Nodes : at[n] \in {"idle", "done"}  BY DEF IInv, Walk, Rest
  <2>2. queue = <<>>
    <3>1. queue \in Seq(Nodes) /\ \A i \in DOMAIN queue : queue[i] \in Nodes /\ at[queue[i]] = "queued"
      BY DEF IInv, Types, Walk, Queue
    <3>2. DOMAIN queue = {}  BY <2>1, <3>1
    <3>3. QED  BY <3>1, <3>2
  <2>3. held = {} /\ \A f \in Effects : writer[f] \notin Nodes
    BY <2>1, NothingHeld DEF IInv
  <2>4. \A f \in Effects : writer[f] = NoOne
    BY <2>3 DEF IInv, Types, Locking, Writers
  <2>5. writer_waiting_ = {}
    BY <2>3, <2>4 DEF IInv, Types, Locking, Waiting, WriteBlocked, Readers
  <2>6. QED  BY <2>1, <2>2, <2>3, <2>4, <2>5
<1>2. QED  BY <1>1, IInvAlways, PTL
=============================================================================
