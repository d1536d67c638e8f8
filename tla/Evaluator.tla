----------------------------- MODULE Evaluator -----------------------------
(***************************************************************************)
(* The evaluation of a picture, frame after frame: the effect thread of    *)
(* zoov.cpp, evlist and the evaluator's jobs of scheme/eval.hpp, and the   *)
(* processing of one effect, scheme/fx_fwd.hpp and scheme/fx.hpp.          *)
(*                                                                         *)
(* A program is what the interpreter walks through in one frame.  A node   *)
(* is one place where an effect is applied.  An application that stands in *)
(* an argument list becomes a job of the worker pool; any other one (the   *)
(* outermost, the body of a function, a let) is carried out by the effect  *)
(* thread itself.  A recursive function applies one effect at several      *)
(* nodes.  Numbers, strings and environments are left out.                 *)
(*                                                                         *)
(* A step is one access to what threads share.  Images are known by the    *)
(* frame they were made in, 0 for none.  The pool hands out jobs in their  *)
(* order, as TaskPool promises, and each effect's rwmutex is the one of    *)
(* module RWMutex with its sleepers left out: who may go in goes in.       *)
(***************************************************************************)
EXTENDS Naturals, Sequences, FiniteSets

CONSTANTS
    Effects,
    Static,       \* the effects whose has_changed() is false
    Programs,
    NoOne, Screen,
    PoolSize,     \* 10 in the code
    MaxTicker     \* bound on the number of frames

\* A program is a record:
\*   fx     node -> the effect it applies (the nodes are its domain)
\*   evals  node -> the nodes evaluated, in order, within its argument list
\*   args   node -> the nodes whose images are its image arguments
\*   jobs   the nodes that stand in an argument list
\*   root   the outermost node
\* Left out: effects in the argument list of a function, which are jobs that are
\* over before its body begins.
Item(p, n, m) == \E i \in DOMAIN p.evals[n] : p.evals[n][i] = m

\* All that is evaluated for the sake of n.
Within(p, n) ==
    {m \in DOMAIN p.fx :
        \A S \in SUBSET DOMAIN p.fx :
            n \in S /\ (\A x \in S, y \in DOMAIN p.fx : Item(p, x, y) => y \in S) => m \in S}

\* The argument lists make a tree of the nodes: every node but the root stands
\* in one place, and is reached from the root.
IsTree(p) ==
    /\ p.root \in DOMAIN p.fx /\ Within(p, p.root) = DOMAIN p.fx
    /\ \A n, m \in DOMAIN p.fx :
          \A i \in DOMAIN p.evals[n], j \in DOMAIN p.evals[m] :
              /\ p.evals[n][i] # p.root
              /\ p.evals[n][i] = p.evals[m][j] => n = m /\ i = j

\* The image m of an argument of n is made in n's own argument list; or the
\* effect thread has made it itself, and given it a name that n is evaluated under.
InScope(p, m, n) ==
    \/ Item(p, n, m)
    \/ /\ m \notin p.jobs
       /\ \E a \in DOMAIN p.fx : \E i, j \in DOMAIN p.evals[a] :
             i < j /\ p.evals[a][i] = m /\ n \in Within(p, p.evals[a][j])

IsProgram(p) ==
    /\ IsFiniteSet(DOMAIN p.fx) /\ p.fx \in [DOMAIN p.fx -> Effects]
    /\ p.evals \in [DOMAIN p.fx -> Seq(DOMAIN p.fx)]
    /\ p.args \in [DOMAIN p.fx -> Seq(DOMAIN p.fx)]
    /\ p.jobs \subseteq DOMAIN p.fx \ {p.root}
    /\ {NoOne, Screen} \cap DOMAIN p.fx = {}
    /\ IsTree(p)
    /\ \A n \in DOMAIN p.fx : \A i \in DOMAIN p.args[n] : InScope(p, p.args[n][i], n)

ASSUME EvaluatorAssumption ==
    /\ PoolSize \in Nat \ {0} /\ MaxTicker \in Nat
    /\ Screen # NoOne
    /\ \A p \in Programs : IsProgram(p)

VARIABLES
    prog,
    is_running_, phase,  \* the effect thread: its flag, and where it is in loop()
    cur,                 \* the node it evaluates
    visited,             \* how far it is in each node's argument list
    at,                  \* how far each node has come in this frame
    queue,               \* the jobs waiting in the pool
    ticker, tick_, image_,
    imgs,                \* a node's fx_lockers: the images they have fetched,
    held,                \*   and those that hold their read lock
    writer,              \* who holds each effect's write lock
    writer_waiting_,     \* the effects whose rwmutex keeps readers out
    calls                \* history: how often process() ran in this frame (2 for more)

thread == <<prog, is_running_, phase, cur, visited>>
locks  == <<imgs, held, writer, writer_waiting_>>
vars   == <<thread, at, queue, ticker, tick_, image_, locks, calls>>

Nodes == DOMAIN prog.fx
Fx(n) == prog.fx[n]
Arg(n, i) == Fx(prog.args[n][i])
Job(n) == n \in prog.jobs
Held(n) == {l \in held : l[1] = n}
Parent(n) == CHOOSE p \in Nodes : \E i \in DOMAIN prog.evals[p] : prog.evals[p][i] = n

Init ==
    /\ prog \in Programs
    /\ is_running_ = TRUE /\ phase = "top" /\ cur = prog.root
    /\ visited = [n \in Nodes |-> 0]
    /\ at = [n \in Nodes |-> "idle"]
    /\ queue = <<>>
    /\ ticker = 0
    /\ tick_ = [f \in Effects |-> 0] /\ image_ = [f \in Effects |-> 0]
    /\ imgs = [n \in Nodes |-> <<>>] /\ held = {}
    /\ writer = [f \in Effects |-> NoOne] /\ writer_waiting_ = {}
    /\ calls = [f \in Effects |-> 0]

Goes(n, x) == at' = [at EXCEPT ![n] = x]

-----------------------------------------------------------------------------
(* The effect thread: one frame after the other, until it is stopped.      *)

BeginFrame ==
    /\ phase = "top" /\ is_running_
    /\ ticker < MaxTicker
    /\ ticker' = ticker + 1
    /\ phase' = "eval" /\ cur' = prog.root
    /\ visited' = [n \in Nodes |-> 0]
    /\ at' = [n \in Nodes |-> IF n = prog.root THEN "args" ELSE "idle"]
    /\ calls' = [f \in Effects |-> 0]
    /\ UNCHANGED <<prog, is_running_, queue, tick_, image_, locks>>

Stop ==
    /\ is_running_
    /\ is_running_' = FALSE
    /\ UNCHANGED <<prog, phase, cur, visited, at, queue, ticker, tick_, image_, locks, calls>>

LoopReturns ==
    /\ phase = "top" /\ ~is_running_
    /\ phase' = "over"
    /\ UNCHANGED <<prog, is_running_, cur, visited, at, queue, ticker, tick_, image_, locks, calls>>

\* evlist goes on to the next item of the list.
NextItem ==
    /\ phase = "eval" /\ at[cur] = "args"
    /\ visited[cur] < Len(prog.evals[cur])
    /\ visited' = [visited EXCEPT ![cur] = @ + 1]
    /\ cur' = prog.evals[cur][visited[cur] + 1]
    /\ Goes(cur', "args")
    /\ UNCHANGED <<prog, is_running_, phase, queue, ticker, tick_, image_, locks, calls>>

\* (An operator whose comment begins "Broken:" is a wrong version of the one
\* that follows it; no specification uses it.)

\* Broken: evlist returns without evx.wait().
ArgumentsAdded(n) == at[n] = "args" /\ visited[n] = Len(prog.evals[n])

\* The list is through, and evx.wait() has seen all of its jobs done.
ArgumentsReady(n) ==
    /\ at[n] = "args" /\ visited[n] = Len(prog.evals[n])
    /\ \A i \in DOMAIN prog.evals[n] : at[prog.evals[n][i]] = "done"

AddJob ==
    /\ phase = "eval" /\ Job(cur) /\ ArgumentsReady(cur)
    /\ queue' = Append(queue, cur)
    /\ Goes(cur, "queued")
    /\ cur' = Parent(cur)
    /\ UNCHANGED <<prog, is_running_, phase, visited, ticker, tick_, image_, locks, calls>>

ProcessHere ==
    /\ phase = "eval" /\ ~Job(cur) /\ ArgumentsReady(cur)
    /\ Goes(cur, "test_image")
    /\ UNCHANGED <<thread, queue, ticker, tick_, image_, locks, calls>>

EvalReturns ==
    /\ phase = "eval" /\ ~Job(cur) /\ at[cur] = "done"
    /\ IF cur = prog.root
       THEN phase' = "show" /\ UNCHANGED cur
       ELSE cur' = Parent(cur) /\ UNCHANGED phase
    /\ UNCHANGED <<prog, is_running_, visited, at, queue, ticker, tick_, image_, locks, calls>>

HandOut ==
    /\ queue # <<>>
    /\ Cardinality({n \in prog.jobs : at[n] \notin {"idle", "args", "queued", "done"}}) < PoolSize
    /\ queue' = Tail(queue)
    /\ Goes(Head(queue), "test_image")
    /\ UNCHANGED <<thread, ticker, tick_, image_, locks, calls>>

-----------------------------------------------------------------------------
(* The rwmutex of an effect, as its users see it.                          *)

Readers(f)      == {l \in held : Arg(l[1], l[2]) = f}
ReadBlocked(f)  == writer[f] # NoOne \/ f \in writer_waiting_
WriteBlocked(f) == writer[f] # NoOne \/ Readers(f) # {}

AcquireWrite(f, who) ==
    /\ ~WriteBlocked(f)
    /\ writer' = [writer EXCEPT ![f] = who]
    /\ UNCHANGED writer_waiting_

ReleaseWrite(f) ==
    /\ writer' = [writer EXCEPT ![f] = NoOne]
    /\ writer_waiting_' = writer_waiting_ \ {f}

ShowBegins ==
    /\ phase = "show"
    /\ AcquireWrite(Fx(prog.root), Screen)
    /\ phase' = "showing"
    /\ UNCHANGED <<prog, is_running_, cur, visited, at, queue, ticker, tick_, image_, imgs, held, calls>>

ShowEnds ==
    /\ phase = "showing"
    /\ ReleaseWrite(Fx(prog.root))
    /\ phase' = "top"
    /\ UNCHANGED <<prog, is_running_, cur, visited, at, queue, ticker, tick_, image_, imgs, held, calls>>

-----------------------------------------------------------------------------
(* process_fx at node n.                                                   *)

TestImage(n) ==
    /\ at[n] = "test_image"
    /\ Goes(n, IF image_[Fx(n)] = 0 THEN "stamp" ELSE "test_tick")
    /\ UNCHANGED <<thread, queue, ticker, tick_, image_, locks, calls>>

\* Broken: an effect that has been processed in this frame is processed again.
TestTickAgain(n) ==
    /\ at[n] = "test_tick"
    /\ Goes(n, IF Fx(n) \notin Static /\ tick_[Fx(n)] <= ticker THEN "stamp" ELSE "store")
    /\ UNCHANGED <<thread, queue, ticker, tick_, image_, locks, calls>>

\* The second test follows the first one's processing, too.
TestTick(n) ==
    /\ at[n] = "test_tick"
    /\ Goes(n, IF Fx(n) \notin Static /\ tick_[Fx(n)] < ticker THEN "stamp" ELSE "store")
    /\ UNCHANGED <<thread, queue, ticker, tick_, image_, locks, calls>>

\* Broken: the effect is not marked as processed.
StampNothing(n) ==
    /\ at[n] = "stamp"
    /\ Goes(n, "lock")
    /\ UNCHANGED <<thread, queue, ticker, tick_, image_, locks, calls>>

Stamp(n) ==
    /\ at[n] = "stamp"
    /\ tick_' = [tick_ EXCEPT ![Fx(n)] = ticker]
    /\ Goes(n, "lock")
    /\ UNCHANGED <<thread, queue, ticker, image_, locks, calls>>

\* An fx_locker fetches the image first and then takes the read lock.
FetchImage(n) ==
    /\ at[n] = "lock"
    /\ Len(imgs[n]) < Len(prog.args[n]) /\ Cardinality(Held(n)) = Len(imgs[n])
    /\ imgs' = [imgs EXCEPT ![n] = Append(@, image_[Arg(n, Len(@) + 1)])]
    /\ UNCHANGED <<thread, at, queue, ticker, tick_, image_, held, writer, writer_waiting_, calls>>

LockArgument(n) ==
    /\ at[n] = "lock" /\ Cardinality(Held(n)) < Len(imgs[n])
    /\ ~ReadBlocked(Arg(n, Len(imgs[n])))
    /\ held' = held \cup {<<n, Len(imgs[n])>>}
    /\ UNCHANGED <<thread, at, queue, ticker, tick_, image_, imgs, writer, writer_waiting_, calls>>

ArgumentsLocked(n) == at[n] = "lock" /\ Cardinality(Held(n)) = Len(prog.args[n])

LockEffect(n) ==
    /\ ArgumentsLocked(n)
    /\ AcquireWrite(Fx(n), n)
    /\ Goes(n, "process")
    /\ UNCHANGED <<thread, queue, ticker, tick_, image_, imgs, held, calls>>

WaitForEffect(n) ==
    /\ ArgumentsLocked(n)
    /\ WriteBlocked(Fx(n)) /\ Fx(n) \notin writer_waiting_
    /\ writer_waiting_' = writer_waiting_ \cup {Fx(n)}
    /\ UNCHANGED <<thread, at, queue, ticker, tick_, image_, imgs, held, writer, calls>>

Process(n) ==
    /\ at[n] = "process"
    /\ calls' = [calls EXCEPT ![Fx(n)] = IF @ = 2 THEN 2 ELSE @ + 1]
    /\ ReleaseWrite(Fx(n))
    /\ Goes(n, "unlock")
    /\ UNCHANGED <<thread, queue, ticker, tick_, image_, imgs, held>>

\* The fx_lockers are destroyed, the last one first; the last reader lets
\* the readers in again.
UnlockArgument(n) ==
    /\ at[n] = "unlock" /\ imgs[n] # <<>>
    /\ LET i == Len(imgs[n]) IN
          /\ held' = held \ {<<n, i>>}
          /\ imgs' = [imgs EXCEPT ![n] = SubSeq(@, 1, i - 1)]
          /\ writer_waiting_' = IF Readers(Arg(n, i)) = {<<n, i>>}
                                THEN writer_waiting_ \ {Arg(n, i)} ELSE writer_waiting_
    /\ UNCHANGED <<thread, at, queue, ticker, tick_, image_, writer, calls>>

\* Broken: only one of the read locks is given back.
StoreImageEarly(n) ==
    /\ at[n] = "unlock" /\ Len(imgs[n]) <= 1
    /\ image_' = [image_ EXCEPT ![Fx(n)] = ticker]
    /\ imgs' = [imgs EXCEPT ![n] = <<>>]
    /\ Goes(n, "test_tick")
    /\ UNCHANGED <<thread, queue, ticker, tick_, held, writer, writer_waiting_, calls>>

StoreImage(n) ==
    /\ at[n] = "unlock" /\ imgs[n] = <<>>
    /\ image_' = [image_ EXCEPT ![Fx(n)] = ticker]
    /\ Goes(n, "test_tick")
    /\ UNCHANGED <<thread, queue, ticker, tick_, locks, calls>>

\* The image is stored in the list, and a job says that it is done.
Finish(n) ==
    /\ at[n] = "store"
    /\ Goes(n, "done")
    /\ UNCHANGED <<thread, queue, ticker, tick_, image_, locks, calls>>

-----------------------------------------------------------------------------
ProcessFx(n) ==
    \/ TestImage(n) \/ TestTick(n) \/ Stamp(n)
    \/ FetchImage(n) \/ LockArgument(n) \/ LockEffect(n) \/ WaitForEffect(n)
    \/ Process(n) \/ UnlockArgument(n) \/ StoreImage(n) \/ Finish(n)

Loop ==
    \/ BeginFrame \/ LoopReturns \/ NextItem \/ AddJob \/ ProcessHere
    \/ EvalReturns \/ ShowBegins \/ ShowEnds

\* main() has joined the effect thread, and the model stops.
Over == phase = "over" /\ UNCHANGED vars

Next == Stop \/ Loop \/ HandOut \/ (\E n \in Nodes : ProcessFx(n)) \/ Over

Spec == Init /\ [][Next]_vars

\* Every thread that can run does, process() returns, and a lock that is free
\* is taken by the thread that wants it.
Fairness ==
    /\ WF_vars(Loop) /\ WF_vars(HandOut)
    /\ \A n \in UNION {DOMAIN p.fx : p \in Programs} : WF_vars(n \in Nodes /\ ProcessFx(n))

FairSpec == Spec /\ Fairness

-----------------------------------------------------------------------------
\* The fields of eval.hpp, fx_fwd.hpp:45-48 and zoov.cpp:122-124; a lock is
\* held at a node only while that node is being processed.
TypeOK ==
    /\ prog \in Programs /\ is_running_ \in BOOLEAN
    /\ phase \in {"top", "eval", "show", "showing", "over"}
    /\ cur \in Nodes /\ \A n \in Nodes : visited[n] \in 0..Len(prog.evals[n])
    /\ at \in [Nodes -> {"idle", "args", "queued", "test_image", "test_tick", "stamp",
                          "lock", "process", "unlock", "store", "done"}]
    /\ \A i \in DOMAIN queue : at[queue[i]] = "queued"
    /\ ticker \in 0..MaxTicker
    /\ tick_ \in [Effects -> 0..ticker] /\ image_ \in [Effects -> 0..ticker]
    /\ \A n \in Nodes : imgs[n] # <<>> => at[n] \in {"lock", "process", "unlock"}
    /\ \A l \in held : l[1] \in Nodes /\ l[2] \in DOMAIN imgs[l[1]]
    /\ \A f \in Effects : writer[f] \in Nodes => at[writer[f]] = "process"
    /\ writer_waiting_ \subseteq Effects

\* The effects of the program that stand at one place: the others may be
\* processed at two places at once, and are (see fx_fwd.hpp:98-108).
Sole == {f \in Effects : Cardinality({n \in Nodes : Fx(n) = f}) = 1}

Current(f, i) == IF f \in Static THEN i # 0 ELSE i = ticker

\* What an effect is given, and what is shown, was made in this frame: the
\* image is fetched before the read lock is taken (fx.hpp:23-28), so only the
\* waiting for the arguments' jobs (eval.hpp:212) makes it the right one.
FreshImages ==
    /\ \A n \in Nodes : at[n] = "process" =>
          \A i \in DOMAIN prog.args[n] :
              Arg(n, i) \in Sole => Current(Arg(n, i), imgs[n][i])
    /\ phase = "showing" /\ Fx(prog.root) \in Sole =>
          Current(Fx(prog.root), image_[Fx(prog.root)])

\* An effect with a memory (delay, trail) or a source (video) is processed
\* once in a frame, although process_fx tests twice (fx_fwd.hpp:98-108), and
\* none is left out of a frame that is shown.
OncePerFrame ==
    \A f \in Sole :
        /\ calls[f] <= 1
        /\ phase = "showing" /\ f \notin Static => calls[f] = 1

\* An evaluation leaves nothing behind: while the collector runs and ticker
\* changes (zoov.cpp:168-170) no job is queued or running and no lock is held.
NothingLeftBehind ==
    phase \in {"show", "top", "over"} =>
        /\ queue = <<>> /\ \A n \in Nodes : at[n] \in {"idle", "done"}
        /\ held = {} /\ writer_waiting_ = {}
        /\ \A f \in Effects : writer[f] = NoOne

\* Every frame that is begun is shown, also when recursion brings two jobs to
\* one effect: no job waits for a lock that is never given back.  So the effect
\* thread ends once it has been stopped, and main()'s join() of it returns.
EveryFrameIsShown ==
    /\ phase = "eval" ~> phase = "showing"
    /\ ~is_running_ ~> phase = "over"

=============================================================================
