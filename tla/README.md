# Formal models of zoov

zoov is a small Scheme interpreter whose values include video effects: a
read-eval loop (`src/zoov.cpp`) builds a graph of effects (`src/scheme`,
`src/fx`), and a thread evaluates one of them over and over and shows the
image.  The evaluation is spread over a worker pool.  The pool and everything
it stands on - mutexes, reader-writer mutex, semaphore, threads - come from the
`zi` library (`src/zi`), which is most of the repository and holds many
algorithms besides: heaps, graphs, meshes, linear algebra, transforms, trees.

This directory holds TLA+ models of those parts, the TLC configurations that
check them and the proofs TLAPS checks.  `PROJECT.json` is the index: it maps
every definition to the lines it models, and lists runs, mutants (which bug in
the code each property would catch), findings, hazards and theorems.

## 1. The system

| part | state | operations | talks to |
|---|---|---|---|
| Task manager (`zi/concurrency/detail/task_manager_impl.hpp`) | four counters, `state_`, a deque of tasks, two condition variables | start, stop, join, add_workers, remove_workers, push_front, push_back, clear; the workers' `run()` | called by the evaluator; creates threads |
| Priority container (`priority_task_container.hpp`) | map ordered by a 64-bit key | push, front, pop, clear | an alternative to the deque in the pool |
| Reader-writer mutex (`rwmutex_impl.hpp`) | reader count, three flags, three condition variables | acquire, try, timed acquire, release, convert, for reading, writing and undecided | one in each effect |
| Periodic function (`periodic_function.hpp`) | `state_`, two condition variables | run, stop | threads of the caller |
| Threads and registry (`thread_info.hpp`, `all_threads_data.hpp`, `pthread/thread.hpp`) | a state per thread, a map of live threads, a counter | start, join, detach, sleep, wake, join_all | used by the pool and the webcam |
| Semaphore, barrier, event, monitor | a counter or a flag each, threads that wait | acquire, release, set; wait; signal, reset; wait for a value | independent of each other |
| State, trigger | a value, keys | set, wait_for; fire, wait | nothing: neither compiles when it is used |
| Mutexes, guards, condition variables (`pthread/*.hpp`) | - | lock, unlock, wait, timed wait, notify | under all of the above |
| Windows back end (`win32/*.hpp`) | a condition variable made of a semaphore and an event, a recursive mutex over a spinlock | the primitives again | not built by the Makefile |
| Effect evaluator (`scheme/eval.hpp`, `fx.hpp`, `fx_fwd.hpp`) | per effect: image, tick, reader-writer lock | eval a list, add and wait for jobs, process | pool, reader-writer mutex, image pool |
| Environments and collector (`scheme/env.hpp`, `cell.hpp`) | environments, marks, copies | define, set, lookup, mark, collect, clone | the interpreter |
| Parser and builtins (`parse.hpp`, `scheme.hpp`) | - | parse, apply | the interpreter |
| Image pool (`scheme/detail/image_pool.hpp`) | a free list per image format | get, give back | every effect |
| Effect libraries (`dlfcn.hpp`) | handles | dlopen, dlsym | builtins |
| Video and webcam (`fx/video.hpp`, `fx/webcam.hpp`) | three frames, a capture thread | capture, process | effects, mixer |
| Image effects (`fx/*.hpp`) | parameters, kept images | process | image pool, OpenCV |
| Audio mixer (`av/audio.hpp`) | a pipe per video | add, remove, device callback | videos, SDL |
| Program (`zoov.cpp`) | the effect on show, tick | read-eval loop, effect thread | evaluator, SDL |
| Heaps, disjoint sets, graphs, caches | containers | insert, erase, update, join, find, match | used by the mesh code |
| Meshes (`zi/mesh`) | faces, edges, a heap of collapses | marching cubes, collapse, simplify, strips | heaps, quadrics |
| Linear algebra (`zi/vl`) | vectors, matrices, quaternions | products, inverses, decompositions, rotations | meshes |
| Transforms (`zi/math`), machine learning (`zi/ai`) | tables; trees | Fourier transforms; building and asking trees | - |
| Arguments, time and names (`zi/zargs`, `zi/time`, `natural_compare.hpp`) | handlers, timers | parse the command line, laps, compare | the program |
| OpenGL, logging, unit tests, system calls | - | - | - |

What is hard: almost every object of the concurrent part is a mutex, a few flags
and one or two condition variables that serve waiters with different conditions;
wake-ups are rationed (`notify_one`), conditions are sometimes tested once before
a wait and not after it, and the operations of several threads overlap.  The tests
run the normal orders with sleeps in between.  In the interpreter, several
collectors mark the same environments, and a picture lives in a clone of the
world at the prompt.  In the algorithms, structures say the same thing in three
places, and formulas are long.  `PROJECT.json` lists each hazard at its line.

What correctness means, part by part:

* pool: counters equal the threads they count; a submission is executed once or
  dropped by stop or clear; stop, join and resizing return, and only when what
  they promise is true; a pushed task is not left waiting beside a sleeping worker;
* reader-writer mutex: exclusion, nothing written between deciding and writing,
  no lost wake-up, no reader held back on behalf of a writer that does not wait;
* periodic function: stop returns, and only when the loop is over; that there is one loop at a time
  rests with the callers of `run()`;
* threads: join returns exactly for threads that ended; join_all after the last;
* semaphore, barrier, event, monitor: whoever waits for what is there gets it, and
  nobody leaves without it;
* evaluator: an effect is processed once per tick, with the images its arguments
  made in that tick; an evaluation finishes and leaves no job or lock behind;
* interpreter: collection and cloning change no result; a clone shares nothing
  mutable; frames that are over are forgotten;
* frames, images and sounds: what is shown is whole and of the frame it should be
  of; sounds come out in their order;
* containers and graph algorithms: equal to their textbook definitions;
* meshes: a closed surface stays one, and strips cover each face once;
* numbers: inverses invert, decompositions multiply to what was given, transforms
  are the sums that define them;
* arguments, time, names: an option means what the help says (for a value in quotes it does not), laps follow one
  another without a gap, the comparison is an order.

## 2. Modules

| module | models | state and steps |
|---|---|---|
| `TaskManager` | the worker pool | the class's fields under their own names; one variable per condition variable (who sleeps on it); where each worker is in `run()`; the method a manager is blocked in |
| `TaskPool` | what a pool promises | phase, queue, running tasks, done, dropped, owed |
| `RWMutex` | the reader-writer mutex | the four fields, three wait sets, what each client holds or waits for |
| `PeriodicFunction` | run and stop | `state_`, two wait sets, where each runner is in its loop |
| `Threads` | threads and their registry | `thread_info`'s state, the registry's counts, where each thread is in `ENTRY()`, the call each client is in |
| `Semaphore`, `Barrier`, `Event`, `Monitor` | the objects of those names | their fields, who sleeps, what each thread is in; `Event` follows the two programs of its test |
| `Win32ConditionVariable`, `Win32RecursiveMutex` | the Windows back end | counts of waiters and credits; owner and depth |
| `ConcurrencyTests` | the programs in `zi/concurrency/test` | a loop counter and a place per thread; the priority container |
| `Evaluator` | the effect thread, list evaluation, jobs, processing an effect | how far the interpreter is in each argument list; how far each effect application is in its frame; each effect's image and tick, and who holds its lock |
| `Interpreter` | environments, closures, special forms, collectors, clone | the heap of environments with marks and copies, the roots, what each line gave |
| `Objects` | one instance each of the periodic function, the barrier, the monitor, a source of frames, the effects on images, the mixer and the Windows primitives | their variables under names of its own: what TLC runs and what the proofs are about are the same |
| `FrameSource` | the exchange of frames of a video or webcam | the three pointers, the contents of each image, producer and caller |
| `ImageEffects` | the image pool, and the `process()` of each effect as far as images go | the free lists, who drew on each image and in which frame, what each effect shows, keeps and has just got, how far it is in its frame |
| `AudioMixer` | pipes, players, callback | the two locks, the samples in each pipe and those heard, by video and life |
| `MarchingCubes` | the cutting of cells | the cell reached, vertices so far, triangles by label; how coordinates are packed in a word |
| `Simplifier` | the mesh structure, collapses and their order | faces, edges with two slots, their views and the walk around a vertex, the heap of edges, what was refused |
| `TriStripper` | strips | the five stages of `execute`, with each pairing |
| `BinaryHeap` (implements `PriorityQueue`) | the heap with a map of its keys | the arrays under their own names, and the loop that an operation is in: each round of `heap_up`, `heap_down` and `try_shrink` is a step |
| `SimpleBinaryHeap` | the simple heap | its arrays |
| `GraphAlgorithms` | matchings, components, disjoint sets | the arrays of the code, phase by phase |
| `Matrices`, `Quaternions`, `Quadrics` | vectors, matrices and quaternions of `zi/vl`, the quadrics of meshes and the tests of a collapse's geometry, over fractions | operators |
| `Decompositions` | `invert` one column a step, Householder's and Jacobi's one iteration a step | the matrices, the determinant, what came out so far |
| `Transforms` | Fourier transforms modulo 97, reversal of bits | operators |
| `DecisionTrees` | splitters, trees, forests | the node under construction |
| `Cache` | both containers of `zi/cache` | index, stamps, nested calls |
| `Utilities` | arguments, intervals and timers, natural comparison | the queue of arguments and the handlers' values; two clocks |
| `MCTaskManager`, `MCThreads`, `MCProgram`, `MCObjects`, `MCLibraries` | instances for TLC | small sets, symmetry, example programs; one object at a time |
| `TaskManagerProofs`, `RWMutexProofs`, `EvaluatorProofs`, `ThreadsProofs`, `SemaphoreProofs`, `ObjectsProofs`, `PicturesProofs`, `BinaryHeapProofs` | - | theorems |

`Evaluator` composes what the two objects below it promise.  Its worker pool hands
out jobs in their order to at most `PoolSize` workers, which is what `TaskPool` says
of a pool that is only pushed to, and each effect's lock follows `RWMutex` with
the sleepers left out: a request is refused by the same conditions
(`ReadBlocked`, `WriteBlocked`), a waiting writer keeps new readers out, and the last
reader and the writer clear that.

What the interpreter does is data for the evaluator: a program is the tree of the
places at which effects are applied, with which of them are jobs (those in an
argument list, `eval.hpp:193`) and which the effect thread processes itself.  Which
image an effect sees is all that its images are: the number of the frame in
which they were made.  `MCLibraries` chains three modules: the triangles of
`MarchingCubes` are what `Simplifier` is filled with, and its faces are what
`TriStripper` makes strips of.

In the concurrent modules other than `Evaluator`, one step is one critical section: what a thread does between taking the
object's mutex and giving it up, by returning or by waiting.  Nothing else is
visible to another thread, since the fields are private and touched with the
mutex held (the exceptions are noted in the modules: the event's flag, the
monitor's `waiters_`, the pointers of the frames).  A thread that waits is a
member of the condition variable's wait set; a notification takes it out, and
the thread then competes for the mutex like any other - so between a
notification and the waiter's next step everything else may happen, which is
where these objects go wrong.  (In `Evaluator` a step is one access to what
threads share: `tick_` and `image_` have no lock of their own.)  `notify_one` picks any waiter.  A wait may also
return by itself, and a timed wait may run out at any moment.

The algorithms are modelled step by step where a step can leave the structure
half done, and as operators otherwise.  What the code leaves to hashing, ties or geometry
is a choice.  Numbers are exact: fractions in lowest terms for `zi/vl`, integers
modulo a prime with the roots of unity needed for the transforms, thousandths
for entropies.  Where a root is taken the inputs are chosen so that it is a fraction.

Operators whose comment begins "Broken:" are used by no specification.  Each is
a plausible mistake in the operator that follows it, and `PROJECT.json`
("mutants") says which property catches it.

The laws of the algebra and the transforms (`VectorsHold`, `MatricesHold`, `QuaternionsHold`,
`QuadricsHold`, `TransformsAreSums`) are what a caller may rely on.  Where the code does something else
than the name of a function says, no law is made of it: `VectorsSlip`, `MatricesSlip`, `QuaternionsSlip`,
`QMetricSlips` and `Fft8Slips` say what those slips come to, and section 5 lists them.  They hold by the
definitions they are about, and show only that these are as wrong as the code.

## 3. What the runs show

| run | instance | shows |
|---|---|---|
| `pool_any` | 2 managers, 3 workers, 2 tasks, limit at most 2, any wait may return by itself | counters, pool size and tasks stay right whoever overlaps |
| `pool_spurious_start` | violation | `create_workers_nl` waits without a loop: a spurious return lets `start()` and then `join()` return with the queue unexecuted |
| `pool_two_managers` | violation | `stop()` next to a waiting `remove_workers()` leaves live workers in an idle pool, against the assertions of `start()` |
| `locks_and_threads` | one of: 1 manager, 3 workers, 2 tasks, limits 2 and 3, spurious wake-ups of workers; 3 threads at a reader-writer mutex, every call; 2 threads and 2 callers at the registry; the test programs | pool: every operation leaves it as promised; stop and join wait for what they owe; it implements `TaskPool`; under fairness operations return and queued tasks are taken.  Locks: exclusion, the meaning of the fields, who holds readers back; where only readers' calls have timeouts, no lost wake-up.  The registry counts without a gap, joins return only when what they wait for is over; the tests' expectations hold whatever the order; everyone comes through |
| `periodic_lost_stop` | violation | a stop() during a call of the function is overwritten by `state_ = RUNNING` |
| `periodic_early_end` | violation | a spurious return of the timed wait ends the loop |
| `objects` | one object at a time, see below | semaphore, barrier, event, monitor, periodic function, frames, images, sounds and the Windows primitives keep their promises, and waiters are served |
| `event_two_groups` | violation | with two mutexes, as in `Test_TwoEvents`, a signal is lost between test and wait |
| `program` | sessions of 3 lines out of twelve with up to 6 frames a picture; 4 pictures over 2 frames and 2 workers | collection and cloning are invisible, dead frames go; effects get this frame's images and run once in it; every frame is shown |
| `algorithms` | one algorithm at a time, see below | surfaces stay closed, strips cover them; heaps, graphs, caches, trees, inverses, decompositions, transforms, arguments, timers and names equal their definitions |
| `arguments_in_quotes` | violation | `-key 'VALUE'` keeps the quotes that `--key='VALUE'` loses, though the help calls them equivalent |
| `simple_heap_erase` | violation | `erase` of the simple heap only moves the replacement down; six elements are enough for a wrong top |

Bounds of the pool and the locks.  Three workers is the least number for which a notification can go to a
worker that must stay, one that must leave and one still being created, and a
limit of 2 or 3 lets resizing pass through zero, one and more.  Two tasks
distinguish front from back and queued from executing.  `MaxLimit` bounds
`worker_limit_`; nothing else is cut.  Three clients of the reader-writer mutex
are one for each role (reader, writer, undecided), so that every pair of roles
contends with a third waiting; the proofs cover every number.  With two threads the registry has a first and a last one to leave, and
two callers can wait for the same thread, or one for a thread and one for all.
The test programs keep their structure with loops of three and teams of at most
four; two rounds tell a leftover of the first from the second.

Bounds of `objects`.  Semaphore: four users and a credit of at most 4, so that a
release can be for more threads than wait.  Barrier: three threads at a threshold of
two and six arrivals, so that a round overlaps the one before.  Event: four
testers.  Monitor: three threads, values up to 2; `MaxWaiters` cuts `waiters_`, which the
code lets grow.  Frames: four, of which the three images can be told apart.  Windows: three
threads, one credit left over, depth 2.  Images: eight pictures, chosen for each way in which an
effect takes, keeps and returns images, over five frames, longer than
the longest delay.  Mixer: two videos with two sounds each and pipes of two, so that a pipe is full and
empty.  Periodic function: two runners and three stoppers, so that one `notify_one` leaves some behind.

Bounds of `program`.  Two frames are needed to tell this frame's image
from the last one's, and two workers for two jobs to meet at one effect; the
pictures have two sources side by side, one source read by two effects, the
example of the repository, and a recursive function that brings two jobs to one
effect.  The sessions' lines are the library of the repository, closures that share or
hide variables, promises, effects from files and pictures that count their
frames; six frames pass each collector's threshold.

Bounds of `algorithms`.  Every labelling of two neighbouring cells in each direction decides
whether two rows of the table agree; the larger volumes have a closed surface, an
open one and two labels.  One collapse is refused for its geometry at any moment.  Six keys
with ties and eleven operations, each with the rounds of its loops, make the heap's arrays
(reserve 2) grow twice and shrink.
All graphs of three and three and of three vertices; disjoint sets of five.  Matrices
of sizes 1 to 5 from sixty seeds, with singular ones among them, inverted; forty seeds and
161 quaternions of small whole numbers for the laws; three meshes for quadrics; decompositions of sizes
2 to 4 from twelve seeds, and for Jacobi matrices that 3-4-5 turns diagonalise.  Transforms
of 2 to 9 and 16 elements, words of up to eight bytes.  Trees of four and
six patterns, forests of up to two.  Caches of three entries, three moments and two calls inside
callbacks.  Command lines of up to three out of eighteen arguments, so that an option
can stand before, be, or follow a value; timers with two laps, where a thousand is ten;
intervals up to 2500 and names of up to four characters.

Assumptions that are parameters, or choices of the instances:

* `Spurious` (pool) and `Coincidences` (periodic function) say what may happen at
  an awkward moment.  The violation runs switch on the one thing they are about.  `run()` and
  `stop()` are as in the code: `run()` tests for IDLE in one critical section and sets RUNNING in another,
  and two threads that meet between the two make two loops.  `Coincidences` is about the clients: without
  `"entry"` in it, as in `objects`, none calls `run()` while another thread stands between the two (`CallRun`).  That there is one loop is therefore neither checked nor proved; it holds
  of such clients because of what they do.
* `PushWhileStarting`: a task pushed while `start()` waits for its workers
  notifies nobody, so a worker that already sleeps does not take it until the
  next push.  Nothing promises otherwise; `locks_and_threads`, which asks for liveness, keeps
  such pushes out, while `pool_any` and the proofs do not.
* `MissingReturn`: `timed_acquire_write` and `timed_acquire_undecided` fall off
  their end when they find the lock free at once or after a notification.  They
  take nothing, and what the caller is told is undefined: an element of `MissingReturn`.  If it may be
  true, a caller believes it holds a lock it does not, and exclusion fails; if it is false, the call has
  still consumed a notification meant for another.  `timed_calls` is therefore a variable that never
  changes and says which timed calls the clients of a behaviour make.  The theorems are about
  the clients to whom the undefined value means nothing (`NobodyIsMisled`): those that make no timed call
  but `timed_acquire_read`, whatever `MissingReturn` is, and all of them where it is false.
  `NobodySleepsOnAFreeLock` and `EveryoneComesThrough` need the former, and the former only.
  The run tries clients of every call, who are told false, and clients of the readers' alone.
* A writer that gives up: `timed_acquire_write` clears `writer_waiting_` when its time runs out and notifies
  `writer_cv_` alone (`:178-183`).  Readers that it held back sleep on, though readers
  that come later pass them, until a later release or conversion notifies `reader_cv_`.
  `NoGhostWriter` says how far that goes: readers never sleep beside a lock that is free for writers,
  and where writers' calls have no timeout only while what they test keeps them out.
* All callers of the semaphore ask for the same amount, and `set` gives at most
  that: otherwise one notification may reach a thread it is not enough for.
* A notifier of the Windows condition variable holds the mutex of those who wait; outside it a
  `notify_all` might never return.
* `Evaluator` states freshness and once-per-frame for the effects that stand at one
  place of the program (`Sole`).  An effect that recursion applies at several places is
  processed at each of them, even twice at the same time, and a place may be given
  the image another one made; nothing promises otherwise.  A program that passes one
  effect to two parameters, `(add s s)`, inside a recursive function deadlocks: the job
  takes that effect's read lock twice, and a writer that comes between keeps the
  second out while it waits for the first.  The programs checked use each argument
  once.
* `Interpreter` lets two kinds of session off, which are detected and not compared:
  `foreign`, where a collector has marked environments that belong to another root, and `tangled`,
  where a frame is copied before a parent that holds a closure over it.
* The webcam is left out of the frames' property: its image is shown while it is written.
* SDL holds a lock during its callback, which `SDL_PauseAudio` takes.  The mixer may get stuck in the
  three ways that `AudioMixer` names; the property says that there is no fourth.
* `process()` returns, throws nothing, and the screen can be locked.  When it cannot,
  `zoov.cpp:180` goes on with the write lock held and the next frame never ends.
* A client starts a thread once.  `get_thread` searches the registry's map without its
  lock; in the model the search finds the thread or nothing.
* In the test programs the main thread's sleeps last until the others are at rest, and time passes only
  when everyone waits.  `TaskManagerStopClearDeadlock`'s expectation on how much was done
  (`EXPECT_GT`) depends on speed and is left out; of `rwmutex_test`, where
  readers increment a counter without exclusion, only "at least one" is kept.

Fairness.  Weak fairness of each thread's own next step once it is awake: the
operating system runs every runnable thread and the mutex is given to each
contender in time; tasks, and the function of a periodic function, return;
whoever holds the reader-writer mutex releases it.  A thread that can end what it
executes does so in the end, though it may sleep any number of times before (strong
fairness of `RunEnds`).  A lock of an effect that is free is taken by the job that
wants it, which `EveryoneComesThrough` supports.  No fairness is assumed of
clients: nobody has to call anything.  Frames come as long as the video runs; at its end nothing
is promised to `process()`.  Liveness of the reader-writer mutex is
stated for when new acquisitions stop, since readers can starve `decide_write`
by design.

## 4. What is proved

Each theorem follows from an inductive invariant that says where threads are and how that is
counted.

`TaskManagerProofs`, for every set of workers (finite), managers and tasks and
every limit:

* `TypeCorrect` and `CountersAreRight` (`Accounting`), by an invariant that joins the two: neither
  is inductive alone, since a counter is decremented only by a thread that it counts.
* `PoolHasItsSize`, by `PoolInv`, which adds that a manager inside `start` or `stop` is
  what keeps the pool in STARTING or STOPPING.
* `TasksAreConserved`, by the same types and the partition of the submissions.
* `StopEmptiesThePool` and `OperationsLeaveThePoolFull`, by `Crew`: with one manager, the
  number of workers in each phase of their life, and whether the manager
  sleeps, determine each other, so a notification is sent exactly when its condition
  has come true and no wake-up is lost.
* `StopWaits`, by `OwedInv`: while the pool stops, what is owed is done, executing
  or queued with a worker left to take it.
* `PoolKeepsItsPromise`: each step of the pool is a step of `TaskPool` or a stutter
  under `phase <- Phase, queue <- tasks, running <- Executing`.

The last four assume `OneManager`: one thread manages the pool and is
woken by notifications only.  The two violation runs show that neither half can
be dropped.

`RWMutexProofs`, for every finite set of threads: `TypeCorrect`, `Exclusion`, `LockStateIsRight` and
`NoGhosts` (`NoGhostWriter`) for clients that are not misled (`NobodyIsMisled`, see above), and
`NobodyIsForgotten` (`NobodySleepsOnAFreeLock`) without any assumption about the undefined value.
The invariant `Inv` is inductive: it says, of the
reader count and of each flag, which threads account for it, with the two
phases of a hand-over to a thread in `decide_write` apart.  `NoGhosts` is inductive beside it,
and says all that `NobodyIsForgotten` needs of readers; for writers and the upgrading thread `Awakened` is
added: where writers sleep beside a lock that they could take, one of them is awake and has not run yet.  `NobodySleepsOnAFreeLock` is about every state of the lock, not only a free one: readers
sleep only while a writer has or awaits it, those who want it undecided while they are kept out or beside
readers, the upgrading thread beside readers.

`EvaluatorProofs`, for every set of programs that are trees with their arguments in scope, every
pool of at least one worker and any number of frames (`EvaluatorAssumption`): `TypeCorrect`,
`ImagesAreFresh` (`FreshImages`), `ProcessedOnce` (`OncePerFrame`) and `NothingStaysBehind`
(`NothingLeftBehind`).  None of them is inductive.  `IInv` joins the types with

* `Walk`: where the effect thread is in the tree of argument lists decides which
  applications have been begun, which may wait in the queue, and which are done;
* `Locking`: the read locks are those of the images that an application has fetched and not given
  back, there is at most one writer for each effect, and it is where a writer can be;
* `Stamps`: for an effect that stands at one place, `tick_`, `image_` and the number of
  calls tell how far its application has come in this frame;
* `Fetched`: the images that an application holds were made in this frame.

`Fetched` needs `Stamps` for the arguments, `Stamps` needs `Locking` (nobody else writes the image) and
`Walk` (an argument is done before the application it is for begins).

`ThreadsProofs`, for every finite set of threads and callers: `TypeCorrect`, `CountsAreRight`
(`Counted`) and `JoinsWait` (`JoinsWaitForTheEnd`).  The counts alone are not inductive: that a
thread enters a count once needs `OneStarter` (only one caller is in `start()` of a thread, and the
thread does not run yet), and that it goes from one count to the next needs
`StateFollowsEntry` (how far it is in `ENTRY()` says what its `state_` is).  Each step then moves at
most one thread from one of three sets to the next, and two counters by one.

`SemaphoreProofs`, for every finite set of threads and every amount they ask for:
`SemaphoreTypes`, and `CreditIsSpokenFor`: nobody sleeps beside credit, unless for each
amount of it a thread has been woken that has not run yet.  `SemaphoreAssumption` lets `set` give
no more than one amount, since `set` sends one notification whatever it sets.

`ObjectsProofs`, for every finite set of threads and every bound of the objects:

* periodic function: `StoppedIsOutside` (`StopMeansStopped`), where one thread at most calls `run()`, or
  none while another has found `state_` IDLE and not yet set it (`OneEnters`), by: IDLE means that nobody is
  between the entry of `run()` and its end, which needs that one thread at most is.  When moreover no wait returns by itself,
  `NothingElseEndsTheLoop`: whoever is woken in the loop was woken by a stop.  The run
  checks that property as `EndsForAReasonIfCalm`, for the behaviours that are calm.
* barrier: `RoundsStayWhole`, by counting: the trues are the rounds, the falses and those still
  on their way are the other arrivals.
* monitor: `NotificationsReachSomebody`: `waiters_` is never less than those who wait, and beside a value
  that somebody sleeps for there is somebody on the way who takes it or wakes the next.
* Windows: `BroadcastLeavesNobody`, since the notifier keeps the waiters' mutex until the last has
  counted itself out, and one waiter at most signals the end; `RecursiveLocksNest`, from what
  each place in the code knows of the owner, the depth and the spinlock.
* video: `VideoFramesAreWholeAndNew`: current, buffer and result are three different images, so
  neither thread writes what the other reads, and their contents are in the order of the frames.
* `NobodyIsForgotten` and `WindowsKeepsItsPromises` join these as the run checks them.

`PicturesProofs`, for every program of effects in which arguments come first
(`ImageEffectsAssumption`), every number of frames and every order in which
the jobs of a frame overlap: `ImagesShow` (`ImagesShowWhatTheyShould`), by `FxInv`.  What is to be
shown follows from who may draw on which image, so the invariant says that first:

* `FxApart`: no image belongs to two effects, whether an effect shows it, keeps it or has
  just got it; the one exception is `fps_counter`, which shows the image of its argument.
* `FxPool`: the images are those held and those free, each free one in one list, once, and in
  that of its channels.  An image goes back when nobody holds it, so this needs `FxApart`.
* `FxOrdered`: an effect draws after its arguments, and what a counter shows is the image of an
  effect that is done; so nobody draws on an image that is shown in this frame (`FxShown`).
* `FxRemembered` and `FxRings`: a delay has the number of images it was asked for, and the one at
  each place of its ring was drawn as many frames ago as `Age` says.  `DelaysShowThePast` is the
  place that comes next; when the ring turns, every other one is a frame older.
* `FxStamped`: what bears this frame's number was drawn by an effect that is done, so that what a
  trail finds on the image it is given is older than what it draws.
* `FxTrails`: a trail that draws alone takes two images in turn, from its third frame on: one
  that it shows and one in the pool, with its frame before the last.

All `process()` functions end alike (`Ends`, `ProcessInv`): an image is shown, some are
kept, the rest go back.  Each effect has only to say what it keeps and what it drew on.

`SoundsStayApart` (`SoundsAreKeptApart`), for any videos, sizes of pipes and requests of the
device, by `MixInv`: a video that can be heard has both ends of a pipe that no other video has, one that cannot
writes to no pipe, and the samples heard and those in the pipe are the ones its
player brought in this life, in order.  `EverythingShownAndHeardIsRight` joins the three as the run checks
them (`PicturesAndSoundsAreRight`).

`BinaryHeapProofs`, for every set of keys, whatever their values, and all sizes of the arrays:
`HeapKeepsItsPromise` (`HeapIsAQueue`) and `HeapImplementsQueue` (the refinement of
`PriorityQueue`, where a round of a loop is a stutter).  `Inv` holds between the rounds too:

* `Linked` and `Placed`: the slots with entries are those of the first places, and `keymap_`
  leads to them.
* `Paired`: `heap_` and `map_` are inverse.  While the arrays are halved this is so only for
  the places and slots that stay and belong to each other.  That a slot is free for a
  place that needs one (`ThereIsRoom`) is a count: were none free, the slots that stay would
  belong one to one to the places that stay, and so to all of them.
* `Order`: each value is at least its parent's, but for the place that the loop has reached: above
  it while an entry rises, above and below while the one that replaces another
  rises, below it while it sinks; and what lies below that place is at least what lies above it
  (`Bridged`), so that a swap mends one place and breaks one at most.

That the entry on top is the least (`TopIsSmallest`) is no induction for the prover, but an argument
on the least place of which it would be wrong, whose parent comes before it.

These invariants, and the two of `PicturesProofs`, were first checked with TLC on the run's instances.

Only model-checked:

* liveness, which is out of the prover's reach: `OperationsReturn`, `QueuedTasksAreServed`,
  `EveryoneComesThrough`, `WaitersAreServed`, `EveryFrameIsShown`;
* the event, the three ways in which the mixer may stop, and the programs of the tests
  (`ExpectationsHold`): a main that sleeps goes on when the others cannot (`ENABLED`);
* the interpreter (`CollectingAndCloningAreInvisible`, `OnlyLiveFramesAreKept`,
  `CloneIsSeparate`), whose evaluation is recursive;
* the algorithms other than the binary heap: what a recursive definition computes is shown by induction
  over data, which the prover cannot do, and most modules declare `RECURSIVE` operators.

## 5. What is not modelled, and why

Within the modelled parts:

* pool: exceptions that leave a task (nothing in `zi/concurrency` catches them), the `insert<Runnable>` overload, which calls
  itself for ever, `max_size_`, which is never read;
* threads and locks: `count_` and durations, the error codes of pthread calls, which the code does not look at;
* evaluator: values other than images, which take no lock;
* interpreter: the text of the parser, fractions (`/`), `rand` and `printenv`;
* meshes: `packed_tri_list::insert`, which nothing calls and which does not compile;
* algebra: rounding, angles in general and real powers, which are about floating point (`slerp` is
  modelled at both ends and half way); the overloads of operators that only forward.

Whole parts:

* `dlfcn.hpp`, the OpenGL, OpenCV, SDL and libvlc wrappers: they forward to
  libraries.  What the modules need of those libraries is in them as external.
* `state.hpp` and `trigger.hpp`: templates that do not compile when they are used, so there is no
  behaviour to model.
* `zlog`, `zunit`, `zi/system`, `zi/utility` besides the singleton and the comparison, the atomic operations: output, macros, and
  wrappers of one call.
* `binary_heap_impl2.hpp` and `fast_log.hpp`: nothing uses them.

The following was noticed while reading.  It is not among the findings,
because no comment, test or document says otherwise, or because no caller is
touched by it.

* Meshes: `tri_mesh::resize` leaves `vertices_` empty; `remove_face` may take the
  validity of a vertex that other faces use; a simplifier may flatten a
  tetrahedron to two faces; a second `prepare()` trips its assertion; `packed_tri_list::insert` does not compile, and with coordinates of
  three bits a packed triangle loses one; one of the two `edge<2>` of a face is its `edge<1>`; `TriStripper::detach_face` updates the heap with an
  edge's index, to no effect.
* Graphs and heaps: `hopcroft_karp` returns its result in the order of the sorted edges; `find_set` compresses the path
  of its argument only; `join` of two that are no roots breaks `sets_`.
* Algebra: the `reverse_iterator`s of vectors, matrices and quaternions are plain pointers and walk
  forwards; a scalar times a matrix is the product of the matrix and one filled with the scalar;
  `make_rotation` takes the absolute value of the sine for the cosine; assigning a scalar to
  a quaternion returns nothing; `trace` is the product of the diagonal; `mat::equals` is false when two are close;
  `mat::swap` exchanges the first N elements; `get_semimajor_diagonal` runs one place too far; the 4D
  cross product lacks the alternating signs, and the adjoint of a 2x2 matrix does not
  compile; a number minus a quaternion is the quaternion minus the number; `normalize` returns the
  reciprocal of the length for a vector and the length for a quaternion, so that the
  weight that `generate_quadratics` calls an area is not one; an `operator-` of the quadrics adds;
  `make_scale` leaves a zero in the corner; `householder()` fails where a column is zero below
  its head, as for the identity; `jacobi` divides 0 by 0 where two equal elements meet.
* Transforms: `bit_reverse` of 64 bits extends a sign; the forward transform of
  eight has the opposite sign of the others.
* Interpreter: a clone in which a procedure is defined is never destroyed, as the procedure and the environment
  hold each other and the call of `clear()` is commented out (`zoov.cpp:354`).  `StopEffect`
  keeps it (`IsHeld`) and clears any other.
* Time and arguments: the unary `operator-()` of an interval does not negate (`interval.hpp:67-70`), and no
  operator stands for it; a second may be left whole in
  `tv_usec`; `-key` as the last argument reads the front of an empty list; `-h` shows the help even as a value;
  a list that begins with a comma is empty; `natural_compare` skips the character
  after two equal numbers, and reads past the end when one name ends there.
* Trees: the information gain leaves an exclusive-or undivided; a forest divides by zero without patterns
  of one sort; `to_string` follows a null pointer.
* Others: `cache_container::remove` always returns false; `trail` blends with whatever is on the
  image it is given; a delay of n is one of n-1 frames; `~video` removes its sound before it
  stops the player; an error in a typed line ends the program (`zoov.cpp:299`).

## 6. Plan

Proofs to come, if recursion gives way to steps as in the binary heap: that disjoint sets
are those that were joined, that a cache evicts the oldest, what the interpreter's marks say of the
environments.

Models to come: seeking and the end of a video, the parser as a machine over tokens.
