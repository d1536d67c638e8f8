------------------------------ MODULE TaskPool ------------------------------
(***************************************************************************)
(* What zi::task_manager promises its clients: a queue of submissions that *)
(* are handed out from the front, each to one thread, once; an open pool   *)
(* that serves them; and a closed pool in which nothing executes, reached  *)
(* by stop() after the running tasks, and by join() after the queued ones  *)
(* too.  There are no threads, counters or condition variables here.       *)
(***************************************************************************)
EXTENDS Naturals, Sequences

CONSTANT Tasks

VARIABLES
    phase,      \* "closed", "open" or "closing"
    queue,      \* the submissions not handed out yet, in order
    running,    \* handed out and not finished
    fresh, done, dropped,
    owed        \* what the stop or join in progress has to wait for

vars == <<phase, queue, running, fresh, done, dropped, owed>>

Queued == {queue[i] : i \in DOMAIN queue}

Init ==
    /\ phase = "closed"
    /\ queue = <<>> /\ running = {}
    /\ fresh = Tasks /\ done = {} /\ dropped = {} /\ owed = {}

Submit(t) ==
    /\ t \in fresh
    /\ fresh' = fresh \ {t}
    /\ queue' = Append(queue, t) \/ queue' = <<t>> \o queue
    /\ UNCHANGED <<phase, running, done, dropped, owed>>

Discard ==
    /\ queue' = <<>>
    /\ dropped' = dropped \cup Queued

Clear ==
    /\ Discard
    /\ owed' = owed \ Queued
    /\ UNCHANGED <<phase, running, fresh, done>>

Open ==
    /\ phase = "closed"
    /\ phase' = "open"
    /\ UNCHANGED <<queue, running, fresh, done, dropped, owed>>

HandOut ==
    /\ phase # "closed"
    /\ queue # <<>>
    /\ running' = running \cup {Head(queue)}
    /\ queue' = Tail(queue)
    /\ UNCHANGED <<phase, fresh, done, dropped, owed>>

Finish(t) ==
    /\ t \in running
    /\ running' = running \ {t}
    /\ done' = done \cup {t}
    /\ UNCHANGED <<phase, queue, fresh, dropped, owed>>

\* stop() and join() wait for what runs; join() waits for the queue as well,
\* and stop() discards it.
BeginClose(and_join) ==
    /\ phase = "open"
    /\ phase' = "closing"
    /\ IF and_join THEN UNCHANGED <<queue, dropped>> ELSE Discard
    /\ owed' = running \cup (IF and_join THEN Queued ELSE {})
    /\ UNCHANGED <<running, fresh, done>>

Close ==
    /\ phase = "closing"
    /\ phase' = "closed"
    /\ running = {}
    /\ owed \subseteq done
    /\ UNCHANGED <<queue, running, fresh, done, dropped, owed>>

\* A pool that has no workers closes at once, and join() leaves its queue.
CloseWithoutWorkers(and_join) ==
    /\ phase = "open"
    /\ phase' = "closed"
    /\ running = {}
    /\ owed' = {}
    /\ IF and_join THEN UNCHANGED <<queue, dropped>> ELSE Discard
    /\ UNCHANGED <<running, fresh, done>>

Next ==
    \/ \E t \in Tasks : Submit(t) \/ Finish(t)
    \/ Clear \/ Open \/ HandOut \/ Close
    \/ \E and_join \in BOOLEAN : BeginClose(and_join) \/ CloseWithoutWorkers(and_join)

Spec == Init /\ [][Next]_vars

=============================================================================
