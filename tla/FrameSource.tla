---------------------------- MODULE FrameSource ----------------------------
(***************************************************************************)
(* The two effects with a thread of their own, fx/video.hpp and            *)
(* fx/webcam.hpp: a producer writes frames into one image while process()  *)
(* hands out another, and they exchange images by swapping pointers under  *)
(* mutex_.  Frames are numbered; a step is a critical section, or the      *)
(* beginning or end of the writing of an image, which takes no lock.       *)
(*                                                                         *)
(* The caller of process() is the effect evaluator, one call at a time     *)
(* under the effect's write lock, and it looks at the image until it calls *)
(* again.                                                                  *)
(***************************************************************************)
EXTENDS Naturals

CONSTANTS
    MaxFrame    \* bounds the frames produced

VARIABLES
    webcam,     \* TRUE: it is webcam.hpp, FALSE: video.hpp
    current, buffer, result,   \* the pointers, each to an image
    changed, die,
    content,    \* of each image: the number of its frame, Torn while one is written
    target,     \* the image the producer writes into
    producer,   \* where the producer is
    frame,      \* the last frame produced
    caller,     \* where the evaluator is: "idle", "process", "asleep"; "destroy", "dying", "gone"
    shown       \* history: the number of the last frame handed out, and the last but one

vars == <<webcam, current, buffer, result, changed, die, content, target, producer, frame, caller, shown>>

Torn   == 0
Images == {"a", "b", "c"}
images == <<current, buffer, result>>

Init ==
    /\ webcam \in BOOLEAN
    /\ current = "a" /\ buffer = "b" /\ result = "c"
    /\ changed = FALSE /\ die = FALSE
    /\ content = [i \in Images |-> Torn]
    /\ target = "a" /\ producer = "next" /\ frame = 0
    /\ caller = "idle" /\ shown = <<0, 0>>

\* cv_.notify_all: process() and the destructor are the only ones that wait.
NotifyAll == caller' = CASE caller = "asleep" -> "process"
                         [] caller = "dying"  -> "destroy"
                         [] OTHER             -> caller

-----------------------------------------------------------------------------
(* The producer: libvlc's thread in its callbacks, or capture_loop.        *)

\* The top of capture_loop.
SeesDie ==
    /\ webcam /\ producer = "next" /\ die
    /\ die' = FALSE /\ NotifyAll
    /\ producer' = "over"
    /\ UNCHANGED <<webcam, images, changed, content, target, frame, shown>>

\* (An operator whose comment begins "Broken:" is a wrong version of the one
\* that follows it; no specification uses it.)

\* Broken: a video is written where a webcam is.
TargetIsCurrent == current

\* The image that is written: on_lock gives libvlc buffer_, cvCvtColor is
\* given current_.
Target == IF webcam THEN current ELSE buffer

BeginFrame ==
    /\ producer = "next" /\ frame < MaxFrame
    /\ ~(webcam /\ die)
    /\ frame' = frame + 1
    /\ target' = Target /\ content' = [content EXCEPT ![Target] = Torn]
    /\ producer' = "writing"
    /\ UNCHANGED <<webcam, images, changed, die, caller, shown>>

EndFrame ==
    /\ producer = "writing"
    /\ content' = [content EXCEPT ![target] = frame]
    /\ producer' = "display"
    /\ UNCHANGED <<webcam, images, changed, die, target, frame, caller, shown>>

\* Broken: nobody is told.
DisplayQuietly ==
    /\ producer = "display"
    /\ current' = buffer /\ buffer' = current
    /\ changed' = TRUE
    /\ producer' = "next"
    /\ UNCHANGED <<webcam, result, die, content, target, frame, caller, shown>>

\* on_display, or the end of capture_loop's round.
Display ==
    /\ producer = "display"
    /\ current' = buffer /\ buffer' = current
    /\ changed' = TRUE /\ NotifyAll
    /\ producer' = "next"
    /\ UNCHANGED <<webcam, result, die, content, target, frame, shown>>

-----------------------------------------------------------------------------
(* The effect.                                                             *)

Call == caller = "idle" /\ caller' = "process" /\ UNCHANGED
            <<webcam, images, changed, die, content, target, producer, frame, shown>>

Process ==
    /\ caller = "process"
    /\ \/ /\ ~changed
          /\ caller' = "asleep" /\ UNCHANGED <<images, changed, shown>>
       \/ /\ changed
          /\ current' = result /\ result' = current /\ UNCHANGED buffer
          /\ changed' = FALSE
          /\ caller' = "idle" /\ shown' = <<content[current], shown[1]>>
    /\ UNCHANGED <<webcam, die, content, target, producer, frame>>

SpuriousWakeUp ==
    /\ \/ caller = "asleep" /\ caller' = "process"
       \/ caller = "dying" /\ caller' = "destroy"
    /\ UNCHANGED <<webcam, images, changed, die, content, target, producer, frame, shown>>

\* ~webcam; ~video stops libvlc, which joins its threads.
Destroy ==
    /\ webcam /\ caller = "idle"
    /\ die' = TRUE /\ caller' = "dying"
    /\ UNCHANGED <<webcam, images, changed, content, target, producer, frame, shown>>

Destroyed ==
    /\ caller = "destroy"
    /\ caller' = IF die THEN "dying" ELSE "gone"
    /\ UNCHANGED <<webcam, images, changed, die, content, target, producer, frame, shown>>

Produce == SeesDie \/ BeginFrame \/ EndFrame \/ Display
Consume == Call \/ Process \/ Destroy \/ Destroyed

Next == Produce \/ Consume \/ SpuriousWakeUp

Spec == Init /\ [][Next]_vars

\* The source goes on producing frames, up to the bound; each thread gets on.
Fairness == WF_vars(Produce) /\ WF_vars(Process \/ Destroyed)

-----------------------------------------------------------------------------

\* What process() of a video hands out is a whole frame, newer than the last,
\* and stays so while it is looked at, although libvlc writes without a lock
\* (video::on_lock, on_display, process).
FramesAreWholeAndNew ==
    ~webcam /\ shown # <<0, 0>> =>
        /\ shown[1] > shown[2]
        /\ content[result] = shown[1]

\* While frames come process() returns, with the last of them, too; and ~webcam
\* returns in any case, not before capture_loop has done with the effect
\* (video::process and on_display, webcam::process, capture_loop and ~webcam).
ProcessReturns ==
    /\ (caller \in {"process", "asleep"}) ~> (caller = "idle" \/ (frame = MaxFrame /\ ~changed))
    /\ (caller \in {"dying", "destroy"}) ~> (caller = "gone")
    /\ [](caller = "gone" => producer = "over")
=============================================================================
