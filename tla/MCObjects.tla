----------------------------- MODULE MCObjects -----------------------------
(* Instances for TLC of the objects threads meet at: those of Objects, and  *)
(* a semaphore, an event, the effects that draw on images of the pool, and  *)
(* the mixer of sounds.  One of them is used in a behaviour; the others     *)
(* stay as they were.                                                       *)
EXTENDS Objects, Semaphore, TLC

CONSTANTS r1, r2, s1, s2, s3, u1, u2, u3, u4

TwoVideos     == {u1, u2}
TwoRunners    == {r1, r2}
ThreeStoppers == {s1, s2, s3}

\* Everything but two threads inside run() before either has changed state_.
AllButEntry == {"call", "turn", "restart", "spurious"}

ThreeUsers == {u1, u2, u3}
FourUsers  == {u1, u2, u3, u4}

VARIABLES
    used,    \* the one that is used
    signalled, evtAsleep, locked, pc, main, x

evtVars == <<signalled, evtAsleep, locked, pc, main, x>>

\* Pictures: a trail alone and beside others, delays of two and three images and of
\* none, effects that spoil a copy, two sources, a picture that does not move.
Effect(k, args) == [kind |-> k, args |-> args]
Delay(n, arg)   == [kind |-> "delay", args |-> <<arg>>, size |-> n]
Source          == Effect("source", <<>>)

Pictures ==
    {<<Source, Effect("trail", <<1>>)>>,
     <<Source, Delay(2, 1), Effect("trail", <<1>>), Effect("add", <<2, 3>>)>>,
     <<Source, Effect("grayscale", <<1>>), Effect("contours", <<2>>), Delay(1, 3)>>,
     <<Source, Delay(3, 1), Delay(2, 2), Effect("fps_counter", <<3>>)>>,
     <<Source, Effect("polygons", <<1>>), Effect("trail", <<2>>), Delay(0, 3)>>,
     <<Source, Source, Delay(2, 1), Effect("contours", <<2>>), Effect("absdiff", <<3, 4>>)>>,
     <<Source, Effect("pic", <<>>), Effect("smooth", <<1>>), Effect("canny", <<3>>),
       Effect("mask", <<2, 4>>)>>,
     <<Source, Effect("sobel", <<1>>), Effect("threshold", <<2>>)>>}

MCReleased == {1, 2, 3}
MCSetTo    == {0, 1}

\* Nothing coincides.
Calm == INSTANCE PeriodicFunction WITH Coincidences <- {}, at <- perAt
Evt == INSTANCE Event WITH
    NumGroups <- 1, Size <- 4, asleep <- evtAsleep

ASSUME MCObjectsAssumption == SemaphoreAssumption /\ Evt!EventAssumption

-----------------------------------------------------------------------------
\* An event and a source have threads that go on by themselves: unused, they
\* are at their end.
EventOver ==
    /\ signalled = <<TRUE>> /\ evtAsleep = <<{}>> /\ locked = {}
    /\ pc = [t \in Evt!Testers |-> "done"] /\ main = "join" /\ x = <<4>>

SourceOver ==
    /\ webcam = TRUE /\ current = "a" /\ buffer = "b" /\ result = "c"
    /\ changed = FALSE /\ die = FALSE /\ content = [i \in Src!Images |-> Src!Torn]
    /\ target = "a" /\ producer = "over" /\ frame = 0 /\ caller = "gone" /\ shown = <<0, 0>>

\* No effects at all, when they are not used.
NoPicture ==
    /\ program = <<>> /\ ticker = 1 /\ list_ = [c \in {1, 4} |-> <<>>] /\ onImage = <<>> /\ chans = <<>>
    /\ image_ = <<>> /\ imgs_ = <<>> /\ curr_ = <<>> /\ got = <<>> /\ fxAt = <<>>
    /\ past = <<>> /\ mixed = <<>>

MCInit ==
    /\ used \in {"periodic", "calm periodic", "semaphore", "barrier", "event", "monitor", "source",
                "windows", "recursive", "images", "mixer"}
    /\ Init /\ Per!Init /\ Bar!Init /\ Mon!Init /\ Win!Init /\ Rec!Init /\ Mix!MixInit
    /\ IF used = "images" THEN Fx!FxInit ELSE NoPicture
    /\ IF used = "event" THEN Evt!Init ELSE EventOver
    /\ IF used = "source" THEN Src!Init ELSE SourceOver

\* Nobody calls the barrier any more, the webcam is gone, everybody has gone to wait,
\* the last frame is shown, or the mixer is stuck or without videos.
Ended ==
    /\ \/ used = "barrier" /\ arrivals = MaxArrivals
       \/ used = "source" /\ caller = "gone"
       \/ used = "windows" /\ Win!At("asleep") = Users
       \/ used = "images" /\ ticker = MaxTicker
       \/ used = "mixer" /\ (Mix!Stuck \/ DOMAIN read_ = {})
    /\ UNCHANGED <<vars, perVars, barVars, evtVars, monVars, srcVars, winVars, recVars, fxVars, mixVars>>

MCNext ==
    /\ UNCHANGED used
    /\ \/ /\ \/ used = "periodic" /\ Per!Next
             \/ used = "calm periodic" /\ Calm!Next
          /\ UNCHANGED <<vars, barVars, evtVars, monVars, srcVars, winVars, recVars, fxVars, mixVars>>
       \/ /\ used = "semaphore" /\ Next
          /\ UNCHANGED <<perVars, barVars, evtVars, monVars, srcVars, winVars, recVars, fxVars, mixVars>>
       \/ /\ used = "barrier" /\ Bar!Next
          /\ UNCHANGED <<vars, perVars, evtVars, monVars, srcVars, winVars, recVars, fxVars, mixVars>>
       \/ /\ used = "event" /\ Evt!Next
          /\ UNCHANGED <<vars, perVars, barVars, monVars, srcVars, winVars, recVars, fxVars, mixVars>>
       \/ /\ used = "monitor" /\ Mon!Next
          /\ UNCHANGED <<vars, perVars, barVars, evtVars, srcVars, winVars, recVars, fxVars, mixVars>>
       \/ /\ used = "source" /\ Src!Next
          /\ UNCHANGED <<vars, perVars, barVars, evtVars, monVars, winVars, recVars, fxVars, mixVars>>
       \/ /\ used = "windows" /\ Win!Next
          /\ UNCHANGED <<vars, perVars, barVars, evtVars, monVars, srcVars, recVars, fxVars, mixVars>>
       \/ /\ used = "recursive" /\ Rec!Next
          /\ UNCHANGED <<vars, perVars, barVars, evtVars, monVars, srcVars, winVars, fxVars, mixVars>>
       \/ /\ used = "images" /\ Fx!FxNext
          /\ UNCHANGED <<vars, perVars, barVars, evtVars, monVars, srcVars, winVars, recVars, mixVars>>
       \/ /\ used = "mixer" /\ Mix!MixNext
          /\ UNCHANGED <<vars, perVars, barVars, evtVars, monVars, srcVars, winVars, recVars, fxVars>>
       \/ Ended

MCVars == <<used, vars, perVars, barVars, evtVars, monVars, srcVars, winVars, recVars, fxVars, mixVars>>

MCSpec ==
    /\ MCInit /\ [][MCNext]_MCVars
    /\ Fairness /\ Per!Fairness /\ Bar!Fairness /\ Evt!Fairness /\ Mon!Fairness /\ Src!Fairness /\ Win!Fairness
    /\ Mix!MixFairness

-----------------------------------------------------------------------------
\* EndsForAReason (periodic_function.hpp:88-123) holds if nothing coincides; a
\* run of PeriodicFunction shows what does otherwise.
EndsForAReasonIfCalm == [][used = "calm periodic" => Calm!NoLoopEndsForNothing]_MCVars

\* Whoever waits is served.  stop() returns, if nothing coincides
\* (periodic_function.hpp:127-146; a run of PeriodicFunction shows what does
\* otherwise); the credit of a semaphore and the value in a monitor do not lie
\* there for ever while someone waits for them (semaphore.hpp, acquire and
\* timed_acquire; monitor.hpp, the wait functions); a round of a barrier that is
\* complete lets its threads go (barrier.hpp, wait); the threads of Test_Event
\* come through (event.hpp); process() returns (video.hpp and webcam.hpp); and so
\* does notify_all() (win32/condition_variable.hpp); and the mixer stops in no other
\* way than the three that AudioMixer names (audio.hpp).
WaitersAreServed ==
    /\ used = "calm periodic" => Calm!StopReturns
    /\ CreditIsTaken
    /\ Mon!WaitersAreServed
    /\ Bar!RoundsEnd
    /\ used = "event" => Evt!EveryTesterComesThrough
    /\ Src!ProcessReturns
    /\ Win!BroadcastsEnd
    /\ Mix!CallsReturnUnlessStuck
=============================================================================
