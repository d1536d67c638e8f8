------------------------------ MODULE Objects -------------------------------
(***************************************************************************)
(* The small objects of zi/concurrency and of the effects at which threads *)
(* meet, each with variables of its own: a periodic function, a barrier, a *)
(* monitor, the source of a video's or a webcam's frames, the effects that *)
(* draw on images of a pool, the mixer of sounds, and the condition        *)
(* variable and the recursive mutex of the Windows back end.               *)
(* What is stated here of them is checked by TLC (MCObjects) and proved    *)
(* (ObjectsProofs, PicturesProofs).                                        *)
(***************************************************************************)
EXTENDS Naturals, FiniteSets

CONSTANTS
    Runners, Stoppers,      \* the threads that call run() and stop()
    Coincidences,           \* see PeriodicFunction
    Users, NoUser,          \* the threads at the other objects
    Threshold, MaxArrivals, \* see Barrier
    Need, Puts, MaxValue, MaxWaiters,   \* see Monitor
    MaxFrame,               \* see FrameSource
    Programs, MaxTicker,    \* see ImageEffects
    Videos, Capacity, Asked, MaxSamples, MaxMade,   \* see AudioMixer
    MaxCredits, MaxDepth    \* see Win32ConditionVariable, Win32RecursiveMutex

VARIABLES
    state_, perAt, running_cv, stopping, state_cv,
    count, round, barAsleep, barAt, seen, arrivals, arrived, trues, falses,
    value, monWaiters, monAsleep, monAt,
    webcam, current, buffer, result, changed, die, content, target, producer, frame, caller, shown,
    program, ticker, list_, onImage, chans, image_, imgs_, curr_, got, fxAt, past, mixed,
    m_, sdl, paused, read_, write_, pipe, mixAt, playing, todo, made, life, given, heard,
    owner, waiters_, broadcasting_, semaphore_, last_event_, winAt, timed,
    lock_, owner_, count_, recAt, depth

perVars == <<state_, perAt, running_cv, stopping, state_cv>>
barVars == <<count, round, barAsleep, barAt, seen, arrivals, arrived, trues, falses>>
monVars == <<value, monWaiters, monAsleep, monAt>>
srcVars == <<webcam, current, buffer, result, changed, die, content, target, producer, frame,
             caller, shown>>
fxVars  == <<program, ticker, list_, onImage, chans, image_, imgs_, curr_, got, fxAt, past, mixed>>
mixVars == <<m_, sdl, paused, read_, write_, pipe, mixAt, playing, todo, made, life, given, heard>>
winVars == <<owner, waiters_, broadcasting_, semaphore_, last_event_, winAt, timed>>
recVars == <<lock_, owner_, count_, recAt, depth>>

Per == INSTANCE PeriodicFunction WITH at <- perAt
Bar == INSTANCE Barrier WITH Threads <- Users, asleep <- barAsleep, at <- barAt
Mon == INSTANCE Monitor WITH
    Threads <- Users, waiters <- monWaiters, asleep <- monAsleep, at <- monAt
Src == INSTANCE FrameSource
Fx  == INSTANCE ImageEffects WITH content <- onImage, at <- fxAt
Mix == INSTANCE AudioMixer WITH at <- mixAt
Win == INSTANCE Win32ConditionVariable WITH Threads <- Users, Nobody <- NoUser, at <- winAt
Rec == INSTANCE Win32RecursiveMutex WITH Threads <- Users, Nobody <- NoUser, at <- recAt

ASSUME ObjectsAssumption ==
    /\ Per!PeriodicFunctionAssumption /\ Bar!BarrierAssumption /\ Mon!MonitorAssumption
    /\ MaxFrame \in Nat /\ Fx!ImageEffectsAssumption /\ Mix!AudioMixerAssumption
    /\ Win!Win32Assumption /\ Rec!RecursiveAssumption

-----------------------------------------------------------------------------
\* periodic_function.hpp, stop: nobody is in the loop when a stop() returns.
\* See PeriodicFunction.
StopMeansStopped == Per!StopMeansStopped

\* Whoever leaves the barrier does so with a round that is whole (barrier.hpp, wait),
\* and a notification of the monitor's guard that reaches one who gives up goes on to
\* another who waits (monitor.hpp, the guard's destructor).  See Barrier and Monitor.
RoundsAndNotificationsAreWhole == Bar!RoundsAreWhole /\ Mon!NotificationsArePassedOn

\* What is shown and heard: the frames of a video are whole and new (video.hpp), the
\* images of the pool show what their effects drew, of this frame or of an earlier one
\* where that is meant (image_pool.hpp, delay.hpp, trail.hpp), and each sound comes
\* out whole and in its order (audio.hpp).  See FrameSource, ImageEffects and AudioMixer.
PicturesAndSoundsAreRight ==
    Src!FramesAreWholeAndNew /\ Fx!ImagesShowWhatTheyShould /\ Mix!SoundsAreKeptApart

\* The Windows back end does what pthreads promise: notify_all of
\* win32/condition_variable.hpp reaches everyone who waits, and the locks of
\* win32/recursive_mutex.hpp nest.  See the modules.
WindowsDoesAsPthreads == Win!BroadcastReachesAll /\ Rec!LocksNest
=============================================================================
