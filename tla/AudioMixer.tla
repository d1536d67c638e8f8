---------------------------- MODULE AudioMixer ----------------------------
(* The mixer of av/audio.hpp: videos bring their sound in pipes, which the  *)
(* sound device empties.  A video's owner adds and removes it               *)
(* (fx/video.hpp, init and ~video), its player's thread brings samples, and *)
(* the device's thread calls fill_audio.  All of them lock m_; the device   *)
(* calls under the lock of SDL that SDL_PauseAudio takes too.               *)
(*                                                                           *)
(* Both ends of a pipe are open as long as each other and are one number    *)
(* here, the lowest that is free; 0 is the standard input.                  *)
EXTENDS Integers, Sequences

CONSTANTS Videos,       \* by their addresses
          Capacity,     \* samples a pipe has room for
          Asked,        \* samples the device asks for in a call
          MaxSamples,   \* bounds the samples that a player brings,
          MaxMade       \* and the videos that are made, at any of the addresses

Nobody == "nobody"
Device == "device"
Player == "player"

AudioMixerAssumption ==
    /\ {Nobody, Device, Player} \cap Videos = {}
    /\ Capacity \in Nat /\ Asked \in Nat \ {0} /\ MaxSamples \in Nat /\ MaxMade \in Nat

VARIABLES
    m_, sdl,    \* who holds m_, and whether the device holds the lock of SDL
    paused,
    read_, write_,
    pipe,       \* of each pipe that is open, what is in it
    at,         \* of each video: "none", "unpausing", "live", "pausing", "stopping"
    playing,    \* the videos whose player may call
    todo,       \* the pipes that fill_audio has yet to read
    made, life,     \* history: the videos made, and which of them is at an address
    given, heard    \* history: of that one

mixVars == <<m_, sdl, paused, read_, write_, pipe, at, playing, todo, made, life, given, heard>>

Without(f, v) == [x \in DOMAIN f \ {v} |-> f[x]]
With(f, v, y) == [x \in DOMAIN f \cup {v} |-> IF x = v THEN y ELSE f[x]]

\* pipe() takes the lowest number that is free; no more than MaxMade are open.
Pipes         == 1 .. MaxMade
LowestFree(p) == p \notin DOMAIN pipe /\ \A q \in 1 .. p - 1 : q \in DOMAIN pipe

MixInit ==
    /\ m_ = Nobody /\ sdl = Nobody /\ paused = TRUE
    /\ read_ = <<>> /\ write_ = <<>> /\ pipe = <<>>
    /\ at = [v \in Videos |-> "none"] /\ playing = {} /\ todo = {}
    /\ made = 0 /\ life = [v \in Videos |-> 0] /\ given = [v \in Videos |-> 0]
    /\ heard = [v \in Videos |-> <<>>]

-----------------------------------------------------------------------------
(* The owner of a video.                                                    *)

AddAudio(v) ==
    /\ at[v] = "none" /\ m_ = Nobody
    /\ made < MaxMade /\ made' = made + 1 /\ life' = [life EXCEPT ![v] = made']
    /\ \E p \in Pipes :
          /\ LowestFree(p)
          /\ pipe'   = With(pipe, p, <<>>)
          /\ read_'  = With(read_, v, p)
          /\ write_' = With(write_, v, p)
    /\ IF DOMAIN read_ = {}
       THEN m_' = v /\ at' = [at EXCEPT ![v] = "unpausing"] /\ UNCHANGED playing
       ELSE at' = [at EXCEPT ![v] = "live"] /\ playing' = playing \cup {v} /\ UNCHANGED m_
    /\ given' = [given EXCEPT ![v] = 0] /\ heard' = [heard EXCEPT ![v] = <<>>]
    /\ UNCHANGED <<sdl, paused, todo>>

\* SDL_PauseAudio, with m_ held; then the video goes on.
PauseAudio(v, from, to, p) ==
    /\ at[v] = from /\ sdl = Nobody
    /\ paused' = p /\ m_' = Nobody
    /\ at' = [at EXCEPT ![v] = to]
    /\ playing' = IF to = "live" THEN playing \cup {v} ELSE playing
    /\ UNCHANGED <<sdl, read_, write_, pipe, todo, made, life, given, heard>>

Pauses(v) ==
    PauseAudio(v, "unpausing", "live", FALSE) \/ PauseAudio(v, "pausing", "stopping", TRUE)

\* Broken: where the samples of the video went is kept.
StillWritten(v) == write_

Written(v) == Without(write_, v)

RemoveAudio(v) ==
    /\ at[v] = "live" /\ m_ = Nobody
    /\ pipe' = Without(pipe, read_[v])
    /\ read_' = Without(read_, v) /\ write_' = Written(v)
    /\ IF DOMAIN read_ = {v}
       THEN m_' = v /\ at' = [at EXCEPT ![v] = "pausing"]
       ELSE at' = [at EXCEPT ![v] = "stopping"] /\ UNCHANGED m_
    /\ UNCHANGED <<sdl, paused, playing, todo, made, life, given, heard>>

\* ~video stops the player when the mixer knows the video no more.
StopPlayer(v) ==
    /\ at[v] = "stopping"
    /\ playing' = playing \ {v} /\ at' = [at EXCEPT ![v] = "none"]
    /\ UNCHANGED <<m_, sdl, paused, read_, write_, pipe, todo, made, life, given, heard>>

-----------------------------------------------------------------------------
(* The player, and the device.                                              *)

\* write_[who] makes an entry of its own, 0, if there is none.  A pipe that is full
\* is waited for with m_ held.
AddSamples(v) ==
    /\ v \in playing /\ m_ = Nobody
    /\ given[v] < MaxSamples
    /\ LET p == IF v \in DOMAIN write_ THEN write_[v] ELSE 0
           n == given[v] + 1
       IN  /\ write_' = With(write_, v, p)
           /\ IF p \in DOMAIN pipe /\ Len(pipe[p]) = Capacity
              THEN m_' = Player /\ UNCHANGED <<pipe, given>>
              ELSE /\ pipe' = IF p \notin DOMAIN pipe THEN pipe
                              ELSE [pipe EXCEPT ![p] = Append(@, <<life[v], n>>)]
                   /\ given' = [given EXCEPT ![v] = n]
                   /\ UNCHANGED m_
    /\ UNCHANGED <<sdl, paused, read_, at, playing, todo, made, life, heard>>

\* What the player calls back: its pausing, resuming, flushing and draining tell
\* the mixer nothing.
Plays(v) == AddSamples(v)

DeviceCalls ==
    /\ ~paused /\ sdl = Nobody /\ sdl' = Device
    /\ UNCHANGED <<m_, paused, read_, write_, pipe, at, playing, todo, made, life, given, heard>>

FillAudio ==
    /\ sdl = Device /\ m_ = Nobody
    /\ m_' = Device /\ todo' = DOMAIN read_
    /\ UNCHANGED <<sdl, paused, read_, write_, pipe, at, playing, made, life, given, heard>>

\* read() waits for samples, and takes what there is.
ReadPipe(v) ==
    /\ m_ = Device /\ v \in todo
    /\ LET p == read_[v]
           n == IF Len(pipe[p]) < Asked THEN Len(pipe[p]) ELSE Asked
       IN  /\ n > 0
           /\ heard' = [heard EXCEPT ![v] = @ \o SubSeq(pipe[p], 1, n)]
           /\ pipe'  = [pipe EXCEPT ![p] = SubSeq(@, n + 1, Len(@))]
    /\ todo' = todo \ {v}
    /\ UNCHANGED <<m_, sdl, paused, read_, write_, at, playing, made, life, given>>

Filled ==
    /\ m_ = Device /\ todo = {}
    /\ m_' = Nobody /\ sdl' = Nobody
    /\ UNCHANGED <<paused, read_, write_, pipe, at, playing, todo, made, life, given, heard>>

Owner(v) == AddAudio(v) \/ Pauses(v) \/ RemoveAudio(v) \/ StopPlayer(v)
Fill     == FillAudio \/ Filled \/ \E v \in Videos : ReadPipe(v)

MixNext == Fill \/ DeviceCalls \/ \E v \in Videos : Owner(v) \/ Plays(v)

MixSpec == MixInit /\ [][MixNext]_mixVars

\* Whoever holds m_ goes on; the device, and an owner who is within a call, get it
\* in time.
MixFairness == SF_mixVars(Fill) /\ SF_mixVars(\E v \in Videos : Pauses(v))

-----------------------------------------------------------------------------
\* What the device has heard of a video and what is in its pipe are the samples its
\* player has brought in this life, one after the other, whatever becomes of the
\* other videos and of those that were at its address before (audio.hpp, add_samples
\* and fill_audio); neither add_audio nor remove_audio ends the program (:93, :113).
SoundsAreKeptApart ==
    \A v \in Videos :
        /\ at[v] \in {"unpausing", "live"} <=> v \in DOMAIN read_
        /\ v \in DOMAIN read_ =>
              LET whole == heard[v] \o pipe[read_[v]]
              IN  /\ \A i \in DOMAIN whole : whole[i] = <<life[v], i>>
                  /\ Len(whole) = given[v]

\* The three ways in which the mixer stops for ever: a device that reads an empty
\* pipe and a player that writes to a full one keep m_ from those who could help
\* (:157, :132); the lock of SDL and m_ are taken in both orders (:104, :124, :139).
Starved  == m_ = Device /\ \E v \in todo : pipe[read_[v]] = <<>>
Full     == m_ = Player
Inverted == m_ \in Videos /\ sdl = Device
Stuck    == Starved \/ Full \/ Inverted

\* There is no other (audio.hpp, all calls): a call of the device ends, and so does a
\* call of an owner that waits for SDL.
CallsReturnUnlessStuck ==
    /\ sdl = Device ~> sdl = Nobody \/ Stuck
    /\ m_ \in Videos ~> m_ \notin Videos \/ Stuck
=============================================================================
