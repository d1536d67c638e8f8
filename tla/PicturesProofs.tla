--------------------------- MODULE PicturesProofs ---------------------------
(***************************************************************************)
(* Proofs about the effects that draw on images of a pool, and about the   *)
(* mixer of sounds: for every program of effects and whatever their jobs   *)
(* do at the same time, the images are kept apart and show what they       *)
(* should, and no sound gets into another.                                 *)
(***************************************************************************)
EXTENDS ObjectsProofs, SequenceTheorems

-----------------------------------------------------------------------------
(* The invariant of the image effects.                                      *)

Frames == Nat \X Nat        \* what is on an image
Images == DOMAIN onImage
Lists  == Seq(Nat \ {0})

Once(s) == \A i, j \in DOMAIN s : s[i] = s[j] => i = j

\* What an effect keeps or has just got, and all that is its own: the image that
\* fps_counter gives is not.
IsCounter(n) == Fx!Kind(n) = "fps_counter"
Mine(n)  == Fx!Elements(imgs_[n]) \cup Fx!Elements(got[n])
Owned(n) == Mine(n) \cup ((IF IsCounter(n) THEN {} ELSE {image_[n]}) \ {0})

FxTyped ==
    /\ program \in Programs /\ ticker \in Nat \ {0}
    /\ onImage \in Seq(Frames) /\ chans \in Seq({1, 4}) /\ Len(chans) = Len(onImage)
    /\ list_ \in [{1, 4} -> Lists] /\ image_ \in [Fx!Nodes -> Nat]
    /\ imgs_ \in [Fx!Nodes -> Lists] /\ got \in [Fx!Nodes -> Lists]
    /\ curr_ \in [Fx!Nodes -> Nat] /\ fxAt \in [Fx!Nodes -> {"todo", "process", "done"}]
    /\ past \in [Fx!Nodes -> Seq(Frames)] /\ mixed \in [Fx!Nodes -> Frames]

\* Arguments are done first; the image that a counter gives is that of an effect that
\* is done and is no counter.
FxOrdered ==
    \A n \in Fx!Nodes :
        /\ fxAt[n] \in {"process", "done"} =>
              \A i \in DOMAIN program[n].args : fxAt[program[n].args[i]] = "done"
        /\ fxAt[n] = "done" => image_[n] # 0
        /\ Len(past[n]) = IF fxAt[n] = "done" THEN ticker ELSE ticker - 1
        /\ fxAt[n] = "done" /\ IsCounter(n) =>
              \E m \in Fx!Nodes : ~IsCounter(m) /\ fxAt[m] = "done" /\ image_[n] = image_[m]

\* No image belongs to two effects, and what one has just got is nobody's result.
FxApart ==
    /\ \A n, k \in Fx!Nodes : n # k => Owned(n) \cap Owned(k) = {}
    /\ \A n \in Fx!Nodes :
          /\ Once(imgs_[n]) /\ Once(got[n])
          /\ Fx!Elements(imgs_[n]) \cap Fx!Elements(got[n]) = {}
          /\ \A k \in Fx!Nodes : image_[k] \notin Fx!Elements(got[n])

\* Who keeps images from one frame to the next, and how many.
Remembers(n, memory, image, slot, length) ==
    /\ Fx!Kind(n) = "source" => Len(memory) = 2
    /\ Fx!Kind(n) = "pic" => Len(memory) = 1
    /\ Fx!Kind(n) \in Fx!Sources => image \in Fx!Elements(memory) \cup {0}
    /\ Fx!Kind(n) \notin Fx!Sources \cup {"delay"} => memory = <<>>
    /\ Fx!Kind(n) = "delay" =>
          IF program[n].size = 0 \/ length = 0 THEN memory = <<>> /\ slot = 0
          ELSE Len(memory) = program[n].size /\ slot < program[n].size

FxRemembered == \A n \in Fx!Nodes : Remembers(n, imgs_[n], image_[n], curr_[n], Len(past[n]))

\* The pool has what nobody holds, each image once and by its channels.
Free(lists) == Fx!Elements(lists[1]) \cup Fx!Elements(lists[4])

IsPool(lists) ==
    /\ lists \in [{1, 4} -> Lists]
    /\ \A c \in {1, 4} : Once(lists[c]) /\ \A i \in Fx!Elements(lists[c]) : chans[i] = c

FxPool ==
    LET held == Fx!Held(image_, imgs_, got) \ {0}
    IN  held \cap Free(list_) = {} /\ held \cup Free(list_) = Images /\ IsPool(list_)

FxShown == \A n \in Fx!Nodes : fxAt[n] = "done" => onImage[image_[n]] = past[n][ticker]

\* How many frames ago the place p of a ring was drawn, when c is the next.
Age(p, c, size) == IF p < c THEN c - 1 - p ELSE c - 1 - p + size

\* In its ring a delay has the last frames of its argument.
IsRing(ring, on, c, size, frames, k) ==
    \A p \in 0 .. size - 1 :
        on[ring[p + 1]] = IF Age(p, c, size) < k THEN frames[k - Age(p, c, size)] ELSE Fx!Blank

FxRings ==
    \A n \in Fx!Nodes : Fx!Kind(n) = "delay" /\ past[n] # <<>> =>
        IsRing(imgs_[n], onImage, curr_[n], program[n].size, past[Fx!Arg(n)], Len(past[n]))

\* What was drawn in this frame was drawn by an effect that is done.
IsOld(f) ==
    /\ f[1] \in Fx!Nodes \cup {0} /\ f[2] <= ticker
    /\ f[2] = ticker /\ f[1] # 0 => fxAt[f[1]] = "done"

FxStamped == \A i \in Images : IsOld(onImage[i])

\* A trail that draws alone takes two images in turn.
IsAlone(n) == Fx!Kind(n) = "trail" /\ \A k \in Fx!Nodes \ {n} : Fx!Kind(k) \in Fx!Sources

FxTrails ==
    \A n \in Fx!Nodes : IsAlone(n) =>
        LET k == Len(past[n])
        IN  /\ \A i \in Images : chans[i] = 4
            /\ Len(got[n]) <= 1
            /\ k = 0 => image_[n] = 0
            /\ k > 0 => image_[n] # 0 /\ onImage[image_[n]] = <<n, k>>
            /\ k < 2 => list_[4] = <<>>
            /\ k >= 2 => /\ Len(list_[4]) + Len(got[n]) = 1
                         /\ \A i \in Fx!Elements(list_[4]) \cup Fx!Elements(got[n]) :
                               onImage[i] = <<n, k - 1>>

FxInv ==
    /\ FxTyped /\ FxOrdered /\ FxApart /\ FxRemembered /\ FxPool /\ FxShown /\ FxRings
    /\ FxStamped /\ FxTrails /\ Fx!DelaysShowThePast /\ Fx!TrailsAreOld

-----------------------------------------------------------------------------
(* The invariant of the mixer.                                              *)

Sounds  == Nat \X Nat
Samples == Seq(Sounds)

MixTyped ==
    /\ made \in Nat
    /\ mixAt \in [Videos -> {"none", "unpausing", "live", "pausing", "stopping"}]
    /\ life \in [Videos -> Nat] /\ given \in [Videos -> Nat] /\ heard \in [Videos -> Samples]
    /\ DOMAIN read_ \subseteq Videos /\ \A v \in DOMAIN read_ : read_[v] \in DOMAIN pipe
    /\ DOMAIN pipe \subseteq Mix!Pipes /\ \A p \in DOMAIN pipe : pipe[p] \in Samples
    /\ DOMAIN write_ \subseteq Videos

\* A video that can be heard has a pipe of its own at both ends, and the others
\* write to no pipe.
MixApart ==
    /\ \A v, w \in DOMAIN read_ : read_[v] = read_[w] => v = w
    /\ \A v \in DOMAIN read_ : v \in DOMAIN write_ /\ write_[v] = read_[v]
    /\ \A v \in DOMAIN write_ \ DOMAIN read_ : write_[v] = 0
    /\ m_ = Mix!Device => todo \subseteq DOMAIN read_

\* The n samples of a life, in order: h are heard, and q are in the pipe.
AreSounds(h, q, l, n) ==
    /\ \A i \in 1 .. Len(h) : h[i] = <<l, i>>
    /\ \A i \in 1 .. Len(q) : q[i] = <<l, Len(h) + i>>
    /\ Len(h) + Len(q) = n

MixHeard ==
    \A v \in Videos :
        /\ mixAt[v] \in {"unpausing", "live"} <=> v \in DOMAIN read_
        /\ v \in DOMAIN read_ => AreSounds(heard[v], pipe[read_[v]], life[v], given[v])

MixInv == MixTyped /\ MixApart /\ MixHeard

-----------------------------------------------------------------------------
(* Lists of images, and what follows from the invariant.                    *)

LEMMA Grown ==
    ASSUME NEW s \in Lists, NEW x \in Nat \ {0}
    PROVE  /\ Append(s, x) \in Lists /\ Len(Append(s, x)) = Len(s) + 1
           /\ Fx!Elements(Append(s, x)) = Fx!Elements(s) \cup {x}
           /\ Once(s) /\ x \notin Fx!Elements(s) => Once(Append(s, x))
  <1>1. /\ Append(s, x) \in Lists /\ Len(Append(s, x)) = Len(s) + 1 /\ Len(s) \in Nat
        /\ DOMAIN Append(s, x) = 1 .. Len(s) + 1 /\ DOMAIN s = 1 .. Len(s)
    BY DEF Lists
  <1>2. \A i \in 1 .. Len(s) + 1 : Append(s, x)[i] = IF i <= Len(s) THEN s[i] ELSE x
    BY DEF Lists
  <1>3. Fx!Elements(Append(s, x)) = Fx!Elements(s) \cup {x}
    <2>1. ASSUME NEW e \in Fx!Elements(Append(s, x))
          PROVE  e \in Fx!Elements(s) \cup {x}
      BY <1>1, <1>2, <2>1 DEF Fx!Elements
    <2>2. ASSUME NEW e \in Fx!Elements(s)
          PROVE  e \in Fx!Elements(Append(s, x))
      <3>1. PICK i \in 1 .. Len(s) : e = s[i]
        BY <1>1 DEF Fx!Elements
      <3>2. i \in 1 .. Len(s) + 1 /\ Append(s, x)[i] = e
        BY <1>1, <1>2, <3>1
      <3>. QED BY <1>1, <3>2 DEF Fx!Elements
    <2>3. x \in Fx!Elements(Append(s, x))
      <3>1. Len(s) + 1 \in 1 .. Len(s) + 1 /\ Append(s, x)[Len(s) + 1] = x
        BY <1>1, <1>2
      <3>. QED BY <1>1, <3>1 DEF Fx!Elements
    <2>. QED BY <2>1, <2>2, <2>3
  <1>4. Once(s) /\ x \notin Fx!Elements(s) => Once(Append(s, x))
    BY <1>1, <1>2 DEF Once, Fx!Elements
  <1>. QED BY <1>1, <1>3, <1>4

LEMMA WithoutTheLast ==
    ASSUME NEW s \in Lists, s # <<>>
    PROVE  LET f == SubSeq(s, 1, Len(s) - 1)
               x == s[Len(s)]
           IN  /\ x \in Nat \ {0} /\ f \in Lists /\ Len(f) = Len(s) - 1
               /\ \A i \in DOMAIN f : i \in DOMAIN s /\ f[i] = s[i]
               /\ Fx!Elements(s) = Fx!Elements(f) \cup {x}
               /\ Once(s) => Once(f) /\ x \notin Fx!Elements(f)
  <1>. DEFINE f == SubSeq(s, 1, Len(s) - 1)
              x == s[Len(s)]
  <1>0. Len(s) \in Nat \ {0} /\ DOMAIN s = 1 .. Len(s) /\ \A i \in 1 .. Len(s) : s[i] \in Nat \ {0}
    BY DEF Lists
  <1>1. /\ Len(s) \in Nat \ {0} /\ DOMAIN s = 1 .. Len(s) /\ x \in Nat \ {0}
        /\ f \in Lists /\ Len(f) = Len(s) - 1 /\ DOMAIN f = 1 .. Len(s) - 1
    <2>1. f \in Lists /\ Len(f) = Len(s) - 1
      BY <1>0, SubSeqProperties DEF Lists
    <2>. QED BY <1>0, <2>1 DEF Lists
  <1>2. ASSUME NEW i \in 1 .. Len(s) - 1
        PROVE  f[i] = s[i]
    BY <1>1 DEF Lists
  <1>. HIDE DEF f
  <1>3. Fx!Elements(s) = Fx!Elements(f) \cup {x}
    BY <1>1, <1>2 DEF Fx!Elements
  <1>4. Once(s) => Once(f) /\ x \notin Fx!Elements(f)
    BY <1>1, <1>2 DEF Once, Fx!Elements
  <1>. QED BY <1>1, <1>2, <1>3, <1>4 DEF f

\* The elements of short lists.
LEMMA FewElements ==
    /\ <<>> \in Lists /\ Fx!Elements(<<>>) = {} /\ Once(<<>>)
    /\ \A s \in Lists : /\ s = <<>> <=> Len(s) = 0
                        /\ Len(s) \in Nat /\ DOMAIN s = 1 .. Len(s)
                        /\ \A i \in 1 .. Len(s) : s[i] \in Fx!Elements(s)
                        /\ Fx!Elements(s) \subseteq Nat \ {0}
                        /\ Len(s) = 1 => Fx!Elements(s) = {s[1]} /\ Once(s)
                        /\ Len(s) = 2 => Fx!Elements(s) = {s[1], s[2]}
  BY DEF Lists, Fx!Elements, Once

\* What is asked of a program.
LEMMA ProgramFacts ==
    ASSUME FxTyped
    PROVE  /\ Len(program) \in Nat /\ Fx!Nodes = 1 .. Len(program)
           /\ \A n \in Fx!Nodes :
                 /\ \A i \in DOMAIN program[n].args : program[n].args[i] \in Fx!Nodes /\ program[n].args[i] < n
                 /\ Fx!Kind(n) \notin Fx!Sources =>
                       1 \in DOMAIN program[n].args /\ Fx!Arg(n) \in Fx!Nodes /\ Fx!Arg(n) # n
                 /\ Fx!Kind(n) = "delay" => program[n].size \in Nat
  <1>1. Len(program) \in Nat /\ Fx!Nodes = 1 .. Len(program)
    BY ObjectsAssumption DEF FxTyped, Fx!ImageEffectsAssumption, Fx!Nodes
  <1>2. ASSUME NEW n \in Fx!Nodes
        PROVE  /\ program[n].args \in Seq(1 .. n - 1)
               /\ program[n].kind \notin Fx!Sources => program[n].args # <<>>
               /\ program[n].kind = "delay" => program[n].size \in Nat
    BY ObjectsAssumption DEF FxTyped, Fx!ImageEffectsAssumption, Fx!Nodes
  <1>3. ASSUME NEW m \in Int, NEW t \in Seq(1 .. m)
        PROVE  (\A j \in DOMAIN t : t[j] \in 1 .. m) /\ (t # <<>> => 1 \in DOMAIN t)
    OBVIOUS
  <1>4. ASSUME NEW n \in Fx!Nodes
        PROVE  /\ \A i \in DOMAIN program[n].args : program[n].args[i] \in 1 .. n - 1
               /\ program[n].kind \notin Fx!Sources => 1 \in DOMAIN program[n].args
    <2>. DEFINE m == n - 1
                t == program[n].args
    <2>1. m \in Int
      BY <1>1
    <2>2. t \in Seq(1 .. m) /\ (program[n].kind \notin Fx!Sources => t # <<>>)
      BY <1>2
    <2>. HIDE DEF m, t
    <2>3. (\A j \in DOMAIN t : t[j] \in 1 .. m) /\ (t # <<>> => 1 \in DOMAIN t)
      BY <1>3, <2>1, <2>2
    <2>. QED BY <2>2, <2>3 DEF m, t
  <1>5. \A n \in Fx!Nodes : \A m \in 1 .. n - 1 : m \in Fx!Nodes /\ m < n /\ m # n
    BY <1>1
  <1>. QED BY <1>1, <1>2, <1>4, <1>5 DEF Fx!Kind, Fx!Arg

\* The images that somebody refers to exist, and are not in the pool.
LEMMA WhatIsHeld ==
    ASSUME FxTyped, FxPool, NEW n \in Fx!Nodes
    PROVE  /\ Mine(n) \subseteq Images /\ Mine(n) \cap Free(list_) = {}
           /\ image_[n] \in Nat
           /\ image_[n] # 0 => image_[n] \in Images /\ image_[n] \notin Free(list_)
  <1>1. imgs_[n] \in Lists /\ got[n] \in Lists
    BY DEF FxTyped
  <1>2. Mine(n) \subseteq Nat \ {0}
    BY <1>1, FewElements DEF Mine
  <1>3. Mine(n) \subseteq Fx!Held(image_, imgs_, got) \ {0}
    BY <1>2 DEF Mine, Fx!Held
  <1>4. image_[n] # 0 => image_[n] \in Fx!Held(image_, imgs_, got) \ {0}
    BY DEF Fx!Held
  <1>5. image_[n] \in Nat
    BY DEF FxTyped
  <1>. QED BY <1>3, <1>4, <1>5 DEF FxPool, Free

LEMMA WhatIsOnImages ==
    ASSUME FxTyped, NEW i \in Images
    PROVE  i \in Nat \ {0} /\ chans[i] \in {1, 4} /\ onImage[i] \in Frames
  BY DEF FxTyped, Images

\* The effects are of the kinds that there are, and their arguments are done while they
\* are in process().
LEMMA KindsOfEffects ==
    ASSUME FxTyped, FxOrdered, FxPool, NEW n \in Fx!Nodes
    PROVE  /\ Fx!Kind(n) \in Fx!Kinds
           /\ Fx!Kind(n) \notin Fx!Sources /\ fxAt[n] = "process" =>
                 /\ fxAt[Fx!Arg(n)] = "done" /\ image_[Fx!Arg(n)] \in Images
                 /\ chans[image_[Fx!Arg(n)]] \in {1, 4} /\ Fx!Input(n) \in Frames
  <1>1. Fx!Kind(n) \in Fx!Kinds
    BY ObjectsAssumption DEF FxTyped, Fx!ImageEffectsAssumption, Fx!Nodes, Fx!Kind
  <1>2. ASSUME Fx!Kind(n) \notin Fx!Sources, fxAt[n] = "process"
        PROVE  fxAt[Fx!Arg(n)] = "done" /\ Fx!Arg(n) \in Fx!Nodes
    BY <1>2, ProgramFacts DEF FxOrdered, Fx!Arg
  <1>3. ASSUME Fx!Kind(n) \notin Fx!Sources, fxAt[n] = "process"
        PROVE  /\ image_[Fx!Arg(n)] \in Images
               /\ chans[image_[Fx!Arg(n)]] \in {1, 4} /\ Fx!Input(n) \in Frames
    <2>1. image_[Fx!Arg(n)] # 0
      BY <1>2, <1>3 DEF FxOrdered
    <2>2. image_[Fx!Arg(n)] \in Images
      BY <1>2, <1>3, <2>1, WhatIsHeld
    <2>3. chans[image_[Fx!Arg(n)]] \in {1, 4} /\ onImage[image_[Fx!Arg(n)]] \in Frames
      BY <2>2, WhatIsOnImages
    <2>. QED BY <2>2, <2>3 DEF Fx!Input
  <1>. QED BY <1>1, <1>2, <1>3

\* How many images process() gets, and of which channels.
LEMMA HowManyImages ==
    ASSUME FxTyped, FxOrdered, FxPool, NEW n \in Fx!Nodes, fxAt[n] = "process"
    PROVE  /\ Len(Fx!Gets(n)) \in Nat
           /\ \A i \in 1 .. Len(Fx!Gets(n)) : Fx!Gets(n)[i] \in {1, 4}
           /\ Fx!Kind(n) \in Fx!Sources \cup {"fps_counter"} => Len(Fx!Gets(n)) = 0
           /\ Fx!Kind(n) \in {"contours", "polygons"} => Len(Fx!Gets(n)) = 2
           /\ Fx!Kind(n) \in Fx!Drawing \cup {"grayscale", "trail"} => Len(Fx!Gets(n)) = 1
           /\ Fx!Kind(n) = "trail" => Fx!Gets(n)[1] = chans[image_[Fx!Arg(n)]]
           /\ Fx!Kind(n) = "delay" =>
                 Len(Fx!Gets(n)) = IF program[n].size = 0 THEN 1
                                   ELSE IF Len(imgs_[n]) = program[n].size THEN 0
                                   ELSE program[n].size
  <1>. DEFINE like == chans[image_[Fx!Arg(n)]]
              g == Fx!Gets(n)
  <1>1. CASE Fx!Kind(n) \in Fx!Sources \cup {"fps_counter"}
    <2>1. g = <<>>
      BY <1>1 DEF Fx!Gets, Fx!Sources, Fx!Drawing
    <2>. QED BY <1>1, <2>1 DEF Fx!Sources, Fx!Drawing
  <1>2. CASE Fx!Kind(n) \notin Fx!Sources \cup {"fps_counter"}
    <2>0. like \in {1, 4}
      BY <1>2, KindsOfEffects
    <2>1. CASE Fx!Kind(n) = "grayscale"
      <3>1. g = <<1>>
        BY <2>1 DEF Fx!Gets, Fx!Sources, Fx!Drawing
      <3>. QED BY <2>1, <3>1 DEF Fx!Sources, Fx!Drawing
    <2>2. CASE Fx!Kind(n) \in {"contours", "polygons"}
      <3>1. g = <<like, 4>>
        BY <2>2 DEF Fx!Gets, Fx!Sources, Fx!Drawing
      <3>. QED BY <2>0, <2>2, <3>1 DEF Fx!Sources, Fx!Drawing
    <2>3. CASE Fx!Kind(n) \in Fx!Drawing \cup {"trail"}
      <3>1. g = <<like>>
        BY <2>3 DEF Fx!Gets, Fx!Sources, Fx!Drawing
      <3>. QED BY <2>0, <2>3, <3>1 DEF Fx!Sources, Fx!Drawing
    <2>4. CASE Fx!Kind(n) = "delay"
      <3>1. g = IF program[n].size = 0 THEN <<like>>
                ELSE IF Len(imgs_[n]) = program[n].size THEN <<>>
                ELSE [i \in 1 .. program[n].size |-> like]
        BY <2>4 DEF Fx!Gets, Fx!Sources, Fx!Drawing
      <3>2. program[n].size \in Nat
        BY <2>4, ProgramFacts
      <3>3. ASSUME NEW s \in Nat
            PROVE  LET f == [i \in 1 .. s |-> like]
                   IN  Len(f) = s /\ \A i \in 1 .. s : f[i] = like
        BY <3>3
      <3>. QED BY <2>0, <2>4, <3>1, <3>2, <3>3 DEF Fx!Sources, Fx!Drawing
    <2>. QED BY <1>2, <2>1, <2>2, <2>3, <2>4, KindsOfEffects DEF Fx!Kinds
  <1>. QED BY <1>1, <1>2

\* What an effect that is done shows is not drawn on by one that is in process().
LEMMA WhatIsShownIsLeftAlone ==
    ASSUME FxTyped, FxOrdered, FxApart, NEW n \in Fx!Nodes, fxAt[n] = "process",
           NEW k \in Fx!Nodes, fxAt[k] = "done"
    PROVE  image_[k] \notin Mine(n)
  <1>1. ASSUME NEW m \in Fx!Nodes, fxAt[m] = "done", ~IsCounter(m)
        PROVE  image_[m] \notin Mine(n)
    <2>1. m # n /\ image_[m] # 0
      BY <1>1 DEF FxOrdered
    <2>. QED BY <1>1, <2>1 DEF FxApart, Owned
  <1>. QED BY <1>1 DEF FxOrdered

\* An image that comes back is in its list, once.
LEMMA ReturnedIsFree ==
    ASSUME NEW lists, IsPool(lists), NEW image \in Nat, NEW held,
           image # 0 => chans[image] \in {1, 4} /\ image \notin Free(lists)
    PROVE  LET r == Fx!Returned(lists, image, held)
           IN  /\ IsPool(r)
               /\ Free(r) = Free(lists) \cup ({image} \ (held \cup {0}))
               /\ image = 0 \/ image \in held => r = lists
               /\ image # 0 /\ image \notin held =>
                     r = [lists EXCEPT ![chans[image]] = Append(@, image)]
  <1>. DEFINE r == Fx!Returned(lists, image, held)
              c == chans[image]
              longer == Append(lists[c], image)
  <1>1. CASE image = 0 \/ image \in held
    BY <1>1 DEF Fx!Returned
  <1>2. CASE image # 0 /\ image \notin held
    <2>1. r = [lists EXCEPT ![c] = longer] /\ c \in {1, 4}
      BY <1>2 DEF Fx!Returned
    <2>2. lists[c] \in Lists /\ Once(lists[c]) /\ image \notin Fx!Elements(lists[c]) /\ image \in Nat \ {0}
      BY <1>2, <2>1 DEF IsPool, Free
    <2>3. longer \in Lists /\ Fx!Elements(longer) = Fx!Elements(lists[c]) \cup {image} /\ Once(longer)
      BY <2>2, Grown
    <2>. HIDE DEF r, longer
    <2>4. r \in [{1, 4} -> Lists] /\ \A d \in {1, 4} : r[d] = IF d = c THEN longer ELSE lists[d]
      BY <2>1, <2>3 DEF IsPool
    <2>5. IsPool(r)
      BY <2>3, <2>4 DEF IsPool, c
    <2>6. Free(r) = Free(lists) \cup {image}
      BY <2>1, <2>3, <2>4 DEF Free
    <2>. QED BY <1>2, <2>1, <2>4, <2>5, <2>6 DEF r, longer
  <1>. QED BY <1>1, <1>2

\* What an effect gives: its result, what it keeps, and the image that it only used, are
\* all that was its own.
Gives(n, image, memory, scratch) ==
    /\ fxAt[n] = "process"
    /\ memory \in Lists /\ Once(memory) /\ Fx!Elements(memory) \subseteq Mine(n)
    /\ scratch \in Nat
    /\ scratch # 0 => scratch \in Fx!Elements(got[n]) \ ({image} \cup Fx!Elements(memory))
    /\ Mine(n) \subseteq {image, scratch} \cup Fx!Elements(memory)
    /\ IF IsCounter(n) THEN image = image_[Fx!Arg(n)] /\ Mine(n) = {} ELSE image \in Mine(n)
    /\ Fx!Kind(n) \in Fx!Sources => scratch = 0

\* What it draws is on its own images.
Paints(n, on) ==
    /\ on \in Seq(Frames) /\ Len(on) = Len(onImage)
    /\ \A i \in Images :
          /\ i \notin Mine(n) => on[i] = onImage[i]
          /\ on[i] \in {Fx!Drawn(n), Fx!Blank} \/ \E j \in Images : on[i] = onImage[j]

\* What it remembers, and what a delay and a trail show.
Continues(n, image, memory, on) ==
    /\ curr_' \in [Fx!Nodes -> Nat] /\ \A k \in Fx!Nodes \ {n} : curr_'[k] = curr_[k]
    /\ mixed' \in [Fx!Nodes -> Frames] /\ \A k \in Fx!Nodes \ {n} : mixed'[k] = mixed[k]
    /\ Remembers(n, memory, image, curr_'[n], Len(past[n]) + 1)
    /\ Fx!Kind(n) = "delay" =>
          LET k    == Len(past[n]) + 1
              back == IF program[n].size = 0 THEN 0 ELSE program[n].size - 1
          IN  /\ on[image] = IF k > back THEN past[Fx!Arg(n)][k - back] ELSE Fx!Blank
              /\ IsRing(memory, on, curr_'[n], program[n].size, past[Fx!Arg(n)], k)
    /\ Fx!Kind(n) = "trail" =>
          /\ Len(got[n]) = 1 /\ image = got[n][1]
          /\ mixed'[n] = onImage[image] /\ on[image] = Fx!Drawn(n)

LEMMA GivenImage ==
    ASSUME FxTyped, FxOrdered, FxPool, NEW n \in Fx!Nodes, NEW image, NEW memory, NEW scratch,
           Gives(n, image, memory, scratch)
    PROVE  image \in Images /\ image \in Nat \ {0}
  <1>1. CASE IsCounter(n)
    BY <1>1, KindsOfEffects, WhatIsOnImages DEF Gives, IsCounter, Fx!Sources
  <1>2. CASE ~IsCounter(n)
    BY <1>2, WhatIsHeld, WhatIsOnImages DEF Gives
  <1>. QED BY <1>1, <1>2

LEMMA HeldBy ==
    ASSUME NEW a, NEW b, NEW c, NEW i
    PROVE  i \in Fx!Held(a, b, c) <=>
              \E k \in Fx!Nodes : i = a[k] \/ i \in Fx!Elements(b[k]) \/ i \in Fx!Elements(c[k])
  BY DEF Fx!Held

\* What is different after it.
LEMMA AfterGive ==
    ASSUME FxTyped, FxOrdered, FxPool, NEW n \in Fx!Nodes, NEW image, NEW memory, NEW scratch, NEW on,
           Gives(n, image, memory, scratch), Paints(n, on), Fx!Give(n, image, memory, scratch, on)
    PROVE  /\ program' = program /\ ticker' = ticker /\ chans' = chans /\ onImage' = on
           /\ Fx!Nodes' = Fx!Nodes /\ Images' = Images
           /\ image_' \in [Fx!Nodes -> Nat] /\ imgs_' \in [Fx!Nodes -> Lists] /\ got' \in [Fx!Nodes -> Lists]
           /\ fxAt' \in [Fx!Nodes -> {"todo", "process", "done"}] /\ past' \in [Fx!Nodes -> Seq(Frames)]
           /\ image_'[n] = image /\ imgs_'[n] = memory /\ got'[n] = <<>> /\ fxAt'[n] = "done"
           /\ \A k \in Fx!Nodes \ {n} : /\ image_'[k] = image_[k] /\ imgs_'[k] = imgs_[k] /\ got'[k] = got[k]
                                       /\ fxAt'[k] = fxAt[k] /\ past'[k] = past[k]
           /\ Len(past[n]) \in Nat /\ Len(past'[n]) = Len(past[n]) + 1
           /\ past'[n][Len(past[n]) + 1] = on[image]
           /\ \A j \in 1 .. Len(past[n]) : past'[n][j] = past[n][j]
  <1>1. /\ image \in Nat /\ memory \in Lists /\ <<>> \in Lists /\ past[n] \in Seq(Frames)
        /\ DOMAIN on = DOMAIN onImage
    <2>1. image \in Nat /\ memory \in Lists /\ <<>> \in Lists
      BY GivenImage, FewElements DEF Gives
    <2>2. past[n] \in Seq(Frames)
      BY DEF FxTyped
    <2>3. on \in Seq(Frames) /\ onImage \in Seq(Frames) /\ Len(on) = Len(onImage)
      BY DEF Paints, FxTyped
    <2>. QED BY <2>1, <2>2, <2>3
  <1>2. on[image] \in Frames
    BY <1>1, GivenImage DEF Paints, Images
  <1>3. ASSUME NEW s \in Seq(Frames), NEW f \in Frames
        PROVE  /\ Append(s, f) \in Seq(Frames) /\ Len(s) \in Nat /\ Len(Append(s, f)) = Len(s) + 1
               /\ Append(s, f)[Len(s) + 1] = f /\ \A j \in 1 .. Len(s) : Append(s, f)[j] = s[j]
    OBVIOUS
  <1>4. /\ Append(past[n], on[image]) \in Seq(Frames)
        /\ Len(past[n]) \in Nat /\ Len(Append(past[n], on[image])) = Len(past[n]) + 1
        /\ Append(past[n], on[image])[Len(past[n]) + 1] = on[image]
        /\ \A j \in 1 .. Len(past[n]) : Append(past[n], on[image])[j] = past[n][j]
    BY <1>1, <1>2, <1>3
  <1>5. /\ image_' = [image_ EXCEPT ![n] = image] /\ imgs_' = [imgs_ EXCEPT ![n] = memory]
        /\ got' = [got EXCEPT ![n] = <<>>] /\ fxAt' = [fxAt EXCEPT ![n] = "done"]
        /\ past' = [past EXCEPT ![n] = Append(past[n], on[image])]
        /\ program' = program /\ ticker' = ticker /\ chans' = chans /\ onImage' = on
    BY DEF Fx!Give
  <1>6. past' \in [Fx!Nodes -> Seq(Frames)] /\ past'[n] = Append(past[n], on[image])
        /\ \A k \in Fx!Nodes \ {n} : past'[k] = past[k]
    BY <1>4, <1>5 DEF FxTyped
  <1>7. /\ image_' \in [Fx!Nodes -> Nat] /\ imgs_' \in [Fx!Nodes -> Lists] /\ got' \in [Fx!Nodes -> Lists]
        /\ fxAt' \in [Fx!Nodes -> {"todo", "process", "done"}]
        /\ image_'[n] = image /\ imgs_'[n] = memory /\ got'[n] = <<>> /\ fxAt'[n] = "done"
        /\ \A k \in Fx!Nodes \ {n} : /\ image_'[k] = image_[k] /\ imgs_'[k] = imgs_[k] /\ got'[k] = got[k]
                                    /\ fxAt'[k] = fxAt[k]
    BY <1>1, <1>5 DEF FxTyped
  <1>8. Fx!Nodes' = Fx!Nodes /\ Images' = Images
    BY <1>1, <1>5 DEF Fx!Nodes, Images
  <1>. QED BY <1>4, <1>5, <1>6, <1>7, <1>8

\* The pool.
LEMMA GivePool ==
    ASSUME FxTyped, FxOrdered, FxApart, FxPool,
           NEW n \in Fx!Nodes, NEW image, NEW memory, NEW scratch, NEW on,
           Gives(n, image, memory, scratch), Paints(n, on), Fx!Give(n, image, memory, scratch, on)
    PROVE  /\ FxPool' /\ list_' \in [{1, 4} -> Lists]
           /\ scratch = 0 /\ (image_[n] = 0 \/ image_[n] \in Fx!Elements(memory)) => list_' = list_
           /\ scratch = 0 /\ image_[n] # 0 /\ (\A k \in Fx!Nodes : image_[n] \notin Mine(k))
              /\ image_[n] # image /\ (\A k \in Fx!Nodes \ {n} : image_[k] # image_[n]) =>
                 list_' = [list_ EXCEPT ![chans[image_[n]]] = Append(@, image_[n])]
  <1>. DEFINE images   == [image_ EXCEPT ![n] = image]
              memories == [imgs_ EXCEPT ![n] = memory]
              locals   == [got EXCEPT ![n] = <<>>]
              held     == Fx!Held(images, memories, locals)
              r        == Fx!Returned(list_, scratch, held)
  <1>1. /\ list_' = Fx!Returned(r, image_[n], held)
        /\ image_' = images /\ imgs_' = memories /\ got' = locals
    BY DEF Fx!Give
  <1>2. ASSUME NEW i
        PROVE  i \in held <=> \/ \E k \in Fx!Nodes \ {n} : i = image_[k] \/ i \in Mine(k)
                              \/ i = image \/ i \in Fx!Elements(memory)
    <2>1. i \in held <=> \E k \in Fx!Nodes :
                            i = images[k] \/ i \in Fx!Elements(memories[k]) \/ i \in Fx!Elements(locals[k])
      BY HeldBy
    <2>2. \A k \in Fx!Nodes \ {n} : images[k] = image_[k] /\ memories[k] = imgs_[k] /\ locals[k] = got[k]
      BY <1>1, AfterGive
    <2>3. images[n] = image /\ memories[n] = memory /\ locals[n] = <<>>
      BY <1>1, AfterGive
    <2>. HIDE DEF held, images, memories, locals
    <2>. QED BY <2>1, <2>2, <2>3, FewElements DEF Mine
  <1>. HIDE DEF held, images, memories, locals
  <1>3. IsPool(list_) /\ scratch \in Nat /\ image_[n] \in Nat
    BY WhatIsHeld DEF FxPool, Gives
  <1>4. scratch # 0 => /\ scratch \in Mine(n) /\ scratch \notin held /\ scratch # image_[n]
                       /\ chans[scratch] \in {1, 4} /\ scratch \notin Free(list_)
    <2>1. ASSUME scratch # 0
          PROVE  /\ scratch \in Mine(n) /\ scratch \in Fx!Elements(got[n]) /\ scratch # image
                 /\ scratch \notin Fx!Elements(memory)
      BY <2>1 DEF Gives, Mine
    <2>2. ASSUME scratch # 0
          PROVE  scratch # image_[n] /\ \A k \in Fx!Nodes \ {n} : scratch # image_[k] /\ scratch \notin Mine(k)
      BY <2>1, <2>2 DEF FxApart, Owned
    <2>3. ASSUME scratch # 0
          PROVE  scratch \in Images /\ scratch \notin Free(list_)
      BY <2>1, <2>3, WhatIsHeld
    <2>. QED BY <1>2, <2>1, <2>2, <2>3, WhatIsOnImages
  <1>5. /\ IsPool(r) /\ Free(r) = Free(list_) \cup ({scratch} \ (held \cup {0}))
        /\ scratch = 0 => r = list_
    BY <1>3, <1>4, ReturnedIsFree
  <1>6. image_[n] # 0 => chans[image_[n]] \in {1, 4} /\ image_[n] \notin Free(r)
    BY <1>4, <1>5, WhatIsHeld, WhatIsOnImages
  <1>. HIDE DEF r
  <1>7. /\ IsPool(list_') /\ Free(list_') = Free(r) \cup ({image_[n]} \ (held \cup {0}))
        /\ image_[n] = 0 \/ image_[n] \in held => list_' = r
        /\ image_[n] # 0 /\ image_[n] \notin held =>
              list_' = [r EXCEPT ![chans[image_[n]]] = Append(@, image_[n])]
    <2>1. ASSUME NEW i \in Nat, i # 0 => chans[i] \in {1, 4} /\ i \notin Free(r)
          PROVE  LET q == Fx!Returned(r, i, held)
                 IN  /\ IsPool(q) /\ Free(q) = Free(r) \cup ({i} \ (held \cup {0}))
                     /\ i = 0 \/ i \in held => q = r
                     /\ i # 0 /\ i \notin held => q = [r EXCEPT ![chans[i]] = Append(@, i)]
      BY <1>5, <2>1, ReturnedIsFree
    <2>. QED BY <1>1, <1>3, <1>6, <2>1
  <1>8. held \ {0} \subseteq Images /\ (held \ {0}) \cap Free(list_') = {} /\ (held \ {0}) \cup Free(list_') = Images
    <2>1. ASSUME NEW i \in held, i # 0
          PROVE  i \in Images /\ i \notin Free(list_)
      <3>1. CASE i = image
        <4>1. CASE IsCounter(n)
          BY <2>1, <3>1, <4>1, KindsOfEffects, ProgramFacts, WhatIsHeld DEF Gives, IsCounter, Fx!Sources
        <4>2. CASE ~IsCounter(n)
          BY <3>1, <4>2, WhatIsHeld DEF Gives
        <4>. QED BY <4>1, <4>2
      <3>2. CASE i \in Fx!Elements(memory)
        BY <3>2, WhatIsHeld DEF Gives
      <3>3. CASE \E k \in Fx!Nodes \ {n} : i = image_[k] \/ i \in Mine(k)
        BY <2>1, <3>3, WhatIsHeld
      <3>. QED BY <1>2, <2>1, <3>1, <3>2, <3>3
    <2>2. ASSUME NEW i \in Images, i \notin held
          PROVE  i \in Free(list_')
      <3>1. i # 0
        BY WhatIsOnImages
      <3>2. CASE i \in Free(list_)
        BY <1>5, <1>7, <3>2
      <3>3. CASE i \notin Free(list_)
        <4>1. i \in Fx!Held(image_, imgs_, got)
          BY <3>3 DEF FxPool
        <4>2. PICK k \in Fx!Nodes : i = image_[k] \/ i \in Mine(k)
          BY <4>1, HeldBy DEF Mine
        <4>3. k = n
          BY <1>2, <2>2, <4>2
        <4>4. i = image_[n] \/ i = scratch
          BY <1>2, <2>2, <4>2, <4>3 DEF Gives
        <4>. QED BY <1>5, <1>7, <2>2, <3>1, <4>4
      <3>. QED BY <3>2, <3>3
    <2>3. Free(list_') \subseteq Images
      <3>1. Free(list_) \subseteq Images
        BY DEF FxPool
      <3>2. scratch # 0 => scratch \in Images
        BY <1>4, WhatIsHeld
      <3>3. image_[n] # 0 => image_[n] \in Images
        BY WhatIsHeld
      <3>. QED BY <1>5, <1>7, <3>1, <3>2, <3>3
    <2>4. ASSUME NEW i \in held, i # 0
          PROVE  i \notin Free(list_')
      BY <1>5, <1>7, <2>1, <2>4
    <2>5. \A i \in Images : i # 0
      BY WhatIsOnImages
    <2>6. held \ {0} \subseteq Images
      BY <2>1
    <2>7. (held \ {0}) \cap Free(list_') = {}
      BY <2>4
    <2>8. (held \ {0}) \cup Free(list_') = Images
      BY <2>2, <2>3, <2>5, <2>6
    <2>. QED BY <2>6, <2>7, <2>8
  <1>9. FxPool'
    <2>1. Fx!Held(image_, imgs_, got)' = held
      BY <1>1, AfterGive DEF Fx!Held, held, images, memories, locals
    <2>2. Images' = Images /\ Free(list_)' = Free(list_') /\ IsPool(list_)'
      BY <1>7, AfterGive DEF Free, IsPool
    <2>. QED BY <1>8, <2>1, <2>2 DEF FxPool
  <1>10. scratch = 0 /\ (image_[n] = 0 \/ image_[n] \in Fx!Elements(memory)) => list_' = list_
    BY <1>2, <1>5, <1>7
  <1>11. scratch = 0 /\ image_[n] # 0 /\ (\A k \in Fx!Nodes : image_[n] \notin Mine(k))
         /\ image_[n] # image /\ (\A k \in Fx!Nodes \ {n} : image_[k] # image_[n]) => 
            list_' = [list_ EXCEPT ![chans[image_[n]]] = Append(@, image_[n])]
    BY <1>2, <1>5, <1>7 DEF Gives
  <1>. QED BY <1>7, <1>9, <1>10, <1>11 DEF IsPool

\* The end of a process().
Ends(n, image, memory, scratch, on) ==
    /\ Gives(n, image, memory, scratch) /\ Paints(n, on) /\ Continues(n, image, memory, on)
    /\ Fx!Give(n, image, memory, scratch, on)

LEMMA GiveTyped ==
    ASSUME FxInv, NEW n \in Fx!Nodes, NEW image, NEW memory, NEW scratch, NEW on,
           Ends(n, image, memory, scratch, on)
    PROVE  FxTyped'
  <1>1. FxTyped /\ FxOrdered /\ FxApart /\ FxPool
    BY DEF FxInv
  <1>2. /\ Gives(n, image, memory, scratch) /\ Paints(n, on) /\ Continues(n, image, memory, on)
        /\ Fx!Give(n, image, memory, scratch, on)
    BY DEF Ends
  <1>3. /\ program' = program /\ ticker' = ticker /\ chans' = chans /\ onImage' = on
        /\ Fx!Nodes' = Fx!Nodes
        /\ image_' \in [Fx!Nodes -> Nat] /\ imgs_' \in [Fx!Nodes -> Lists] /\ got' \in [Fx!Nodes -> Lists]
        /\ fxAt' \in [Fx!Nodes -> {"todo", "process", "done"}] /\ past' \in [Fx!Nodes -> Seq(Frames)]
    BY <1>1, <1>2, AfterGive
  <1>4. list_' \in [{1, 4} -> Lists]
    BY <1>1, <1>2, GivePool
  <1>5. on \in Seq(Frames) /\ Len(on) = Len(onImage)
    BY <1>2 DEF Paints
  <1>6. curr_' \in [Fx!Nodes -> Nat] /\ mixed' \in [Fx!Nodes -> Frames]
    BY <1>2 DEF Continues
  <1>7. Frames' = Frames /\ Lists' = Lists
    BY DEF Frames, Lists
  <1>. QED BY <1>1, <1>3, <1>4, <1>5, <1>6, <1>7 DEF FxTyped

LEMMA GiveOrdered ==
    ASSUME FxInv, NEW n \in Fx!Nodes, NEW image, NEW memory, NEW scratch, NEW on,
           Ends(n, image, memory, scratch, on)
    PROVE  FxOrdered'
  <1>1. FxTyped /\ FxOrdered /\ FxApart /\ FxPool
    BY DEF FxInv
  <1>2. /\ Gives(n, image, memory, scratch) /\ Paints(n, on) /\ fxAt[n] = "process"
        /\ Fx!Give(n, image, memory, scratch, on)
    BY DEF Ends, Gives
  <1>3. /\ program' = program /\ ticker' = ticker /\ Fx!Nodes' = Fx!Nodes
        /\ image_'[n] = image /\ fxAt'[n] = "done" /\ image \in Nat \ {0}
        /\ \A k \in Fx!Nodes \ {n} : image_'[k] = image_[k] /\ fxAt'[k] = fxAt[k] /\ past'[k] = past[k]
        /\ Len(past[n]) \in Nat /\ Len(past'[n]) = Len(past[n]) + 1 /\ ticker \in Nat
    BY <1>1, <1>2, AfterGive, GivenImage DEF FxTyped
  <1>4. ASSUME NEW k \in Fx!Nodes
        PROVE  /\ fxAt'[k] \in {"process", "done"} =>
                     \A i \in DOMAIN program[k].args : fxAt'[program[k].args[i]] = "done"
               /\ fxAt'[k] = "done" => image_'[k] # 0
               /\ Len(past'[k]) = IF fxAt'[k] = "done" THEN ticker ELSE ticker - 1
    <2>1. CASE k = n
      <3>1. Len(past[n]) = ticker - 1
        BY <1>1, <1>2 DEF FxOrdered
      <3>2. \A i \in DOMAIN program[n].args : fxAt[program[n].args[i]] = "done" /\ program[n].args[i] \in Fx!Nodes \ {n}
        BY <1>1, <1>2, ProgramFacts DEF FxOrdered
      <3>. QED BY <1>3, <2>1, <3>1, <3>2
    <2>2. CASE k # n
      <3>1. ASSUME fxAt[k] \in {"process", "done"}, NEW i \in DOMAIN program[k].args
            PROVE  fxAt'[program[k].args[i]] = "done"
        <4>1. fxAt[program[k].args[i]] = "done" /\ program[k].args[i] \in Fx!Nodes
          BY <1>1, <3>1, ProgramFacts DEF FxOrdered
        <4>. QED BY <1>3, <4>1
      <3>. QED BY <1>1, <1>3, <2>2, <3>1 DEF FxOrdered
    <2>. QED BY <2>1, <2>2
  <1>5. ASSUME NEW k \in Fx!Nodes, fxAt'[k] = "done", IsCounter(k)
        PROVE  \E m \in Fx!Nodes : ~IsCounter(m) /\ fxAt'[m] = "done" /\ image_'[k] = image_'[m]
    <2>1. ASSUME NEW a \in Fx!Nodes, fxAt[a] = "done"
          PROVE  \E m \in Fx!Nodes : ~IsCounter(m) /\ fxAt'[m] = "done" /\ image_[a] = image_'[m]
      <3>1. PICK m \in Fx!Nodes : ~IsCounter(m) /\ fxAt[m] = "done" /\ image_[a] = image_[m]
        BY <1>1, <2>1 DEF FxOrdered
      <3>. QED BY <1>2, <1>3, <3>1
    <2>2. CASE k = n
      <3>1. image_'[n] = image_[Fx!Arg(n)] /\ Fx!Arg(n) \in Fx!Nodes /\ fxAt[Fx!Arg(n)] = "done"
        BY <1>1, <1>2, <1>3, <1>5, <2>2, ProgramFacts, KindsOfEffects DEF Gives, IsCounter, Fx!Sources
      <3>. QED BY <2>1, <2>2, <3>1
    <2>3. CASE k # n
      BY <1>3, <1>5, <2>1, <2>3
    <2>. QED BY <2>2, <2>3
  <1>6. \A k \in Fx!Nodes : IsCounter(k)' <=> IsCounter(k)
    BY <1>3 DEF IsCounter, Fx!Kind
  <1>. QED BY <1>3, <1>4, <1>5, <1>6 DEF FxOrdered

LEMMA GiveApart ==
    ASSUME FxInv, NEW n \in Fx!Nodes, NEW image, NEW memory, NEW scratch, NEW on,
           Ends(n, image, memory, scratch, on)
    PROVE  FxApart'
  <1>1. FxTyped /\ FxOrdered /\ FxApart /\ FxPool
    BY DEF FxInv
  <1>2. /\ Gives(n, image, memory, scratch) /\ Paints(n, on) /\ fxAt[n] = "process"
        /\ Fx!Give(n, image, memory, scratch, on)
    BY DEF Ends, Gives
  <1>3. /\ program' = program /\ Fx!Nodes' = Fx!Nodes
        /\ image_'[n] = image /\ imgs_'[n] = memory /\ got'[n] = <<>>
        /\ \A k \in Fx!Nodes \ {n} : image_'[k] = image_[k] /\ imgs_'[k] = imgs_[k] /\ got'[k] = got[k]
    BY <1>1, <1>2, AfterGive
  <1>4. \A k \in Fx!Nodes : IsCounter(k)' <=> IsCounter(k)
    BY <1>3 DEF IsCounter, Fx!Kind
  <1>5. \A k \in Fx!Nodes \ {n} : Owned(k)' = Owned(k)
    BY <1>3, <1>4 DEF Owned, Mine
  <1>6. Owned(n)' \subseteq Owned(n)
    <2>1. Owned(n)' = Fx!Elements(memory) \cup ((IF IsCounter(n) THEN {} ELSE {image}) \ {0})
      BY <1>3, <1>4, FewElements DEF Owned, Mine
    <2>. QED BY <1>2, <2>1 DEF Gives, Owned
  <1>7. \A k, m \in Fx!Nodes : k # m => Owned(k)' \cap Owned(m)' = {}
    BY <1>1, <1>5, <1>6 DEF FxApart
  <1>8. ASSUME NEW k \in Fx!Nodes
        PROVE  /\ Once(imgs_'[k]) /\ Once(got'[k])
               /\ Fx!Elements(imgs_'[k]) \cap Fx!Elements(got'[k]) = {}
    <2>1. CASE k = n
      BY <1>2, <1>3, <2>1, FewElements DEF Gives
    <2>2. CASE k # n
      BY <1>1, <1>3, <2>2 DEF FxApart
    <2>. QED BY <2>1, <2>2
  <1>9. ASSUME NEW k \in Fx!Nodes, NEW m \in Fx!Nodes
        PROVE  image_'[m] \notin Fx!Elements(got'[k])
    <2>1. CASE k = n
      BY <1>3, <2>1, FewElements
    <2>2. CASE k # n /\ m # n
      BY <1>1, <1>3, <2>2 DEF FxApart
    <2>3. CASE k # n /\ m = n /\ IsCounter(n)
      BY <1>1, <1>2, <1>3, <2>3, ProgramFacts DEF FxApart, Gives, IsCounter, Fx!Sources
    <2>4. CASE k # n /\ m = n /\ ~IsCounter(n)
      <3>1. image \in Owned(n)
        BY <1>2, <2>4 DEF Gives, Owned
      <3>2. Owned(n) \cap Owned(k) = {} /\ Fx!Elements(got[k]) \subseteq Owned(k)
        BY <1>1, <2>4 DEF FxApart, Owned, Mine
      <3>. QED BY <1>3, <2>4, <3>1, <3>2
    <2>. QED BY <2>1, <2>2, <2>3, <2>4
  <1>. QED BY <1>3, <1>7, <1>8, <1>9 DEF FxApart, Once, Fx!Elements

LEMMA GiveRemembered ==
    ASSUME FxInv, NEW n \in Fx!Nodes, NEW image, NEW memory, NEW scratch, NEW on,
           Ends(n, image, memory, scratch, on)
    PROVE  FxRemembered'
  <1>1. FxTyped /\ FxOrdered /\ FxPool /\ FxRemembered
    BY DEF FxInv
  <1>2. /\ Gives(n, image, memory, scratch) /\ Paints(n, on) /\ Continues(n, image, memory, on)
        /\ Fx!Give(n, image, memory, scratch, on)
    BY DEF Ends
  <1>3. /\ program' = program /\ Fx!Nodes' = Fx!Nodes
        /\ image_'[n] = image /\ imgs_'[n] = memory
        /\ \A k \in Fx!Nodes \ {n} : image_'[k] = image_[k] /\ imgs_'[k] = imgs_[k] /\ past'[k] = past[k]
        /\ Len(past'[n]) = Len(past[n]) + 1
    BY <1>1, <1>2, AfterGive
  <1>4. \A k \in Fx!Nodes \ {n} : curr_'[k] = curr_[k]
    BY <1>2 DEF Continues
  <1>5. ASSUME NEW k \in Fx!Nodes
        PROVE  Remembers(k, imgs_'[k], image_'[k], curr_'[k], Len(past'[k]))
    BY <1>1, <1>2, <1>3, <1>4 DEF FxRemembered, Continues
  <1>6. \A k \in Fx!Nodes : Remembers(k, imgs_[k], image_[k], curr_[k], Len(past[k]))' <=>
                            Remembers(k, imgs_'[k], image_'[k], curr_'[k], Len(past'[k]))
    BY <1>3 DEF Remembers, Fx!Kind, Fx!Elements
  <1>. QED BY <1>3, <1>5, <1>6 DEF FxRemembered

\* What is on the images of the others stays there.
LEMMA GiveLeaves ==
    ASSUME FxTyped, FxOrdered, FxApart, FxPool, NEW n \in Fx!Nodes, fxAt[n] = "process",
           NEW on, Paints(n, on), NEW k \in Fx!Nodes \ {n}
    PROVE  /\ \A i \in Mine(k) : i \in Images /\ on[i] = onImage[i]
           /\ fxAt[k] = "done" => on[image_[k]] = onImage[image_[k]]
           /\ ~IsCounter(k) /\ image_[k] # 0 => on[image_[k]] = onImage[image_[k]]
  <1>1. ASSUME NEW i \in Owned(k)
        PROVE  i \in Images /\ i \notin Mine(n)
    BY WhatIsHeld DEF FxApart, Owned
  <1>2. \A i \in Owned(k) : i \in Images /\ on[i] = onImage[i]
    BY <1>1 DEF Paints
  <1>3. ASSUME fxAt[k] = "done"
        PROVE  on[image_[k]] = onImage[image_[k]]
    <2>1. image_[k] # 0
      BY <1>3 DEF FxOrdered
    <2>2. image_[k] \in Images /\ image_[k] \notin Mine(n)
      BY <1>3, <2>1, WhatIsHeld, WhatIsShownIsLeftAlone
    <2>. QED BY <2>2 DEF Paints
  <1>. QED BY <1>2, <1>3 DEF Owned

LEMMA GiveShown ==
    ASSUME FxInv, NEW n \in Fx!Nodes, NEW image, NEW memory, NEW scratch, NEW on,
           Ends(n, image, memory, scratch, on)
    PROVE  FxShown'
  <1>1. FxTyped /\ FxOrdered /\ FxApart /\ FxPool /\ FxShown
    BY DEF FxInv
  <1>2. /\ Gives(n, image, memory, scratch) /\ Paints(n, on) /\ fxAt[n] = "process"
        /\ Fx!Give(n, image, memory, scratch, on)
    BY DEF Ends, Gives
  <1>3. /\ ticker' = ticker /\ Fx!Nodes' = Fx!Nodes /\ onImage' = on /\ image_'[n] = image
        /\ \A k \in Fx!Nodes \ {n} : image_'[k] = image_[k] /\ fxAt'[k] = fxAt[k] /\ past'[k] = past[k]
        /\ past'[n][Len(past[n]) + 1] = on[image]
    BY <1>1, <1>2, AfterGive
  <1>4. ASSUME NEW k \in Fx!Nodes, fxAt'[k] = "done"
        PROVE  on[image_'[k]] = past'[k][ticker]
    <2>1. CASE k = n
      <3>1. Len(past[n]) + 1 = ticker
        BY <1>1, <1>2 DEF FxOrdered, FxTyped
      <3>. QED BY <1>3, <2>1, <3>1
    <2>2. CASE k # n
      <3>1. on[image_[k]] = onImage[image_[k]]
        BY <1>1, <1>2, <1>3, <1>4, <2>2, GiveLeaves
      <3>. QED BY <1>1, <1>3, <1>4, <2>2, <3>1 DEF FxShown
    <2>. QED BY <2>1, <2>2
  <1>. QED BY <1>3, <1>4 DEF FxShown

LEMMA GiveStamped ==
    ASSUME FxInv, NEW n \in Fx!Nodes, NEW image, NEW memory, NEW scratch, NEW on,
           Ends(n, image, memory, scratch, on)
    PROVE  FxStamped'
  <1>1. FxTyped /\ FxOrdered /\ FxApart /\ FxPool /\ FxStamped
    BY DEF FxInv
  <1>2. /\ Gives(n, image, memory, scratch) /\ Paints(n, on) /\ fxAt[n] = "process"
        /\ Fx!Give(n, image, memory, scratch, on)
    BY DEF Ends, Gives
  <1>3. /\ ticker' = ticker /\ Fx!Nodes' = Fx!Nodes /\ onImage' = on /\ Images' = Images /\ fxAt'[n] = "done"
        /\ \A k \in Fx!Nodes \ {n} : fxAt'[k] = fxAt[k]
    BY <1>1, <1>2, AfterGive
  <1>4. ASSUME NEW f, IsOld(f)
        PROVE  /\ f[1] \in Fx!Nodes \cup {0} /\ f[2] <= ticker
               /\ f[2] = ticker /\ f[1] # 0 => fxAt'[f[1]] = "done"
    BY <1>2, <1>3, <1>4 DEF IsOld
  <1>5. ASSUME NEW i \in Images
        PROVE  /\ on[i][1] \in Fx!Nodes \cup {0} /\ on[i][2] <= ticker
               /\ on[i][2] = ticker /\ on[i][1] # 0 => fxAt'[on[i][1]] = "done"
    <2>1. CASE on[i] = Fx!Drawn(n)
      BY <1>1, <1>3, <2>1 DEF Fx!Drawn, FxTyped
    <2>2. CASE on[i] = Fx!Blank
      BY <1>1, <1>3, <2>2 DEF Fx!Blank, FxTyped
    <2>3. CASE \E j \in Images : on[i] = onImage[j]
      BY <1>1, <1>4, <2>3 DEF FxStamped
    <2>. QED BY <1>2, <2>1, <2>2, <2>3 DEF Paints
  <1>. QED BY <1>3, <1>5 DEF FxStamped, IsOld

\* An effect has given no more frames than its argument.
LEMMA ArgumentIsAhead ==
    ASSUME FxTyped, FxOrdered, NEW n \in Fx!Nodes, Fx!Kind(n) \notin Fx!Sources
    PROVE  /\ Fx!Arg(n) \in Fx!Nodes \ {n} /\ Len(past[n]) \in Nat /\ Len(past[Fx!Arg(n)]) \in Nat
           /\ Len(past[n]) <= Len(past[Fx!Arg(n)])
  <1>1. Fx!Arg(n) \in Fx!Nodes \ {n}
    BY ProgramFacts
  <1>2. \A k \in Fx!Nodes : Len(past[k]) \in Nat
    BY DEF FxTyped
  <1>3. fxAt[n] = "done" => fxAt[Fx!Arg(n)] = "done"
    BY ProgramFacts DEF FxOrdered, Fx!Arg
  <1>4. /\ Len(past[n]) = IF fxAt[n] = "done" THEN ticker ELSE ticker - 1
        /\ Len(past[Fx!Arg(n)]) = IF fxAt[Fx!Arg(n)] = "done" THEN ticker ELSE ticker - 1
    BY <1>1 DEF FxOrdered
  <1>. QED BY <1>1, <1>2, <1>3, <1>4 DEF FxTyped

LEMMA AgeIsNat ==
    ASSUME NEW size \in Nat, NEW p \in 0 .. size - 1, NEW c \in Nat
    PROVE  Age(p, c, size) \in Nat
  BY DEF Age

LEMMA GiveRings ==
    ASSUME FxInv, NEW n \in Fx!Nodes, NEW image, NEW memory, NEW scratch, NEW on,
           Ends(n, image, memory, scratch, on)
    PROVE  FxRings'
  <1>1. FxTyped /\ FxOrdered /\ FxApart /\ FxPool /\ FxRemembered /\ FxRings
    BY DEF FxInv
  <1>2. /\ Gives(n, image, memory, scratch) /\ Paints(n, on) /\ Continues(n, image, memory, on)
        /\ Fx!Give(n, image, memory, scratch, on) /\ fxAt[n] = "process"
    BY DEF Ends, Gives
  <1>3. /\ program' = program /\ Fx!Nodes' = Fx!Nodes /\ onImage' = on /\ imgs_'[n] = memory
        /\ \A k \in Fx!Nodes \ {n} : imgs_'[k] = imgs_[k] /\ past'[k] = past[k]
        /\ Len(past'[n]) = Len(past[n]) + 1
        /\ \A j \in 1 .. Len(past[n]) : past'[n][j] = past[n][j]
    BY <1>1, <1>2, AfterGive
  <1>4. \A k \in Fx!Nodes \ {n} : curr_'[k] = curr_[k]
    BY <1>2 DEF Continues
  <1>5. ASSUME NEW k \in Fx!Nodes, Fx!Kind(k) = "delay", past'[k] # <<>>
        PROVE  IsRing(imgs_'[k], on, curr_'[k], program[k].size, past'[Fx!Arg(k)], Len(past'[k]))
    <2>0. Fx!Arg(k) \in Fx!Nodes \ {k} /\ Len(past[k]) \in Nat /\ Len(past[Fx!Arg(k)]) \in Nat
          /\ Len(past[k]) <= Len(past[Fx!Arg(k)])
      BY <1>1, <1>5, ArgumentIsAhead DEF Fx!Sources
    <2>1. CASE k = n
      <3>1. IsRing(memory, on, curr_'[n], program[n].size, past[Fx!Arg(n)], Len(past[n]) + 1)
        BY <1>2, <1>5, <2>1 DEF Continues
      <3>. QED BY <1>3, <2>0, <2>1, <3>1
    <2>2. CASE k # n
      <3>1. past[k] # <<>> /\ past'[k] = past[k] /\ imgs_'[k] = imgs_[k] /\ curr_'[k] = curr_[k]
        BY <1>3, <1>4, <1>5, <2>2
      <3>2. Len(past[k]) # 0
        BY <1>1, <3>1 DEF FxTyped
      <3>3. program[k].size \in Nat /\ curr_[k] \in Nat /\ imgs_[k] \in Lists
        BY <1>1, <1>5, ProgramFacts DEF FxTyped
      <3>4. program[k].size # 0 => Len(imgs_[k]) = program[k].size
        BY <1>1, <1>5, <3>2 DEF FxRemembered, Remembers
      <3>5. ASSUME NEW p \in 0 .. program[k].size - 1
            PROVE  on[imgs_[k][p + 1]] =
                       IF Age(p, curr_[k], program[k].size) < Len(past[k])
                       THEN past'[Fx!Arg(k)][Len(past[k]) - Age(p, curr_[k], program[k].size)] ELSE Fx!Blank
        <4>. DEFINE age == Age(p, curr_[k], program[k].size)
        <4>1. p + 1 \in 1 .. Len(imgs_[k]) /\ age \in Nat
          <5>1. age \in Nat
            BY <3>3, AgeIsNat
          <5>2. program[k].size # 0 /\ p + 1 \in 1 .. program[k].size
            BY <3>3
          <5>. QED BY <3>4, <5>1, <5>2
        <4>2. imgs_[k][p + 1] \in Mine(k)
          BY <3>3, <4>1, FewElements DEF Mine
        <4>3. on[imgs_[k][p + 1]] = onImage[imgs_[k][p + 1]]
          BY <1>1, <1>2, <2>2, <4>2, GiveLeaves
        <4>4. onImage[imgs_[k][p + 1]] =
                  IF age < Len(past[k]) THEN past[Fx!Arg(k)][Len(past[k]) - age] ELSE Fx!Blank
          BY <1>1, <1>5, <3>1 DEF FxRings, IsRing
        <4>. HIDE DEF age
        <4>5. ASSUME age < Len(past[k])
              PROVE  past'[Fx!Arg(k)][Len(past[k]) - age] = past[Fx!Arg(k)][Len(past[k]) - age]
          <5>1. Len(past[k]) - age \in 1 .. Len(past[Fx!Arg(k)])
            BY <2>0, <4>1, <4>5
          <5>. QED BY <1>3, <2>0, <5>1
        <4>. QED BY <4>3, <4>4, <4>5 DEF age
      <3>. QED BY <3>1, <3>5 DEF IsRing
    <2>. QED BY <2>1, <2>2
  <1>6. \A k \in Fx!Nodes : Fx!Kind(k)' = Fx!Kind(k) /\ Fx!Arg(k)' = Fx!Arg(k)
    BY <1>3 DEF Fx!Kind, Fx!Arg
  <1>. QED BY <1>3, <1>5, <1>6 DEF FxRings, IsRing, Fx!Blank, Age

LEMMA GiveDelays ==
    ASSUME FxInv, NEW n \in Fx!Nodes, NEW image, NEW memory, NEW scratch, NEW on,
           Ends(n, image, memory, scratch, on)
    PROVE  Fx!DelaysShowThePast'
  <1>1. FxTyped /\ FxOrdered /\ FxPool /\ Fx!DelaysShowThePast
    BY DEF FxInv
  <1>2. /\ Gives(n, image, memory, scratch) /\ Paints(n, on) /\ Continues(n, image, memory, on)
        /\ Fx!Give(n, image, memory, scratch, on)
    BY DEF Ends
  <1>3. /\ program' = program /\ Fx!Nodes' = Fx!Nodes
        /\ \A k \in Fx!Nodes \ {n} : past'[k] = past[k]
        /\ Len(past'[n]) = Len(past[n]) + 1 /\ past'[n][Len(past[n]) + 1] = on[image]
        /\ \A j \in 1 .. Len(past[n]) : past'[n][j] = past[n][j]
        /\ past' \in [Fx!Nodes -> Seq(Frames)]
    BY <1>1, <1>2, AfterGive
  <1>. DEFINE Back(k) == IF program[k].size = 0 THEN 0 ELSE program[k].size - 1
  <1>4. ASSUME NEW k \in Fx!Nodes, Fx!Kind(k) = "delay", NEW j \in 1 .. Len(past'[k])
        PROVE  past'[k][j] = IF j > Back(k) THEN past'[Fx!Arg(k)][j - Back(k)] ELSE Fx!Blank
    <2>0. Fx!Arg(k) \in Fx!Nodes \ {k} /\ Len(past[k]) \in Nat /\ Len(past[Fx!Arg(k)]) \in Nat
          /\ Len(past[k]) <= Len(past[Fx!Arg(k)])
      BY <1>1, <1>4, ArgumentIsAhead DEF Fx!Sources
    <2>1. Back(k) \in Nat
      BY <1>1, <1>4, ProgramFacts
    <2>2. CASE j \in 1 .. Len(past[k])
      <3>1. past[k][j] = IF j > Back(k) THEN past[Fx!Arg(k)][j - Back(k)] ELSE Fx!Blank
        <4>1. j \in DOMAIN past[k]
          BY <1>1, <2>2 DEF FxTyped
        <4>. QED BY <1>1, <1>4, <4>1 DEF Fx!DelaysShowThePast
      <3>. HIDE DEF Back
      <3>2. past'[k][j] = past[k][j]
        BY <1>3, <2>2
      <3>3. j > Back(k) => j - Back(k) \in 1 .. Len(past[Fx!Arg(k)])
        BY <2>0, <2>1, <2>2
      <3>4. j > Back(k) => past'[Fx!Arg(k)][j - Back(k)] = past[Fx!Arg(k)][j - Back(k)]
        BY <1>3, <2>0, <3>3
      <3>. QED BY <3>1, <3>2, <3>4
    <2>3. CASE j \notin 1 .. Len(past[k])
      <3>1. k = n /\ j = Len(past[n]) + 1
        BY <1>3, <1>4, <2>0, <2>3
      <3>2. on[image] = IF j > Back(n) THEN past[Fx!Arg(n)][j - Back(n)] ELSE Fx!Blank
        BY <1>2, <1>4, <3>1 DEF Continues
      <3>. HIDE DEF Back
      <3>. QED BY <1>3, <2>0, <3>1, <3>2
    <2>. QED BY <2>2, <2>3
  <1>5. \A k \in Fx!Nodes : Fx!Kind(k)' = Fx!Kind(k) /\ Fx!Arg(k)' = Fx!Arg(k)
    BY <1>3 DEF Fx!Kind, Fx!Arg
  <1>6. \A k \in Fx!Nodes : DOMAIN past'[k] = 1 .. Len(past'[k])
    BY <1>3
  <1>. QED BY <1>3, <1>4, <1>5, <1>6 DEF Fx!DelaysShowThePast, Fx!Blank

LEMMA GiveOldTrails ==
    ASSUME FxInv, NEW n \in Fx!Nodes, NEW image, NEW memory, NEW scratch, NEW on,
           Ends(n, image, memory, scratch, on)
    PROVE  Fx!TrailsAreOld'
  <1>1. FxTyped /\ FxOrdered /\ FxApart /\ FxPool /\ FxStamped /\ FxTrails /\ Fx!TrailsAreOld
    BY DEF FxInv
  <1>2. /\ Gives(n, image, memory, scratch) /\ Paints(n, on) /\ Continues(n, image, memory, on)
        /\ Fx!Give(n, image, memory, scratch, on) /\ fxAt[n] = "process"
    BY DEF Ends, Gives
  <1>3. /\ program' = program /\ ticker' = ticker /\ Fx!Nodes' = Fx!Nodes
        /\ \A k \in Fx!Nodes \ {n} : fxAt'[k] = fxAt[k]
    BY <1>1, <1>2, AfterGive
  <1>4. \A k \in Fx!Nodes \ {n} : mixed'[k] = mixed[k]
    BY <1>2 DEF Continues
  <1>5. ASSUME Fx!Kind(n) = "trail"
        PROVE  /\ mixed'[n][2] < ticker \/ mixed'[n][1] # n
               /\ (\A k \in Fx!Nodes \ {n} : Fx!Kind(k) \in Fx!Sources) /\ ticker > 2 => mixed'[n] = <<n, ticker - 2>>
    <2>1. Len(got[n]) = 1 /\ image = got[n][1] /\ mixed'[n] = onImage[image] /\ got[n] \in Lists
      BY <1>1, <1>2, <1>5 DEF Continues, FxTyped
    <2>2. image \in Fx!Elements(got[n]) /\ image \in Images
      BY <1>1, <1>2, <2>1, FewElements, GivenImage
    <2>3. mixed'[n][2] < ticker \/ mixed'[n][1] # n
      <3>1. IsOld(onImage[image]) /\ onImage[image] \in Frames
        BY <1>1, <2>2, WhatIsOnImages DEF FxStamped
      <3>2. n # 0 /\ ticker \in Nat
        BY <1>1, ProgramFacts DEF FxTyped
      <3>. QED BY <1>2, <2>1, <3>1, <3>2 DEF IsOld, Frames
    <2>4. ASSUME \A k \in Fx!Nodes \ {n} : Fx!Kind(k) \in Fx!Sources, ticker > 2
          PROVE  mixed'[n] = <<n, ticker - 2>>
      <3>1. Len(past[n]) = ticker - 1 /\ ticker \in Nat
        BY <1>1, <1>2 DEF FxOrdered, FxTyped
      <3>2. IsAlone(n)
        BY <1>5, <2>4 DEF IsAlone
      <3>3. Len(past[n]) >= 2 => \A i \in Fx!Elements(got[n]) : onImage[i] = <<n, Len(past[n]) - 1>>
        BY <1>1, <3>2 DEF FxTrails
      <3>4. Len(past[n]) >= 2 /\ Len(past[n]) - 1 = ticker - 2
        BY <2>4, <3>1
      <3>. QED BY <2>1, <2>2, <3>3, <3>4
    <2>. QED BY <2>3, <2>4
  <1>6. \A k \in Fx!Nodes : Fx!Kind(k)' = Fx!Kind(k)
    BY <1>3 DEF Fx!Kind
  <1>7. ASSUME NEW k \in Fx!Nodes, Fx!Kind(k) = "trail", fxAt'[k] = "done"
        PROVE  /\ mixed'[k][2] < ticker \/ mixed'[k][1] # k
               /\ (\A m \in Fx!Nodes \ {k} : Fx!Kind(m) \in Fx!Sources) /\ ticker > 2 => mixed'[k] = <<k, ticker - 2>>
    <2>1. CASE k = n
      BY <1>5, <1>7, <2>1
    <2>2. CASE k # n
      BY <1>1, <1>3, <1>4, <1>7, <2>2 DEF Fx!TrailsAreOld
    <2>. QED BY <2>1, <2>2
  <1>. QED BY <1>3, <1>6, <1>7 DEF Fx!TrailsAreOld, Fx!Sources

\* An effect that is alone with its sources.
LEMMA GiveTrails ==
    ASSUME FxInv, NEW n \in Fx!Nodes, NEW image, NEW memory, NEW scratch, NEW on,
           Ends(n, image, memory, scratch, on)
    PROVE  FxTrails'
  <1>1. FxTyped /\ FxOrdered /\ FxApart /\ FxPool /\ FxRemembered /\ FxTrails
    BY DEF FxInv
  <1>2. /\ Gives(n, image, memory, scratch) /\ Paints(n, on) /\ Continues(n, image, memory, on)
        /\ Fx!Give(n, image, memory, scratch, on) /\ fxAt[n] = "process"
    BY DEF Ends, Gives
  <1>3. /\ program' = program /\ ticker' = ticker /\ chans' = chans /\ onImage' = on
        /\ Fx!Nodes' = Fx!Nodes /\ Images' = Images
        /\ image_'[n] = image /\ got'[n] = <<>> /\ image \in Images /\ image \in Nat \ {0}
        /\ \A k \in Fx!Nodes \ {n} : image_'[k] = image_[k] /\ got'[k] = got[k] /\ past'[k] = past[k]
        /\ Len(past[n]) \in Nat /\ Len(past'[n]) = Len(past[n]) + 1
    BY <1>1, <1>2, AfterGive, GivenImage
  <1>4. \A k \in Fx!Nodes : IsAlone(k)' <=> IsAlone(k)
    BY <1>3 DEF IsAlone, Fx!Kind, Fx!Sources
  <1>5. ASSUME NEW m \in Fx!Nodes, IsAlone(m)
        PROVE  LET k == Len(past'[m])
               IN  /\ \A i \in Images : chans[i] = 4
                   /\ Len(got'[m]) <= 1
                   /\ k = 0 => image_'[m] = 0
                   /\ k > 0 => image_'[m] # 0 /\ on[image_'[m]] = <<m, k>>
                   /\ k < 2 => list_'[4] = <<>>
                   /\ k >= 2 => /\ Len(list_'[4]) + Len(got'[m]) = 1
                                /\ \A i \in Fx!Elements(list_'[4]) \cup Fx!Elements(got'[m]) :
                                      on[i] = <<m, k - 1>>
    <2>. DEFINE l == Len(past[m])
    <2>1. /\ \A i \in Images : chans[i] = 4
          /\ Len(got[m]) <= 1
          /\ l = 0 => image_[m] = 0
          /\ l > 0 => image_[m] # 0 /\ onImage[image_[m]] = <<m, l>>
          /\ l < 2 => list_[4] = <<>>
          /\ l >= 2 => /\ Len(list_[4]) + Len(got[m]) = 1
                       /\ \A i \in Fx!Elements(list_[4]) \cup Fx!Elements(got[m]) :
                             onImage[i] = <<m, l - 1>>
      BY <1>1, <1>5 DEF FxTrails
    <2>2. Fx!Kind(m) = "trail" /\ ~IsCounter(m) /\ \A k \in Fx!Nodes \ {m} : Fx!Kind(k) \in Fx!Sources /\ ~IsCounter(k)
      BY <1>5 DEF IsAlone, IsCounter, Fx!Sources
    <2>3. CASE m # n
      <3>1. scratch = 0
        BY <1>2, <2>2, <2>3 DEF Gives
      <3>2. image_[n] = 0 \/ image_[n] \in Fx!Elements(memory)
        <4>1. image_[n] = 0 \/ image_[n] \in Fx!Elements(imgs_[n])
          BY <1>1, <2>2, <2>3 DEF FxRemembered, Remembers
        <4>2. image \in Fx!Elements(memory)
          BY <1>2, <1>3, <2>2, <2>3 DEF Continues, Remembers
        <4>. QED BY <1>2, <3>1, <4>1, <4>2 DEF Gives, Mine
      <3>3. list_' = list_
        BY <1>1, <1>2, <3>1, <3>2, GivePool
      <3>4. image_[m] # 0 => on[image_[m]] = onImage[image_[m]]
        BY <1>1, <1>2, <2>2, <2>3, GiveLeaves
      <3>5. ASSUME NEW i \in Fx!Elements(list_[4]) \cup Fx!Elements(got[m])
            PROVE  on[i] = onImage[i]
        <4>1. CASE i \in Fx!Elements(got[m])
          BY <1>1, <1>2, <2>3, <4>1, GiveLeaves DEF Mine
        <4>2. CASE i \in Fx!Elements(list_[4])
          BY <1>1, <1>2, <4>2, WhatIsHeld DEF Free, FxPool, Paints
        <4>. QED BY <4>1, <4>2
      <3>6. image_'[m] = image_[m] /\ got'[m] = got[m] /\ past'[m] = past[m]
        BY <1>3, <2>3
      <3>. QED BY <2>1, <3>3, <3>4, <3>5, <3>6
    <2>4. CASE m = n
      <3>1. /\ Len(got[n]) = 1 /\ image = got[n][1] /\ on[image] = <<n, ticker>> /\ memory = <<>>
            /\ got[n] \in Lists /\ imgs_[n] = <<>>
        BY <1>1, <1>2, <2>2, <2>4 DEF Continues, Remembers, FxRemembered, FxTyped, Fx!Drawn, Fx!Sources
      <3>2. Fx!Elements(got[n]) = {image} /\ Mine(n) = {image}
        BY <3>1, FewElements DEF Mine
      <3>3. scratch = 0
        BY <1>2, <3>2 DEF Gives, Mine
      <3>4. l = ticker - 1 /\ ticker \in Nat \ {0} /\ Len(past'[n]) = l + 1
        BY <1>1, <1>2, <1>3, <2>4 DEF FxOrdered, FxTyped
      <3>5. list_[4] = <<>>
        <4>1. list_[4] \in Lists
          BY <1>1 DEF FxTyped
        <4>. QED BY <2>1, <2>4, <3>1, <3>4, <4>1, FewElements
      <3>6. CASE l = 0
        <4>1. list_' = list_
          BY <1>1, <1>2, <2>1, <2>4, <3>3, <3>6, GivePool
        <4>2. Len(past'[n]) = 1 /\ ticker = 1
          BY <3>4, <3>6
        <4>3. Len(got'[n]) = 0 /\ list_'[4] = <<>>
          BY <1>3, <3>5, <4>1, FewElements
        <4>4. image_'[n] # 0 /\ on[image_'[n]] = <<n, 1>>
          BY <1>3, <3>1, <4>2
        <4>. HIDE DEF l
        <4>. QED BY <2>1, <2>4, <4>2, <4>3, <4>4
      <3>7. CASE l # 0
        <4>1. image_[n] # 0 /\ onImage[image_[n]] = <<n, l>> /\ image_[n] \in Images
          BY <1>1, <2>1, <2>4, <3>4, <3>7, WhatIsHeld
        <4>2. image_[n] # image /\ image_[n] \notin Mine(n)
          BY <1>1, <3>2 DEF FxApart
        <4>3. ASSUME NEW k \in Fx!Nodes \ {n}
              PROVE  image_[n] \notin Mine(k) /\ image_[k] # image_[n]
          <5>1. image_[n] \in Owned(n) /\ Owned(n) \cap Owned(k) = {}
            BY <1>1, <2>2, <2>4, <4>1 DEF FxApart, Owned
          <5>. QED BY <2>2, <2>4, <4>1, <5>1 DEF Owned
        <4>4. list_' = [list_ EXCEPT ![chans[image_[n]]] = Append(@, image_[n])]
          BY <1>1, <1>2, <3>3, <4>1, <4>2, <4>3, GivePool
        <4>5. list_'[4] = <<image_[n]>>
          <5>1. chans[image_[n]] = 4 /\ list_ \in [{1, 4} -> Lists]
            BY <1>1, <2>1, <4>1 DEF FxTyped
          <5>2. list_'[4] = Append(<<>>, image_[n])
            BY <3>5, <4>4, <5>1
          <5>. QED BY <5>2
        <4>6. Len(list_'[4]) = 1 /\ Fx!Elements(list_'[4]) = {image_[n]}
          BY <4>5 DEF Fx!Elements
        <4>7. on[image_[n]] = <<n, l>>
          BY <1>2, <4>1, <4>2 DEF Paints
        <4>8. Len(got'[n]) = 0 /\ Fx!Elements(got'[n]) = {}
          BY <1>3, FewElements
        <4>9. Len(past'[n]) >= 2 /\ Len(past'[n]) - 1 = l /\ Len(past'[n]) = ticker
          BY <3>4, <3>7
        <4>10. image_'[n] # 0 /\ on[image_'[n]] = <<n, Len(past'[n])>>
          BY <1>3, <3>1, <4>9
        <4>11. \A i \in Fx!Elements(list_'[4]) \cup Fx!Elements(got'[n]) : on[i] = <<n, Len(past'[n]) - 1>>
          BY <4>6, <4>7, <4>8, <4>9
        <4>12. Len(list_'[4]) + Len(got'[n]) = 1 /\ Len(got'[n]) <= 1
          BY <4>6, <4>8
        <4>13. ticker \in Nat /\ Len(past'[n]) # 0 /\ ~(Len(past'[n]) < 2)
          BY <3>4, <4>9
        <4>. HIDE DEF l
        <4>. QED BY <2>1, <2>4, <4>9, <4>10, <4>11, <4>12, <4>13
      <3>. QED BY <3>6, <3>7
    <2>. QED BY <2>3, <2>4
  <1>. QED BY <1>3, <1>4, <1>5 DEF FxTrails, Fx!Elements

\* So every process() leaves the invariant true.
LEMMA GiveInv ==
    ASSUME FxInv, NEW n \in Fx!Nodes, NEW image, NEW memory, NEW scratch, NEW on,
           Ends(n, image, memory, scratch, on)
    PROVE  FxInv'
  <1>1. FxPool'
    BY GivePool DEF FxInv, Ends
  <1>. QED BY <1>1, GiveTyped, GiveOrdered, GiveApart, GiveRemembered, GiveShown, GiveRings, GiveStamped,
              GiveTrails, GiveDelays, GiveOldTrails DEF FxInv

\* A process() of each kind ends so.
LEMMA Painted ==
    ASSUME NEW s \in Seq(Frames), NEW i \in DOMAIN s, NEW f \in Frames
    PROVE  LET r == [s EXCEPT ![i] = f]
           IN  /\ r \in Seq(Frames) /\ Len(r) = Len(s) /\ DOMAIN r = DOMAIN s
               /\ \A j \in DOMAIN s : r[j] = IF j = i THEN f ELSE s[j]
  OBVIOUS

LEMMA ShortLists ==
    ASSUME NEW a \in Nat \ {0}, NEW b \in Nat \ {0}
    PROVE  /\ <<a, b>> \in Lists /\ Len(<<a, b>>) = 2 /\ Fx!Elements(<<a, b>>) = {a, b}
           /\ a # b => Once(<<a, b>>)
  BY DEF Lists, Fx!Elements, Once

\* What is known when the images are there.
LEMMA HasGotFacts ==
    ASSUME FxInv, NEW n \in Fx!Nodes, fxAt[n] = "process"
    PROVE  /\ onImage \in Seq(Frames) /\ Fx!Drawn(n) \in Frames /\ Fx!Blank \in Frames
           /\ imgs_[n] \in Lists /\ got[n] \in Lists /\ Once(imgs_[n]) /\ Once(got[n])
           /\ Mine(n) \subseteq Images
           /\ Remembers(n, imgs_[n], image_[n], curr_[n], Len(past[n]))
           /\ ticker \in Nat /\ Len(past[n]) + 1 = ticker
           /\ curr_ \in [Fx!Nodes -> Nat] /\ mixed \in [Fx!Nodes -> Frames]
           /\ Fx!Kind(n) \notin Fx!Sources =>
                 /\ Fx!Arg(n) \in Fx!Nodes \ {n} /\ fxAt[Fx!Arg(n)] = "done"
                 /\ image_[Fx!Arg(n)] \in Images /\ Fx!Input(n) \in Frames
                 /\ Fx!Input(n) = onImage[image_[Fx!Arg(n)]]
                 /\ Fx!Input(n) = past[Fx!Arg(n)][Len(past[n]) + 1]
  <1>1. FxTyped /\ FxOrdered /\ FxApart /\ FxPool /\ FxShown /\ FxRemembered
    BY DEF FxInv
  <1>2. n \in Nat /\ ticker \in Nat \ {0} /\ Len(past[n]) = ticker - 1
    BY <1>1, ProgramFacts DEF FxTyped, FxOrdered
  <1>3. Fx!Drawn(n) \in Frames /\ Fx!Blank \in Frames
    BY <1>2 DEF Fx!Drawn, Fx!Blank, Frames
  <1>4. /\ onImage \in Seq(Frames) /\ imgs_[n] \in Lists /\ got[n] \in Lists
        /\ curr_ \in [Fx!Nodes -> Nat] /\ mixed \in [Fx!Nodes -> Frames]
    BY <1>1 DEF FxTyped
  <1>5. ASSUME Fx!Kind(n) \notin Fx!Sources
        PROVE  /\ Fx!Arg(n) \in Fx!Nodes \ {n} /\ fxAt[Fx!Arg(n)] = "done"
               /\ image_[Fx!Arg(n)] \in Images /\ Fx!Input(n) \in Frames
               /\ Fx!Input(n) = onImage[image_[Fx!Arg(n)]]
               /\ Fx!Input(n) = past[Fx!Arg(n)][Len(past[n]) + 1]
    <2>1. Fx!Arg(n) \in Fx!Nodes \ {n} /\ fxAt[Fx!Arg(n)] = "done"
      BY <1>1, <1>5, ProgramFacts, KindsOfEffects
    <2>2. image_[Fx!Arg(n)] \in Images /\ Fx!Input(n) \in Frames
      BY <1>1, <1>5, KindsOfEffects
    <2>3. onImage[image_[Fx!Arg(n)]] = past[Fx!Arg(n)][ticker] /\ ticker = Len(past[n]) + 1
      <3>1. onImage[image_[Fx!Arg(n)]] = past[Fx!Arg(n)][ticker]
        BY <1>1, <2>1 DEF FxShown
      <3>. QED BY <1>1, <1>2, <3>1 DEF FxTyped
    <2>. QED BY <2>1, <2>2, <2>3 DEF Fx!Input
  <1>6. Mine(n) \subseteq Images
    BY <1>1, WhatIsHeld
  <1>7. Remembers(n, imgs_[n], image_[n], curr_[n], Len(past[n])) /\ Once(imgs_[n]) /\ Once(got[n])
    BY <1>1 DEF FxRemembered, FxApart
  <1>. QED BY <1>2, <1>3, <1>4, <1>5, <1>6, <1>7

LEMMA SourceEnds ==
    ASSUME FxInv, NEW n \in Fx!Nodes, Fx!ProcessSource(n)
    PROVE  \E image, memory, scratch, on : Ends(n, image, memory, scratch, on)
  <1>. DEFINE a == imgs_[n][1]
              b == imgs_[n][2]
              on == [onImage EXCEPT ![b] = Fx!Drawn(n)]
  <1>1. fxAt[n] = "process" /\ Fx!Kind(n) = "source" /\ Len(got[n]) = Len(Fx!Gets(n))
        /\ curr_' = curr_ /\ mixed' = mixed /\ Fx!Give(n, b, <<b, a>>, 0, on)
    BY DEF Fx!ProcessSource, Fx!HasGot
  <1>2. Len(imgs_[n]) = 2 /\ imgs_[n] \in Lists /\ Once(imgs_[n])
    BY <1>1, HasGotFacts DEF Remembers
  <1>3. got[n] = <<>>
    BY <1>1, HowManyImages, HasGotFacts, FewElements DEF FxInv, Fx!Sources
  <1>4. Fx!Elements(imgs_[n]) = {a, b} /\ Fx!Elements(got[n]) = {} /\ a # b /\ a \in Nat \ {0} /\ b \in Nat \ {0}
    BY <1>2, <1>3, FewElements DEF Once
  <1>. HIDE DEF a, b
  <1>5. Mine(n) = {a, b}
    BY <1>4 DEF Mine
  <1>6. <<b, a>> \in Lists /\ Once(<<b, a>>) /\ Fx!Elements(<<b, a>>) = {a, b} /\ Len(<<b, a>>) = 2
    BY <1>4, ShortLists
  <1>7. Gives(n, b, <<b, a>>, 0)
    BY <1>1, <1>5, <1>6 DEF Gives, IsCounter
  <1>8. Paints(n, on)
    <2>1. b \in Images /\ onImage \in Seq(Frames) /\ Fx!Drawn(n) \in Frames
      BY <1>1, <1>5, HasGotFacts
    <2>2. /\ on \in Seq(Frames) /\ Len(on) = Len(onImage)
          /\ \A j \in Images : on[j] = IF j = b THEN Fx!Drawn(n) ELSE onImage[j]
      BY <2>1, Painted DEF Images
    <2>. HIDE DEF on
    <2>. QED BY <1>5, <2>2 DEF Paints
  <1>9. Continues(n, b, <<b, a>>, on)
    BY <1>1, <1>6, HasGotFacts DEF Continues, Remembers, Fx!Sources
  <1>. QED BY <1>1, <1>7, <1>8, <1>9 DEF Ends

LEMMA PicEnds ==
    ASSUME FxInv, NEW n \in Fx!Nodes, Fx!ProcessPic(n)
    PROVE  \E image, memory, scratch, on : Ends(n, image, memory, scratch, on)
  <1>. DEFINE a == imgs_[n][1]
  <1>1. fxAt[n] = "process" /\ Fx!Kind(n) = "pic" /\ Len(got[n]) = Len(Fx!Gets(n))
        /\ curr_' = curr_ /\ mixed' = mixed /\ Fx!Give(n, a, imgs_[n], 0, onImage)
    BY DEF Fx!ProcessPic, Fx!HasGot
  <1>2. Len(imgs_[n]) = 1 /\ imgs_[n] \in Lists /\ Once(imgs_[n])
    BY <1>1, HasGotFacts DEF Remembers
  <1>3. got[n] = <<>>
    BY <1>1, HowManyImages, HasGotFacts, FewElements DEF FxInv, Fx!Sources
  <1>4. Fx!Elements(imgs_[n]) = {a} /\ Fx!Elements(got[n]) = {}
    BY <1>2, <1>3, FewElements
  <1>. HIDE DEF a
  <1>5. Gives(n, a, imgs_[n], 0)
    BY <1>1, <1>2, <1>4 DEF Gives, IsCounter, Mine
  <1>6. Paints(n, onImage)
    BY <1>1, HasGotFacts DEF Paints
  <1>7. Continues(n, a, imgs_[n], onImage)
    BY <1>1, <1>2, <1>4, HasGotFacts DEF Continues, Remembers, Fx!Sources
  <1>. QED BY <1>1, <1>5, <1>6, <1>7 DEF Ends

LEMMA FpsCounterEnds ==
    ASSUME FxInv, NEW n \in Fx!Nodes, Fx!ProcessFpsCounter(n)
    PROVE  \E image, memory, scratch, on : Ends(n, image, memory, scratch, on)
  <1>1. fxAt[n] = "process" /\ Fx!Kind(n) = "fps_counter" /\ Len(got[n]) = Len(Fx!Gets(n))
        /\ curr_' = curr_ /\ mixed' = mixed /\ Fx!Give(n, image_[Fx!Arg(n)], <<>>, 0, onImage)
    BY DEF Fx!ProcessFpsCounter, Fx!HasGot
  <1>2. imgs_[n] = <<>>
    BY <1>1, HasGotFacts DEF Remembers, Fx!Sources
  <1>3. got[n] = <<>>
    BY <1>1, HowManyImages, HasGotFacts, FewElements DEF FxInv
  <1>4. Mine(n) = {}
    BY <1>2, <1>3, FewElements DEF Mine
  <1>5. Gives(n, image_[Fx!Arg(n)], <<>>, 0)
    BY <1>1, <1>4, FewElements DEF Gives, IsCounter
  <1>6. Paints(n, onImage)
    BY <1>1, HasGotFacts DEF Paints
  <1>7. Continues(n, image_[Fx!Arg(n)], <<>>, onImage)
    BY <1>1, HasGotFacts DEF Continues, Remembers, Fx!Sources
  <1>. QED BY <1>1, <1>5, <1>6, <1>7 DEF Ends

LEMMA DrawsEnds ==
    ASSUME FxInv, NEW n \in Fx!Nodes, NEW kind \in Fx!Drawing \cup {"grayscale"}, Fx!Draws(n, kind)
    PROVE  \E image, memory, scratch, on : Ends(n, image, memory, scratch, on)
  <1>. DEFINE r == got[n][1]
              on == [onImage EXCEPT ![r] = Fx!Drawn(n)]
  <1>1. fxAt[n] = "process" /\ Fx!Kind(n) = kind /\ Len(got[n]) = Len(Fx!Gets(n))
        /\ curr_' = curr_ /\ mixed' = mixed /\ Fx!Give(n, r, <<>>, 0, on)
    BY DEF Fx!Draws, Fx!HasGot
  <1>2. Fx!Kind(n) \notin Fx!Sources \cup {"delay", "trail", "fps_counter"}
    BY <1>1 DEF Fx!Sources, Fx!Drawing
  <1>3. imgs_[n] = <<>>
    BY <1>1, <1>2, HasGotFacts DEF Remembers
  <1>4. Len(got[n]) = 1
    BY <1>1, HowManyImages DEF FxInv
  <1>5. Mine(n) = {r}
    BY <1>1, <1>3, <1>4, HasGotFacts, FewElements DEF Mine
  <1>. HIDE DEF r
  <1>6. Gives(n, r, <<>>, 0)
    BY <1>1, <1>2, <1>5, FewElements DEF Gives, IsCounter
  <1>7. Paints(n, on)
    <2>1. r \in Images /\ onImage \in Seq(Frames) /\ Fx!Drawn(n) \in Frames
      BY <1>1, <1>5, HasGotFacts
    <2>2. /\ on \in Seq(Frames) /\ Len(on) = Len(onImage)
          /\ \A j \in Images : on[j] = IF j = r THEN Fx!Drawn(n) ELSE onImage[j]
      BY <2>1, Painted DEF Images
    <2>. HIDE DEF on
    <2>. QED BY <1>5, <2>2 DEF Paints
  <1>8. Continues(n, r, <<>>, on)
    BY <1>1, <1>2, HasGotFacts DEF Continues, Remembers, Fx!Sources
  <1>. QED BY <1>1, <1>6, <1>7, <1>8 DEF Ends

LEMMA SpoilsEnds ==
    ASSUME FxInv, NEW n \in Fx!Nodes, NEW kind \in {"contours", "polygons"}, Fx!Spoils(n, kind)
    PROVE  \E image, memory, scratch, on : Ends(n, image, memory, scratch, on)
  <1>. DEFINE t == got[n][1]
              r == got[n][2]
              copy == [onImage EXCEPT ![t] = Fx!Input(n)]
              on == [copy EXCEPT ![r] = Fx!Drawn(n)]
  <1>1. fxAt[n] = "process" /\ Fx!Kind(n) = kind /\ Len(got[n]) = Len(Fx!Gets(n))
        /\ curr_' = curr_ /\ mixed' = mixed /\ Fx!Give(n, r, <<>>, t, on)
    BY DEF Fx!Spoils, Fx!HasGot
  <1>2. Fx!Kind(n) \notin Fx!Sources \cup {"delay", "trail", "fps_counter"}
    BY <1>1 DEF Fx!Sources
  <1>3. imgs_[n] = <<>>
    BY <1>1, <1>2, HasGotFacts DEF Remembers
  <1>4. Len(got[n]) = 2 /\ got[n] \in Lists /\ Once(got[n])
    BY <1>1, HowManyImages, HasGotFacts DEF FxInv
  <1>5. Fx!Elements(got[n]) = {t, r} /\ t # r /\ t \in Nat \ {0}
    BY <1>4, FewElements DEF Once
  <1>. HIDE DEF t, r
  <1>6. Mine(n) = {t, r}
    BY <1>3, <1>5, FewElements DEF Mine
  <1>7. Gives(n, r, <<>>, t)
    BY <1>1, <1>2, <1>5, <1>6, FewElements DEF Gives, IsCounter
  <1>8. Paints(n, on)
    <2>1. /\ t \in Images /\ r \in Images /\ onImage \in Seq(Frames) /\ Fx!Drawn(n) \in Frames
          /\ Fx!Input(n) \in Frames /\ Fx!Input(n) = onImage[image_[Fx!Arg(n)]] /\ image_[Fx!Arg(n)] \in Images
      BY <1>1, <1>2, <1>6, HasGotFacts
    <2>2. /\ copy \in Seq(Frames) /\ Len(copy) = Len(onImage) /\ DOMAIN copy = Images
          /\ \A j \in Images : copy[j] = IF j = t THEN Fx!Input(n) ELSE onImage[j]
      BY <2>1, Painted DEF Images
    <2>. HIDE DEF copy
    <2>3. /\ on \in Seq(Frames) /\ Len(on) = Len(onImage)
          /\ \A j \in Images : on[j] = IF j = r THEN Fx!Drawn(n) ELSE copy[j]
      BY <2>1, <2>2, Painted
    <2>. HIDE DEF on
    <2>. QED BY <1>6, <2>1, <2>2, <2>3 DEF Paints
  <1>9. Continues(n, r, <<>>, on)
    BY <1>1, <1>2, HasGotFacts DEF Continues, Remembers, Fx!Sources
  <1>. QED BY <1>1, <1>7, <1>8, <1>9 DEF Ends

LEMMA TrailEnds ==
    ASSUME FxInv, NEW n \in Fx!Nodes, Fx!ProcessTrail(n)
    PROVE  \E image, memory, scratch, on : Ends(n, image, memory, scratch, on)
  <1>. DEFINE r == got[n][1]
              on == [onImage EXCEPT ![r] = Fx!Drawn(n)]
  <1>1. fxAt[n] = "process" /\ Fx!Kind(n) = "trail" /\ Len(got[n]) = Len(Fx!Gets(n))
        /\ curr_' = curr_ /\ mixed' = [mixed EXCEPT ![n] = onImage[r]] /\ Fx!Give(n, r, <<>>, 0, on)
    BY DEF Fx!ProcessTrail, Fx!HasGot
  <1>2. Fx!Kind(n) \notin Fx!Sources \cup {"delay", "fps_counter"}
    BY <1>1 DEF Fx!Sources
  <1>3. imgs_[n] = <<>>
    BY <1>1, <1>2, HasGotFacts DEF Remembers
  <1>4. Len(got[n]) = 1
    BY <1>1, HowManyImages DEF FxInv
  <1>5. Mine(n) = {r}
    BY <1>1, <1>3, <1>4, HasGotFacts, FewElements DEF Mine
  <1>0. r = got[n][1]
    OBVIOUS
  <1>. HIDE DEF r
  <1>6. Gives(n, r, <<>>, 0)
    BY <1>1, <1>2, <1>5, FewElements DEF Gives, IsCounter
  <1>7. r \in Images /\ onImage \in Seq(Frames) /\ Fx!Drawn(n) \in Frames /\ onImage[r] \in Frames
    BY <1>1, <1>5, HasGotFacts, WhatIsOnImages DEF FxInv
  <1>8. /\ on \in Seq(Frames) /\ Len(on) = Len(onImage)
        /\ \A j \in Images : on[j] = IF j = r THEN Fx!Drawn(n) ELSE onImage[j]
    BY <1>7, Painted DEF Images
  <1>. HIDE DEF on
  <1>9. Paints(n, on)
    BY <1>5, <1>8 DEF Paints
  <1>10. mixed' \in [Fx!Nodes -> Frames] /\ mixed'[n] = onImage[r] /\ \A k \in Fx!Nodes \ {n} : mixed'[k] = mixed[k]
    BY <1>1, <1>7, HasGotFacts
  <1>11. Continues(n, r, <<>>, on)
    <2>1. Remembers(n, <<>>, r, curr_'[n], Len(past[n]) + 1)
      BY <1>1, <1>2 DEF Remembers, Fx!Sources
    <2>2. curr_' \in [Fx!Nodes -> Nat] /\ curr_' = curr_
      BY <1>1, HasGotFacts
    <2>. QED BY <1>0, <1>1, <1>2, <1>4, <1>7, <1>8, <1>10, <2>1, <2>2 DEF Continues
  <1>. QED BY <1>1, <1>6, <1>9, <1>11 DEF Ends

\* A ring that goes on by one: what was drawn over is the last frame now, and all the
\* others are a frame older.
GoesOn(ring, clear, on, c, s, z, frames, l, k) ==
    /\ z \in Nat \ {0} /\ c \in 0 .. z - 1 /\ s = (IF c + 1 = z THEN 0 ELSE c + 1)
    /\ l \in Nat /\ k = l + 1
    /\ IsRing(ring, clear, c, z, frames, l) /\ on[ring[c + 1]] = frames[k]
    /\ \A p \in 0 .. z - 1 : p # c => on[ring[p + 1]] = clear[ring[p + 1]]

HasGoneOn(ring, on, s, z, frames, k) ==
    /\ IsRing(ring, on, s, z, frames, k)
    /\ on[ring[s + 1]] = IF k > z - 1 THEN frames[k - (z - 1)] ELSE Fx!Blank

LEMMA RingTurns ==
    ASSUME NEW ring, NEW clear, NEW on, NEW c, NEW s, NEW z, NEW frames, NEW l, NEW k,
           GoesOn(ring, clear, on, c, s, z, frames, l, k)
    PROVE  HasGoneOn(ring, on, s, z, frames, k)
  <1>0. /\ z \in Nat \ {0} /\ c \in 0 .. z - 1 /\ s = (IF c + 1 = z THEN 0 ELSE c + 1)
        /\ l \in Nat /\ k = l + 1 /\ k \in Nat
        /\ IsRing(ring, clear, c, z, frames, l) /\ on[ring[c + 1]] = frames[k]
        /\ \A p \in 0 .. z - 1 : p # c => on[ring[p + 1]] = clear[ring[p + 1]]
    BY DEF GoesOn
  <1>1. ASSUME NEW p \in 0 .. z - 1
        PROVE  on[ring[p + 1]] = IF Age(p, s, z) < k THEN frames[k - Age(p, s, z)] ELSE Fx!Blank
    <2>1. CASE p = c
      <3>1. Age(p, s, z) = 0
        BY <1>0, <2>1 DEF Age
      <3>2. k - 0 = k /\ 0 < k
        BY <1>0
      <3>. QED BY <1>0, <2>1, <3>1, <3>2
    <2>2. CASE p # c
      <3>1. Age(p, s, z) = Age(p, c, z) + 1 /\ Age(p, c, z) \in Int
        BY <1>0, <2>2 DEF Age
      <3>2. clear[ring[p + 1]] = IF Age(p, c, z) < l THEN frames[l - Age(p, c, z)] ELSE Fx!Blank
        BY <1>0 DEF IsRing
      <3>3. k - (Age(p, c, z) + 1) = l - Age(p, c, z) /\ (Age(p, c, z) + 1 < k <=> Age(p, c, z) < l)
        BY <1>0, <3>1
      <3>. QED BY <1>0, <2>2, <3>1, <3>2, <3>3
    <2>. QED BY <2>1, <2>2
  <1>2. s \in 0 .. z - 1 /\ Age(s, s, z) = z - 1
    BY <1>0 DEF Age
  <1>3. IsRing(ring, on, s, z, frames, k)
    BY <1>1 DEF IsRing
  <1>4. on[ring[s + 1]] = IF z - 1 < k THEN frames[k - (z - 1)] ELSE Fx!Blank
    BY <1>1, <1>2
  <1>5. z - 1 < k <=> k > z - 1
    BY <1>0
  <1>. QED BY <1>3, <1>4, <1>5 DEF HasGoneOn

LEMMA LessThanAll ==
    ASSUME NEW a \in Nat, NEW b \in Nat, a < b
    PROVE  a % b = a
  <1>1. /\ a \div b \in Int /\ a % b \in Int /\ a = b * (a \div b) + (a % b)
        /\ 0 <= a % b /\ a % b < b
    OBVIOUS
  <1>2. ASSUME NEW q \in Int, q >= 1
        PROVE  b * q >= b
    BY <1>2
  <1>3. ASSUME NEW q \in Int, q <= -1
        PROVE  b * q <= -b
    BY <1>3
  <1>. QED BY <1>1, <1>2, <1>3

\* The ring that a delay draws in, with black images at first.
LEMMA RingIsReady ==
    ASSUME FxInv, NEW n \in Fx!Nodes, Fx!HasGot(n, "delay"), program[n].size # 0
    PROVE  LET ring  == IF got[n] = <<>> THEN imgs_[n] ELSE got[n]
               clear == [i \in DOMAIN onImage |-> IF i \in Fx!Elements(got[n]) THEN Fx!Blank ELSE onImage[i]]
           IN  /\ ring \in Lists /\ Once(ring) /\ Len(ring) = program[n].size /\ Fx!Elements(ring) = Mine(n)
               /\ program[n].size \in Nat \ {0} /\ curr_[n] \in 0 .. program[n].size - 1
               /\ clear \in Seq(Frames) /\ Len(clear) = Len(onImage) /\ DOMAIN clear = Images
               /\ \A i \in Images : /\ i \notin Mine(n) => clear[i] = onImage[i]
                                   /\ clear[i] \in {Fx!Blank, onImage[i]}
               /\ IsRing(ring, clear, curr_[n], program[n].size, past[Fx!Arg(n)], Len(past[n]))
  <1>. DEFINE ring  == IF got[n] = <<>> THEN imgs_[n] ELSE got[n]
              clear == [i \in DOMAIN onImage |-> IF i \in Fx!Elements(got[n]) THEN Fx!Blank ELSE onImage[i]]
              z     == program[n].size
              c     == curr_[n]
  <1>1. fxAt[n] = "process" /\ Fx!Kind(n) = "delay" /\ Len(got[n]) = Len(Fx!Gets(n))
    BY DEF Fx!HasGot
  <1>2. z \in Nat \ {0}
    BY <1>1, ProgramFacts DEF FxInv
  <1>3. Len(past[n]) \in Nat /\ c \in Nat /\ past[n] \in Seq(Frames) /\ DOMAIN onImage = 1 .. Len(onImage)
        /\ Len(onImage) \in Nat
    BY HasGotFacts, <1>1 DEF FxInv, FxTyped
  <1>4. Len(got[n]) = IF Len(imgs_[n]) = z THEN 0 ELSE z
    BY <1>1, <1>2, HowManyImages DEF FxInv
  <1>5. /\ Len(past[n]) = 0 => imgs_[n] = <<>> /\ c = 0
        /\ Len(past[n]) # 0 => Len(imgs_[n]) = z /\ c < z
    BY <1>1, <1>2, HasGotFacts DEF Remembers
  <1>6. imgs_[n] \in Lists /\ got[n] \in Lists /\ Once(imgs_[n]) /\ Once(got[n])
    BY <1>1, HasGotFacts
  <1>7. clear \in Seq(Frames) /\ Len(clear) = Len(onImage) /\ DOMAIN clear = Images
    <2>1. \A i \in DOMAIN onImage : onImage[i] \in Frames /\ Fx!Blank \in Frames
      BY <1>1, HasGotFacts, WhatIsOnImages DEF FxInv, Images
    <2>2. clear \in [1 .. Len(onImage) -> Frames]
      BY <1>3, <2>1
    <2>. HIDE DEF clear
    <2>3. clear \in Seq(Frames) /\ Len(clear) = Len(onImage)
      BY <1>3, <2>2
    <2>. QED BY <1>3, <2>2, <2>3 DEF Images
  <1>8. \A i \in Images : clear[i] = IF i \in Fx!Elements(got[n]) THEN Fx!Blank ELSE onImage[i]
    BY DEF Images
  <1>. HIDE DEF clear
  <1>9. \A i \in Images : /\ i \notin Mine(n) => clear[i] = onImage[i]
                          /\ clear[i] \in {Fx!Blank, onImage[i]}
    BY <1>8 DEF Mine
  <1>10. CASE Len(past[n]) = 0
    <2>1. ring = got[n] /\ Len(got[n]) = z /\ Fx!Elements(got[n]) = Mine(n) /\ c = 0
      BY <1>2, <1>4, <1>5, <1>6, <1>10, FewElements DEF Mine
    <2>2. ASSUME NEW p \in 0 .. z - 1
          PROVE  clear[got[n][p + 1]] = Fx!Blank /\ ~(Age(p, c, z) < Len(past[n]))
      <3>1. p + 1 \in 1 .. Len(got[n]) /\ Age(p, c, z) \in Nat
        <4>. HIDE DEF z, c
        <4>1. Age(p, c, z) \in Nat
          BY <1>2, <1>3, AgeIsNat
        <4>. QED BY <1>2, <2>1, <4>1
      <3>2. got[n][p + 1] \in Fx!Elements(got[n]) /\ got[n][p + 1] \in Images
        BY <1>1, <1>6, <2>1, <3>1, FewElements, HasGotFacts
      <3>. QED BY <1>8, <1>10, <3>1, <3>2
    <2>3. IsRing(got[n], clear, c, z, past[Fx!Arg(n)], Len(past[n]))
      BY <2>2 DEF IsRing
    <2>. HIDE DEF ring, z, c
    <2>. QED BY <1>2, <1>6, <1>7, <1>9, <2>1, <2>3 DEF ring, z, c, clear
  <1>11. CASE Len(past[n]) # 0
    <2>1. got[n] = <<>> /\ ring = imgs_[n] /\ Len(imgs_[n]) = z /\ Fx!Elements(imgs_[n]) = Mine(n)
          /\ c \in 0 .. z - 1 /\ Fx!Elements(got[n]) = {}
      BY <1>2, <1>3, <1>4, <1>5, <1>6, <1>11, FewElements DEF Mine
    <2>2. past[n] # <<>>
      BY <1>3, <1>11
    <2>3. IsRing(imgs_[n], onImage, c, z, past[Fx!Arg(n)], Len(past[n]))
      BY <1>1, <2>2 DEF FxInv, FxRings
    <2>4. ASSUME NEW p \in 0 .. z - 1
          PROVE  clear[imgs_[n][p + 1]] = onImage[imgs_[n][p + 1]]
      <3>1. p + 1 \in 1 .. Len(imgs_[n])
        BY <1>2, <2>1
      <3>2. imgs_[n][p + 1] \in Images
        BY <1>1, <1>6, <2>1, <3>1, FewElements, HasGotFacts
      <3>. QED BY <1>8, <2>1, <3>2
    <2>5. IsRing(imgs_[n], clear, c, z, past[Fx!Arg(n)], Len(past[n]))
      BY <2>3, <2>4 DEF IsRing
    <2>. HIDE DEF ring, z, c
    <2>. QED BY <1>2, <1>6, <1>7, <1>9, <2>1, <2>5 DEF ring, z, c, clear
  <1>. QED BY <1>10, <1>11

LEMMA DelayEnds ==
    ASSUME FxInv, NEW n \in Fx!Nodes, Fx!ProcessDelay(n)
    PROVE  \E image, memory, scratch, on : Ends(n, image, memory, scratch, on)
  <1>1. fxAt[n] = "process" /\ Fx!Kind(n) = "delay" /\ Len(got[n]) = Len(Fx!Gets(n)) /\ mixed' = mixed
        /\ Fx!HasGot(n, "delay")
    BY DEF Fx!ProcessDelay, Fx!HasGot
  <1>2. program[n].size \in Nat
    BY <1>1, ProgramFacts DEF FxInv
  <1>3. /\ Fx!Input(n) \in Frames /\ Fx!Input(n) = onImage[image_[Fx!Arg(n)]] /\ image_[Fx!Arg(n)] \in Images
        /\ Fx!Input(n) = past[Fx!Arg(n)][Len(past[n]) + 1]
        /\ onImage \in Seq(Frames) /\ Mine(n) \subseteq Images
        /\ curr_ \in [Fx!Nodes -> Nat] /\ mixed \in [Fx!Nodes -> Frames]
        /\ Len(past[n]) \in Nat
    <2>1. Len(past[n]) \in Nat
      BY DEF FxInv, FxTyped
    <2>2. Fx!Kind(n) \notin Fx!Sources
      BY <1>1 DEF Fx!Sources
    <2>. QED BY <1>1, <2>1, <2>2, HasGotFacts
  <1>4. CASE program[n].size = 0
    <2>. DEFINE r == got[n][1]
                on == [onImage EXCEPT ![r] = Fx!Input(n)]
    <2>1. curr_' = curr_ /\ Fx!Give(n, r, <<>>, 0, on)
      BY <1>4 DEF Fx!ProcessDelay
    <2>2. imgs_[n] = <<>> /\ curr_[n] = 0
      BY <1>1, <1>4, HasGotFacts DEF Remembers
    <2>3. Len(got[n]) = 1
      BY <1>1, <1>4, HowManyImages DEF FxInv
    <2>4. Mine(n) = {r}
      BY <1>1, <2>2, <2>3, HasGotFacts, FewElements DEF Mine
    <2>. HIDE DEF r
    <2>5. Gives(n, r, <<>>, 0)
      BY <1>1, <2>4, FewElements DEF Gives, IsCounter
    <2>6. /\ on \in Seq(Frames) /\ Len(on) = Len(onImage)
          /\ \A j \in Images : on[j] = IF j = r THEN Fx!Input(n) ELSE onImage[j]
      BY <1>3, <2>4, Painted DEF Images
    <2>. HIDE DEF on
    <2>7. Paints(n, on)
      BY <1>3, <2>4, <2>6 DEF Paints
    <2>8. on[r] = past[Fx!Arg(n)][Len(past[n]) + 1 - 0] /\ Len(past[n]) + 1 > 0
      BY <1>3, <2>4, <2>6
    <2>9. IsRing(<<>>, on, curr_'[n], program[n].size, past[Fx!Arg(n)], Len(past[n]) + 1)
      BY <1>4 DEF IsRing
    <2>10. Continues(n, r, <<>>, on)
      <3>1. Remembers(n, <<>>, r, curr_'[n], Len(past[n]) + 1)
        BY <1>1, <1>4, <2>1, <2>2 DEF Remembers, Fx!Sources
      <3>. QED BY <1>1, <1>3, <1>4, <2>1, <2>8, <2>9, <3>1 DEF Continues
    <2>. QED BY <2>1, <2>5, <2>7, <2>10 DEF Ends
  <1>5. CASE program[n].size # 0
    <2>. DEFINE ring  == IF got[n] = <<>> THEN imgs_[n] ELSE got[n]
                clear == [i \in DOMAIN onImage |-> IF i \in Fx!Elements(got[n]) THEN Fx!Blank ELSE onImage[i]]
                z     == program[n].size
                c     == curr_[n]
                s     == Fx!Slot(n)
                on    == [clear EXCEPT ![ring[c + 1]] = Fx!Input(n)]
    <2>1. curr_' = [curr_ EXCEPT ![n] = s] /\ Fx!Give(n, ring[s + 1], ring, 0, on)
      BY <1>5 DEF Fx!ProcessDelay
    <2>2. /\ ring \in Lists /\ Once(ring) /\ Len(ring) = z /\ Fx!Elements(ring) = Mine(n)
          /\ z \in Nat \ {0} /\ c \in 0 .. z - 1
          /\ clear \in Seq(Frames) /\ Len(clear) = Len(onImage) /\ DOMAIN clear = Images
          /\ \A i \in Images : /\ i \notin Mine(n) => clear[i] = onImage[i]
                              /\ clear[i] \in {Fx!Blank, onImage[i]}
          /\ IsRing(ring, clear, c, z, past[Fx!Arg(n)], Len(past[n]))
      BY <1>1, <1>5, RingIsReady
    <2>3. s = IF c + 1 = z THEN 0 ELSE c + 1
      <3>1. s = (c + 1) % z
        BY DEF Fx!Slot
      <3>. HIDE DEF s, c, z
      <3>2. z \in Nat \ {0} /\ c \in Nat /\ c + 1 \in Nat /\ (c + 1 = z \/ c + 1 < z)
        BY <2>2
      <3>3. CASE c + 1 = z
        <4>1. z % z = 0
          BY <3>2
        <4>. QED BY <3>1, <3>3, <4>1
      <3>4. CASE c + 1 < z
        <4>1. (c + 1) % z = c + 1 /\ c + 1 # z
          BY <3>2, <3>4, LessThanAll
        <4>. QED BY <3>1, <4>1
      <3>. QED BY <3>2, <3>3, <3>4
    <2>. HIDE DEF ring, clear, z, c, s
    <2>4. s \in 0 .. z - 1
      BY <2>2, <2>3
    <2>5. \A p \in 0 .. z - 1 : ring[p + 1] \in Mine(n) /\ ring[p + 1] \in Images
      <3>1. \A p \in 0 .. z - 1 : p + 1 \in 1 .. Len(ring)
        BY <2>2
      <3>2. \A i \in 1 .. Len(ring) : ring[i] \in Fx!Elements(ring)
        BY <2>2, FewElements
      <3>. QED BY <1>3, <2>2, <3>1, <3>2
    <2>6. \A p \in 0 .. z - 1 : p # c => ring[p + 1] # ring[c + 1]
      <3>1. DOMAIN ring = 1 .. z
        BY <2>2, FewElements
      <3>. QED BY <2>2, <3>1 DEF Once
    <2>7. /\ on \in Seq(Frames) /\ Len(on) = Len(onImage)
          /\ \A j \in Images : on[j] = IF j = ring[c + 1] THEN Fx!Input(n) ELSE clear[j]
      BY <1>3, <2>2, <2>5, Painted
    <2>. HIDE DEF on
    <2>8. Paints(n, on)
      BY <1>3, <2>2, <2>5, <2>7 DEF Paints
    <2>9. Gives(n, ring[s + 1], ring, 0)
      BY <1>1, <2>2, <2>4, <2>5 DEF Gives, IsCounter, Fx!Sources
    <2>10. HasGoneOn(ring, on, s, z, past[Fx!Arg(n)], Len(past[n]) + 1)
      <3>1. on[ring[c + 1]] = past[Fx!Arg(n)][Len(past[n]) + 1]
        BY <1>3, <2>2, <2>5, <2>7
      <3>2. \A p \in 0 .. z - 1 : p # c => on[ring[p + 1]] = clear[ring[p + 1]]
        BY <2>5, <2>6, <2>7
      <3>. DEFINE frames == past[Fx!Arg(n)]
                  l == Len(past[n])
                  k == Len(past[n]) + 1
      <3>3. l \in Nat /\ k = l + 1 /\ IsRing(ring, clear, c, z, frames, l) /\ on[ring[c + 1]] = frames[k]
        BY <1>3, <2>2, <3>1
      <3>. HIDE DEF frames, l, k
      <3>4. GoesOn(ring, clear, on, c, s, z, frames, l, k)
        BY <2>2, <2>3, <3>2, <3>3 DEF GoesOn
      <3>5. HasGoneOn(ring, on, s, z, frames, k)
        BY <3>4, RingTurns
      <3>. QED BY <3>5 DEF frames, k
    <2>11. curr_' \in [Fx!Nodes -> Nat] /\ curr_'[n] = s /\ \A k \in Fx!Nodes \ {n} : curr_'[k] = curr_[k]
      BY <1>3, <2>1, <2>2, <2>4
    <2>12. Continues(n, ring[s + 1], ring, on)
      <3>1. Remembers(n, ring, ring[s + 1], s, Len(past[n]) + 1)
        BY <1>1, <1>3, <2>2, <2>4 DEF Remembers, Fx!Sources, z
      <3>. DEFINE k == Len(past[n]) + 1
      <3>2. HasGoneOn(ring, on, curr_'[n], program[n].size, past[Fx!Arg(n)], k)
        BY <2>10, <2>11 DEF z
      <3>3. Remembers(n, ring, ring[s + 1], curr_'[n], k)
        BY <2>11, <3>1
      <3>4. mixed' \in [Fx!Nodes -> Frames] /\ \A m \in Fx!Nodes \ {n} : mixed'[m] = mixed[m]
        BY <1>1, <1>3
      <3>5. Fx!Kind(n) # "trail"
        BY <1>1
      <3>. HIDE DEF k
      <3>6. LET back == IF program[n].size = 0 THEN 0 ELSE program[n].size - 1
            IN  /\ on[ring[s + 1]] = IF k > back THEN past[Fx!Arg(n)][k - back] ELSE Fx!Blank
                /\ IsRing(ring, on, curr_'[n], program[n].size, past[Fx!Arg(n)], k)
        BY <1>5, <2>11, <3>2 DEF HasGoneOn
      <3>. USE DEF k
      <3>. QED BY <2>11, <3>3, <3>4, <3>5, <3>6 DEF Continues
    <2>. QED BY <2>1, <2>8, <2>9, <2>12 DEF Ends
  <1>. QED BY <1>4, <1>5

LEMMA ProcessInv ==
    ASSUME FxInv, NEW n \in Fx!Nodes, Fx!Process(n)
    PROVE  FxInv'
  <1>1. \E image, memory, scratch, on : Ends(n, image, memory, scratch, on)
    <2>1. CASE \E kind \in {"contours", "polygons"} : Fx!Spoils(n, kind)
      BY <2>1, SpoilsEnds
    <2>2. CASE \E kind \in Fx!Drawing \cup {"grayscale"} : Fx!Draws(n, kind)
      BY <2>2, DrawsEnds
    <2>3. CASE Fx!ProcessContours(n) \/ Fx!ProcessPolygons(n)
      BY <2>1, <2>3 DEF Fx!ProcessContours, Fx!ProcessPolygons
    <2>4. CASE \/ Fx!ProcessGrayscale(n) \/ Fx!ProcessAdd(n) \/ Fx!ProcessMask(n) \/ Fx!ProcessAbsdiff(n)
               \/ Fx!ProcessCanny(n) \/ Fx!ProcessSmooth(n) \/ Fx!ProcessSobel(n) \/ Fx!ProcessThreshold(n)
      BY <2>2, <2>4 DEF Fx!ProcessGrayscale, Fx!ProcessAdd, Fx!ProcessMask, Fx!ProcessAbsdiff, Fx!ProcessCanny,
            Fx!ProcessSmooth, Fx!ProcessSobel, Fx!ProcessThreshold, Fx!Drawing
    <2>. QED BY <2>3, <2>4, SourceEnds, PicEnds, FpsCounterEnds, TrailEnds, DelayEnds DEF Fx!Process
  <1>. QED BY <1>1, GiveInv

\* The other steps.
LEMMA WithoutAnImage ==
    ASSUME FxTyped, FxApart, FxRemembered, FxPool, FxRings, FxTrails, Fx!DelaysShowThePast,
           program' = program, list_' = list_, onImage' = onImage, chans' = chans, image_' = image_,
           imgs_' = imgs_, curr_' = curr_, got' = got, past' = past
    PROVE  /\ FxApart' /\ FxRemembered' /\ FxPool' /\ FxRings' /\ FxTrails' /\ Fx!DelaysShowThePast'
           /\ Fx!Nodes' = Fx!Nodes /\ Images' = Images
  <1>1. /\ Fx!Nodes' = Fx!Nodes /\ Images' = Images
        /\ \A n \in Fx!Nodes : /\ Fx!Kind(n)' = Fx!Kind(n) /\ Fx!Arg(n)' = Fx!Arg(n)
                              /\ Fx!Elements(imgs_[n])' = Fx!Elements(imgs_[n])
                              /\ Fx!Elements(got[n])' = Fx!Elements(got[n])
                              /\ IsCounter(n)' = IsCounter(n)
    BY DEF Fx!Nodes, Images, Fx!Kind, Fx!Arg, Fx!Elements, IsCounter
  <1>2. FxApart'
    <2>1. \A n \in Fx!Nodes : Owned(n)' = Owned(n)
      BY <1>1 DEF Owned, Mine
    <2>2. \A n \in Fx!Nodes : Once(imgs_[n])' = Once(imgs_[n]) /\ Once(got[n])' = Once(got[n])
      BY DEF Once
    <2>. QED BY <1>1, <2>1, <2>2 DEF FxApart
  <1>3. FxRemembered'
    <2>1. \A n \in Fx!Nodes : Remembers(n, imgs_[n], image_[n], curr_[n], Len(past[n]))' =
                              Remembers(n, imgs_[n], image_[n], curr_[n], Len(past[n]))
      BY DEF Remembers, Fx!Kind, Fx!Elements, Fx!Sources
    <2>. QED BY <1>1, <2>1 DEF FxRemembered
  <1>4. FxPool'
    <2>1. Fx!Held(image_, imgs_, got)' = Fx!Held(image_, imgs_, got)
      BY <1>1 DEF Fx!Held, Fx!Elements
    <2>2. Free(list_)' = Free(list_)
      BY DEF Free, Fx!Elements
    <2>3. IsPool(list_)' = IsPool(list_)
      BY DEF IsPool, Once, Lists, Fx!Elements
    <2>. QED BY <1>1, <2>1, <2>2, <2>3 DEF FxPool
  <1>5. FxRings' /\ Fx!DelaysShowThePast'
    BY <1>1 DEF FxRings, IsRing, Age, Fx!Blank, Fx!DelaysShowThePast
  <1>6. FxTrails'
    <2>1. \A n \in Fx!Nodes : IsAlone(n)' = IsAlone(n)
      BY <1>1 DEF IsAlone, Fx!Sources
    <2>2. Fx!Elements(list_[4])' = Fx!Elements(list_[4])
      BY DEF Fx!Elements
    <2>. QED BY <1>1, <2>1, <2>2 DEF FxTrails
  <1>. QED BY <1>1, <1>2, <1>3, <1>4, <1>5, <1>6

LEMMA BeginInv ==
    ASSUME FxInv, NEW n \in Fx!Nodes, Fx!Begin(n)
    PROVE  FxInv'
  <1>1. /\ FxTyped /\ FxOrdered /\ FxApart /\ FxRemembered /\ FxPool /\ FxShown /\ FxRings
        /\ FxStamped /\ FxTrails /\ Fx!DelaysShowThePast /\ Fx!TrailsAreOld
    BY DEF FxInv
  <1>2. /\ program' = program /\ ticker' = ticker /\ list_' = list_ /\ onImage' = onImage /\ chans' = chans
        /\ image_' = image_ /\ imgs_' = imgs_ /\ curr_' = curr_ /\ got' = got /\ past' = past /\ mixed' = mixed
        /\ fxAt[n] = "todo" /\ fxAt' = [fxAt EXCEPT ![n] = "process"]
        /\ \A i \in DOMAIN program[n].args : fxAt[program[n].args[i]] = "done"
    BY DEF Fx!Begin
  <1>3. /\ Fx!Nodes' = Fx!Nodes /\ Images' = Images
        /\ fxAt' \in [Fx!Nodes -> {"todo", "process", "done"}] /\ fxAt'[n] = "process"
        /\ \A k \in Fx!Nodes \ {n} : fxAt'[k] = fxAt[k]
        /\ \A k \in Fx!Nodes : fxAt'[k] = "done" <=> fxAt[k] = "done"
    BY <1>1, <1>2 DEF FxTyped, Fx!Nodes, Images
  <1>4. FxTyped'
    BY <1>1, <1>2, <1>3 DEF FxTyped, Frames, Lists
  <1>5. FxOrdered'
    <2>1. ASSUME NEW k \in Fx!Nodes, fxAt'[k] \in {"process", "done"}, NEW i \in DOMAIN program[k].args
          PROVE  fxAt'[program[k].args[i]] = "done"
      <3>1. fxAt[program[k].args[i]] = "done" /\ program[k].args[i] \in Fx!Nodes
        BY <1>1, <1>2, <1>3, <2>1, ProgramFacts DEF FxOrdered
      <3>. QED BY <1>3, <3>1
    <2>2. \A k \in Fx!Nodes : IsCounter(k)' <=> IsCounter(k)
      BY <1>2 DEF IsCounter, Fx!Kind
    <2>3. ASSUME NEW k \in Fx!Nodes, fxAt'[k] = "done", IsCounter(k)
          PROVE  \E m \in Fx!Nodes : ~IsCounter(m) /\ fxAt'[m] = "done" /\ image_[k] = image_[m]
      BY <1>1, <1>3, <2>3 DEF FxOrdered
    <2>4. \A k \in Fx!Nodes : /\ fxAt'[k] = "done" => image_[k] # 0
                             /\ Len(past[k]) = IF fxAt'[k] = "done" THEN ticker ELSE ticker - 1
      BY <1>1, <1>3 DEF FxOrdered
    <2>. QED BY <1>2, <1>3, <2>1, <2>2, <2>3, <2>4 DEF FxOrdered
  <1>8. FxShown' /\ FxStamped'
    BY <1>1, <1>2, <1>3 DEF FxShown, FxStamped, IsOld
  <1>9. FxApart' /\ FxRemembered' /\ FxPool' /\ FxRings' /\ FxTrails' /\ Fx!DelaysShowThePast'
    BY <1>1, <1>2, WithoutAnImage
  <1>10. Fx!TrailsAreOld'
    <2>1. \A k \in Fx!Nodes : Fx!Kind(k)' = Fx!Kind(k)
      BY <1>2 DEF Fx!Kind
    <2>. QED BY <1>1, <1>2, <1>3, <2>1 DEF Fx!TrailsAreOld, Fx!Sources
  <1>. QED BY <1>4, <1>5, <1>8, <1>9, <1>10 DEF FxInv

LEMMA ShowFrameInv ==
    ASSUME FxInv, Fx!ShowFrame
    PROVE  FxInv'
  <1>1. /\ FxTyped /\ FxOrdered /\ FxApart /\ FxRemembered /\ FxPool /\ FxShown /\ FxRings
        /\ FxStamped /\ FxTrails /\ Fx!DelaysShowThePast /\ Fx!TrailsAreOld
    BY DEF FxInv
  <1>2. /\ program' = program /\ ticker' = ticker + 1 /\ list_' = list_ /\ onImage' = onImage /\ chans' = chans
        /\ image_' = image_ /\ imgs_' = imgs_ /\ curr_' = curr_ /\ got' = got /\ past' = past /\ mixed' = mixed
        /\ fxAt' = [n \in Fx!Nodes |-> "todo"] /\ \A n \in Fx!Nodes : fxAt[n] = "done"
    BY DEF Fx!ShowFrame
  <1>3. /\ Fx!Nodes' = Fx!Nodes /\ Images' = Images /\ ticker \in Nat \ {0} /\ ticker + 1 - 1 = ticker
        /\ fxAt' \in [Fx!Nodes -> {"todo", "process", "done"}] /\ \A n \in Fx!Nodes : fxAt'[n] = "todo"
    BY <1>1, <1>2 DEF FxTyped, Fx!Nodes, Images
  <1>4. FxTyped'
    BY <1>1, <1>2, <1>3 DEF FxTyped, Frames, Lists
  <1>5. FxOrdered'
    <2>1. \A n \in Fx!Nodes : Len(past[n]) = ticker
      BY <1>1, <1>2 DEF FxOrdered
    <2>. QED BY <1>2, <1>3, <2>1 DEF FxOrdered
  <1>8. FxShown'
    BY <1>3 DEF FxShown
  <1>9. FxStamped'
    <2>1. ASSUME NEW i \in Images
          PROVE  /\ onImage[i][1] \in Fx!Nodes \cup {0}
                 /\ onImage[i][2] <= ticker + 1 /\ onImage[i][2] # ticker + 1
      <3>1. onImage[i][1] \in Fx!Nodes \cup {0} /\ onImage[i][2] <= ticker /\ onImage[i] \in Frames
        BY <1>1, WhatIsOnImages DEF FxStamped, IsOld
      <3>2. onImage[i][2] \in Nat
        BY <3>1 DEF Frames
      <3>. QED BY <1>3, <3>1, <3>2
    <2>. QED BY <1>2, <1>3, <2>1 DEF FxStamped, IsOld
  <1>10. FxApart' /\ FxRemembered' /\ FxPool' /\ FxRings' /\ FxTrails' /\ Fx!DelaysShowThePast'
    BY <1>1, <1>2, WithoutAnImage
  <1>12. Fx!TrailsAreOld'
    BY <1>3 DEF Fx!TrailsAreOld
  <1>. QED BY <1>4, <1>5, <1>8, <1>9, <1>10, <1>12 DEF FxInv

\* An image x that nobody holds is taken from the pool, or is a new one.
Obtains(n, c, x) ==
    /\ fxAt[n] = "process" /\ Len(got[n]) < Len(Fx!Gets(n)) /\ c = Fx!Gets(n)[Len(got[n]) + 1]
    /\ x \in Nat \ {0} /\ x \notin Fx!Held(image_, imgs_, got)
    /\ list_' \in [{1, 4} -> Lists] /\ Free(list_') = Free(list_) \ {x}
    /\ \A d \in {1, 4} : Once(list_'[d]) /\ Fx!Elements(list_'[d]) \subseteq Fx!Elements(list_[d])
    /\ onImage' \in Seq(Frames) /\ chans' \in Seq({1, 4}) /\ Len(chans') = Len(onImage')
    /\ Images' = Images \cup {x} /\ chans'[x] = c
    /\ \A i \in Images : onImage'[i] = onImage[i] /\ chans'[i] = chans[i]
    /\ x \notin Images => onImage'[x] = Fx!Unset
    /\ list_[c] = <<>> => list_' = list_
    /\ list_[c] # <<>> => x \in Fx!Elements(list_[c]) /\ Len(list_'[c]) = Len(list_[c]) - 1
    /\ got' = [got EXCEPT ![n] = Append(@, x)]
    /\ program' = program /\ ticker' = ticker /\ image_' = image_ /\ imgs_' = imgs_ /\ curr_' = curr_
    /\ fxAt' = fxAt /\ past' = past /\ mixed' = mixed

LEMMA GetImageObtains ==
    ASSUME FxInv, NEW n \in Fx!Nodes, Fx!GetImage(n)
    PROVE  \E c, x : Obtains(n, c, x)
  <1>1. FxTyped /\ FxOrdered /\ FxPool
    BY DEF FxInv
  <1>. DEFINE c == Fx!Gets(n)[Len(got[n]) + 1]
              x == Fx!Get(c).image
  <1>2. /\ fxAt[n] = "process" /\ Len(got[n]) < Len(Fx!Gets(n))
        /\ got' = [got EXCEPT ![n] = Append(@, x)] /\ list_' = Fx!Get(c).lists
        /\ IF x \in DOMAIN onImage THEN onImage' = onImage /\ chans' = chans
           ELSE onImage' = Append(onImage, Fx!Unset) /\ chans' = Append(chans, c)
        /\ program' = program /\ ticker' = ticker /\ image_' = image_ /\ imgs_' = imgs_ /\ curr_' = curr_
        /\ fxAt' = fxAt /\ past' = past /\ mixed' = mixed
    BY DEF Fx!GetImage
  <1>3. c \in {1, 4}
    <2>1. Len(got[n]) \in Nat /\ Len(Fx!Gets(n)) \in Nat
      BY <1>1, <1>2, HowManyImages, HasGotFacts, FewElements
    <2>2. Len(got[n]) + 1 \in 1 .. Len(Fx!Gets(n))
      BY <1>2, <2>1
    <2>. QED BY <1>1, <1>2, <2>2, HowManyImages
  <1>4. Fx!Get(c) = IF list_[c] # <<>>
                    THEN [image |-> list_[c][Len(list_[c])],
                          lists |-> [list_ EXCEPT ![c] = SubSeq(@, 1, Len(@) - 1)]]
                    ELSE [image |-> Len(onImage) + 1, lists |-> list_]
    BY DEF Fx!Get
  <1>5. /\ list_ \in [{1, 4} -> Lists] /\ onImage \in Seq(Frames) /\ chans \in Seq({1, 4})
        /\ Len(chans) = Len(onImage) /\ Len(onImage) \in Nat /\ Images = 1 .. Len(onImage)
        /\ \A d \in {1, 4} : Once(list_[d]) /\ Fx!Elements(list_[d]) \subseteq Free(list_)
        /\ Free(list_) \subseteq Images /\ Fx!Held(image_, imgs_, got) \ {0} \subseteq Images
        /\ Fx!Held(image_, imgs_, got) \cap Free(list_) \subseteq {0}
    BY <1>1 DEF FxTyped, FxPool, IsPool, Free, Images
  <1>. HIDE DEF c, x
  <1>6. CASE list_[c] # <<>>
    <2>. DEFINE l == list_[c]
                f == SubSeq(l, 1, Len(l) - 1)
    <2>1. l \in Lists /\ l # <<>>
      BY <1>3, <1>5, <1>6
    <2>2. x = l[Len(l)] /\ list_' = [list_ EXCEPT ![c] = f]
      BY <1>2, <1>4, <1>6 DEF x
    <2>3. /\ l[Len(l)] \in Nat \ {0} /\ f \in Lists /\ Len(f) = Len(l) - 1
          /\ Fx!Elements(l) = Fx!Elements(f) \cup {l[Len(l)]}
          /\ Once(l) => Once(f) /\ l[Len(l)] \notin Fx!Elements(f)
      BY <2>1, WithoutTheLast
    <2>. HIDE DEF f
    <2>4. x \in Nat \ {0} /\ x \in Fx!Elements(list_[c]) /\ x \in Images
      BY <1>3, <1>5, <2>2, <2>3
    <2>5. x \notin Fx!Held(image_, imgs_, got)
      BY <1>3, <1>5, <2>4
    <2>6. /\ list_' \in [{1, 4} -> Lists] /\ list_'[c] = f /\ \A d \in {1, 4} : d # c => list_'[d] = list_[d]
      BY <1>3, <1>5, <2>2, <2>3
    <2>7. \A d \in {1, 4} : d # c => x \notin Fx!Elements(list_[d])
      BY <1>1, <1>3, <2>4 DEF FxPool, IsPool
    <2>8. Free(list_') = Free(list_) \ {x}
      <3>1. Fx!Elements(list_'[c]) = Fx!Elements(list_[c]) \ {x}
        BY <1>3, <1>5, <2>2, <2>3, <2>6
      <3>. QED BY <1>3, <2>6, <2>7, <3>1 DEF Free
    <2>9. onImage' = onImage /\ chans' = chans /\ Images' = Images
      BY <1>2, <2>4 DEF Images
    <2>10. chans[x] = c
      BY <1>1, <1>3, <2>4 DEF FxPool, IsPool
    <2>11. \A d \in {1, 4} : Once(list_'[d]) /\ Fx!Elements(list_'[d]) \subseteq Fx!Elements(list_[d])
      BY <1>3, <1>5, <2>3, <2>6
    <2>12. Len(list_'[c]) = Len(list_[c]) - 1
      BY <2>3, <2>6
    <2>13. Obtains(n, c, x)
      BY <1>2, <1>5, <1>6, <2>4, <2>5, <2>6, <2>8, <2>9, <2>10, <2>11, <2>12 DEF Obtains, c
    <2>. QED BY <2>13
  <1>7. CASE list_[c] = <<>>
    <2>1. x = Len(onImage) + 1 /\ list_' = list_
      BY <1>2, <1>4, <1>7 DEF x
    <2>2. x \in Nat \ {0} /\ x \notin Images /\ x \notin Free(list_) /\ x \notin Fx!Held(image_, imgs_, got)
      BY <1>5, <2>1
    <2>3. onImage' = Append(onImage, Fx!Unset) /\ chans' = Append(chans, c)
      BY <1>2, <2>2 DEF Images
    <2>4. Fx!Unset \in Frames
      BY DEF Fx!Unset, Frames
    <2>5. ASSUME NEW S, NEW s \in Seq(S), NEW e \in S, Len(s) = Len(onImage)
          PROVE  /\ Append(s, e) \in Seq(S) /\ Len(Append(s, e)) = x /\ DOMAIN Append(s, e) = 1 .. x
                 /\ Append(s, e)[x] = e /\ \A i \in 1 .. Len(onImage) : Append(s, e)[i] = s[i]
      BY <1>5, <2>1, <2>5
    <2>6. /\ onImage' \in Seq(Frames) /\ Len(onImage') = x /\ DOMAIN onImage' = 1 .. x
          /\ onImage'[x] = Fx!Unset /\ \A i \in Images : onImage'[i] = onImage[i]
      BY <1>5, <2>3, <2>4, <2>5
    <2>7. chans' \in Seq({1, 4}) /\ Len(chans') = x /\ chans'[x] = c /\ \A i \in Images : chans'[i] = chans[i]
      BY <1>3, <1>5, <2>3, <2>5
    <2>8. Images' = Images \cup {x}
      BY <1>5, <2>1, <2>6 DEF Images
    <2>9. Obtains(n, c, x)
      BY <1>2, <1>5, <1>7, <2>1, <2>2, <2>6, <2>7, <2>8 DEF Obtains, c
    <2>. QED BY <2>9
  <1>. QED BY <1>6, <1>7

LEMMA ObtainsInv ==
    ASSUME FxInv, NEW n \in Fx!Nodes, NEW c, NEW x, Obtains(n, c, x)
    PROVE  FxInv'
  <1>1. /\ FxTyped /\ FxOrdered /\ FxApart /\ FxRemembered /\ FxPool /\ FxShown /\ FxRings
        /\ FxStamped /\ FxTrails /\ Fx!DelaysShowThePast /\ Fx!TrailsAreOld
    BY DEF FxInv
  <1>2. /\ fxAt[n] = "process" /\ Len(got[n]) < Len(Fx!Gets(n)) /\ c = Fx!Gets(n)[Len(got[n]) + 1]
        /\ x \in Nat \ {0} /\ x \notin Fx!Held(image_, imgs_, got)
        /\ list_' \in [{1, 4} -> Lists] /\ Free(list_') = Free(list_) \ {x}
        /\ \A d \in {1, 4} : Once(list_'[d]) /\ Fx!Elements(list_'[d]) \subseteq Fx!Elements(list_[d])
        /\ onImage' \in Seq(Frames) /\ chans' \in Seq({1, 4}) /\ Len(chans') = Len(onImage')
        /\ Images' = Images \cup {x} /\ chans'[x] = c
        /\ \A i \in Images : onImage'[i] = onImage[i] /\ chans'[i] = chans[i]
        /\ x \notin Images => onImage'[x] = Fx!Unset
    BY DEF Obtains
  <1>3. /\ program' = program /\ ticker' = ticker /\ image_' = image_ /\ imgs_' = imgs_ /\ curr_' = curr_
        /\ fxAt' = fxAt /\ past' = past /\ mixed' = mixed
        /\ got' = [got EXCEPT ![n] = Append(@, x)]
    BY DEF Obtains
  <1>4. /\ Fx!Nodes' = Fx!Nodes
        /\ \A k \in Fx!Nodes : /\ Fx!Kind(k)' = Fx!Kind(k) /\ Fx!Arg(k)' = Fx!Arg(k)
                              /\ IsCounter(k)' = IsCounter(k)
    BY <1>3 DEF Fx!Nodes, Fx!Kind, Fx!Arg, IsCounter
  <1>5. got[n] \in Lists /\ Once(got[n]) /\ got \in [Fx!Nodes -> Lists]
    BY <1>1 DEF FxTyped, FxApart
  <1>6. \A k \in Fx!Nodes : image_[k] # x /\ x \notin Mine(k) /\ x \notin Fx!Elements(got[k])
    BY <1>2, HeldBy DEF Mine
  <1>7. /\ got' \in [Fx!Nodes -> Lists] /\ Len(got'[n]) = Len(got[n]) + 1 /\ Once(got'[n])
        /\ Fx!Elements(got'[n]) = Fx!Elements(got[n]) \cup {x}
        /\ \A k \in Fx!Nodes \ {n} : got'[k] = got[k]
    <2>1. /\ Append(got[n], x) \in Lists /\ Len(Append(got[n], x)) = Len(got[n]) + 1
          /\ Fx!Elements(Append(got[n], x)) = Fx!Elements(got[n]) \cup {x} /\ Once(Append(got[n], x))
      BY <1>2, <1>5, <1>6, Grown
    <2>. QED BY <1>3, <1>5, <2>1
  <1>8. FxTyped'
    BY <1>1, <1>2, <1>3, <1>4, <1>7 DEF FxTyped, Frames, Lists
  <1>9. FxOrdered'
    BY <1>1, <1>3, <1>4 DEF FxOrdered
  <1>10. FxApart'
    <2>1. \A k \in Fx!Nodes : /\ Fx!Elements(imgs_[k])' = Fx!Elements(imgs_[k])
                             /\ Fx!Elements(got[k])' = Fx!Elements(got'[k])
                             /\ Once(imgs_[k])' = Once(imgs_[k]) /\ Once(got[k])' = Once(got'[k])
      BY <1>3 DEF Fx!Elements, Once
    <2>2. \A k \in Fx!Nodes \ {n} : Owned(k)' = Owned(k)
      BY <1>3, <1>4, <1>7, <2>1 DEF Owned, Mine
    <2>3. Owned(n)' = Owned(n) \cup {x}
      BY <1>2, <1>3, <1>4, <1>7, <2>1 DEF Owned, Mine
    <2>4. \A k \in Fx!Nodes : x \notin Owned(k)
      BY <1>6 DEF Owned
    <2>5. \A k, m \in Fx!Nodes : k # m => Owned(k)' \cap Owned(m)' = {}
      BY <1>1, <2>2, <2>3, <2>4 DEF FxApart
    <2>6. ASSUME NEW k \in Fx!Nodes
          PROVE  /\ Once(imgs_[k]) /\ Once(got'[k])
                 /\ Fx!Elements(imgs_[k]) \cap Fx!Elements(got'[k]) = {}
                 /\ \A m \in Fx!Nodes : image_[m] \notin Fx!Elements(got'[k])
      BY <1>1, <1>6, <1>7 DEF FxApart, Mine
    <2>. QED BY <1>3, <1>4, <2>1, <2>5, <2>6 DEF FxApart
  <1>11. FxRemembered'
    <2>1. \A k \in Fx!Nodes : Remembers(k, imgs_[k], image_[k], curr_[k], Len(past[k]))' =
                              Remembers(k, imgs_[k], image_[k], curr_[k], Len(past[k]))
      BY <1>3 DEF Remembers, Fx!Kind, Fx!Elements, Fx!Sources
    <2>. QED BY <1>1, <1>4, <2>1 DEF FxRemembered
  <1>12. FxPool'
    <2>1. ASSUME NEW i
          PROVE  i \in Fx!Held(image_, imgs_, got)' <=> i \in Fx!Held(image_, imgs_, got) \/ i = x
      <3>1. i \in Fx!Held(image_, imgs_, got)' <=>
               \E k \in Fx!Nodes : i = image_[k] \/ i \in Fx!Elements(imgs_[k]) \/ i \in Fx!Elements(got'[k])
        BY <1>3, <1>4 DEF Fx!Held, Fx!Elements
      <3>2. i \in Fx!Held(image_, imgs_, got) <=>
               \E k \in Fx!Nodes : i = image_[k] \/ i \in Fx!Elements(imgs_[k]) \/ i \in Fx!Elements(got[k])
        BY HeldBy
      <3>. QED BY <1>7, <3>1, <3>2
    <2>2. Free(list_)' = Free(list_')
      BY DEF Free, Fx!Elements
    <2>3. IsPool(list_)'
      <3>1. \A d \in {1, 4} : \A i \in Fx!Elements(list_'[d]) : chans'[i] = d
        BY <1>1, <1>2 DEF FxPool, IsPool, Free
      <3>2. \A d \in {1, 4} : Once(list_[d])' = Once(list_'[d]) /\ Fx!Elements(list_[d])' = Fx!Elements(list_'[d])
        BY DEF Once, Fx!Elements
      <3>. QED BY <1>2, <3>1, <3>2 DEF IsPool, Lists
    <2>4. LET held == Fx!Held(image_, imgs_, got) \ {0}
          IN  held \cap Free(list_) = {} /\ held \cup Free(list_) = Images
      BY <1>1 DEF FxPool
    <2>5. LET held == Fx!Held(image_, imgs_, got)' \ {0}
          IN  held \cap Free(list_') = {} /\ held \cup Free(list_') = Images \cup {x}
      BY <1>2, <2>1, <2>4
    <2>. QED BY <1>2, <2>2, <2>3, <2>5 DEF FxPool
  <1>13. FxShown'
    <2>1. \A k \in Fx!Nodes : fxAt[k] = "done" => image_[k] \in Images
      BY <1>1, WhatIsHeld DEF FxOrdered
    <2>. QED BY <1>1, <1>2, <1>3, <1>4, <2>1 DEF FxShown
  <1>14. FxRings' /\ Fx!DelaysShowThePast'
    <2>1. ASSUME NEW k \in Fx!Nodes, Fx!Kind(k) = "delay", past[k] # <<>>, NEW p \in 0 .. program[k].size - 1
          PROVE  onImage'[imgs_[k][p + 1]] = onImage[imgs_[k][p + 1]]
      <3>1. program[k].size \in Nat /\ imgs_[k] \in Lists /\ Len(past[k]) # 0
        BY <1>1, <2>1, ProgramFacts DEF FxTyped
      <3>2. program[k].size # 0 => Len(imgs_[k]) = program[k].size
        BY <1>1, <2>1, <3>1 DEF FxRemembered, Remembers
      <3>3. p + 1 \in 1 .. Len(imgs_[k])
        BY <3>1, <3>2
      <3>4. imgs_[k][p + 1] \in Images
        BY <1>1, <3>1, <3>3, FewElements, WhatIsHeld DEF Mine
      <3>. QED BY <1>2, <3>4
    <2>2. ASSUME NEW k \in Fx!Nodes, Fx!Kind(k) = "delay", past[k] # <<>>
          PROVE  IsRing(imgs_[k], onImage', curr_[k], program[k].size, past[Fx!Arg(k)], Len(past[k]))
      <3>1. IsRing(imgs_[k], onImage, curr_[k], program[k].size, past[Fx!Arg(k)], Len(past[k]))
        BY <1>1, <2>2 DEF FxRings
      <3>. QED BY <2>1, <2>2, <3>1 DEF IsRing
    <2>3. FxRings'
      BY <1>3, <1>4, <2>2 DEF FxRings, IsRing, Age, Fx!Blank
    <2>4. Fx!DelaysShowThePast'
      BY <1>1, <1>3, <1>4 DEF Fx!DelaysShowThePast, Fx!Blank
    <2>. QED BY <2>3, <2>4
  <1>15. FxStamped'
    <2>1. IsOld(Fx!Unset)
      BY <1>1 DEF IsOld, Fx!Unset, FxTyped
    <2>2. \A i \in Images' : IsOld(onImage'[i])
      BY <1>1, <1>2, <2>1 DEF FxStamped
    <2>. QED BY <1>3, <1>4, <2>2 DEF FxStamped, IsOld
  <1>16. FxTrails'
    <2>1. ASSUME NEW m \in Fx!Nodes, IsAlone(m)
          PROVE  LET k == Len(past[m])
                 IN  /\ \A i \in Images' : chans'[i] = 4
                     /\ Len(got'[m]) <= 1
                     /\ k = 0 => image_[m] = 0
                     /\ k > 0 => image_[m] # 0 /\ onImage'[image_[m]] = <<m, k>>
                     /\ k < 2 => list_'[4] = <<>>
                     /\ k >= 2 => /\ Len(list_'[4]) + Len(got'[m]) = 1
                                  /\ \A i \in Fx!Elements(list_'[4]) \cup Fx!Elements(got'[m]) :
                                        onImage'[i] = <<m, k - 1>>
      <3>. DEFINE k == Len(past[m])
      <3>1. /\ \A i \in Images : chans[i] = 4
            /\ k = 0 => image_[m] = 0
            /\ k > 0 => image_[m] # 0 /\ onImage[image_[m]] = <<m, k>>
            /\ k < 2 => list_[4] = <<>>
            /\ k >= 2 => /\ Len(list_[4]) + Len(got[m]) = 1
                         /\ \A i \in Fx!Elements(list_[4]) \cup Fx!Elements(got[m]) : onImage[i] = <<m, k - 1>>
        BY <1>1, <2>1 DEF FxTrails
      <3>2. Len(got[n]) \in Nat /\ k \in Nat
        BY <1>1, <1>5, FewElements DEF FxTyped
      <3>3. m = n
        <4>1. CASE m # n
          <5>1. Fx!Kind(n) \in Fx!Sources
            BY <2>1, <4>1 DEF IsAlone
          <5>2. Len(Fx!Gets(n)) = 0
            BY <1>1, <1>2, <5>1, HowManyImages
          <5>. QED BY <1>2, <3>2, <5>2
        <4>. QED BY <4>1
      <3>4. Fx!Kind(n) = "trail" /\ Fx!Kind(n) \notin Fx!Sources
        BY <2>1, <3>3 DEF IsAlone, Fx!Sources
      <3>5. Len(got[n]) = 0 /\ c = 4
        <4>1. Len(Fx!Gets(n)) = 1 /\ Fx!Gets(n)[1] = chans[image_[Fx!Arg(n)]]
          BY <1>1, <1>2, <3>4, HowManyImages
        <4>2. Len(got[n]) = 0
          BY <1>2, <3>2, <4>1
        <4>3. c = chans[image_[Fx!Arg(n)]]
          BY <1>2, <4>1, <4>2
        <4>4. image_[Fx!Arg(n)] \in Images
          BY <1>1, <1>2, <3>4, KindsOfEffects
        <4>. QED BY <3>1, <4>2, <4>3, <4>4
      <3>6. \A i \in Images' : chans'[i] = 4
        BY <1>2, <3>1, <3>5
      <3>7. Len(got'[n]) = 1 /\ Fx!Elements(got'[n]) = {x}
        BY <1>5, <1>7, <3>5, FewElements
      <3>8. k > 0 => image_[m] # 0 /\ onImage'[image_[m]] = <<m, k>>
        <4>1. image_[m] # 0 => onImage'[image_[m]] = onImage[image_[m]]
          BY <1>1, <1>2, WhatIsHeld
        <4>. QED BY <3>1, <4>1
      <3>9. k < 2 => list_'[4] = <<>>
        BY <3>1, <3>5 DEF Obtains
      <3>10. ASSUME k >= 2
             PROVE  /\ Len(list_'[4]) = 0 /\ Fx!Elements(list_'[4]) = {}
                    /\ onImage'[x] = <<m, k - 1>>
        <4>1. Len(list_[4]) = 1 /\ list_[4] \in Lists /\ list_'[4] \in Lists
          <5>1. Len(list_[4]) + 0 = 1
            BY <3>1, <3>3, <3>5, <3>10
          <5>2. list_[4] \in Lists /\ list_'[4] \in Lists
            BY <1>1, <1>2 DEF FxTyped
          <5>3. Len(list_[4]) \in Nat
            BY <5>2, FewElements
          <5>. QED BY <5>1, <5>2, <5>3
        <4>2. list_[4] # <<>>
          BY <4>1, FewElements
        <4>3. x \in Fx!Elements(list_[4]) /\ Len(list_'[4]) = 0
          <5>1. list_[c] # <<>> => x \in Fx!Elements(list_[c]) /\ Len(list_'[c]) = Len(list_[c]) - 1
            BY DEF Obtains
          <5>2. x \in Fx!Elements(list_[4]) /\ Len(list_'[4]) = Len(list_[4]) - 1
            BY <3>5, <4>2, <5>1
          <5>. QED BY <4>1, <5>2
        <4>4. x \in Images /\ onImage[x] = <<m, k - 1>>
          BY <1>1, <3>1, <3>10, <4>3 DEF FxPool, Free
        <4>5. Fx!Elements(list_'[4]) = {}
          BY <4>1, <4>3, FewElements
        <4>. QED BY <1>2, <4>3, <4>4, <4>5
      <3>. HIDE DEF k
      <3>11. k >= 2 => /\ Len(list_'[4]) + Len(got'[m]) = 1
                       /\ \A i \in Fx!Elements(list_'[4]) \cup Fx!Elements(got'[m]) : onImage'[i] = <<m, k - 1>>
        BY <3>3, <3>7, <3>10
      <3>12. Len(got'[m]) <= 1
        BY <3>3, <3>7
      <3>13. k = 0 => image_[m] = 0
        BY <3>1
      <3>. QED BY <3>6, <3>8, <3>9, <3>11, <3>12, <3>13 DEF k
    <2>2. \A m \in Fx!Nodes : IsAlone(m)' = IsAlone(m)
      BY <1>4 DEF IsAlone, Fx!Sources
    <2>3. Fx!Elements(list_[4])' = Fx!Elements(list_'[4])
          /\ \A m \in Fx!Nodes : Fx!Elements(got[m])' = Fx!Elements(got'[m])
      BY DEF Fx!Elements
    <2>. QED BY <1>3, <1>4, <2>1, <2>2, <2>3 DEF FxTrails
  <1>17. Fx!TrailsAreOld'
    BY <1>1, <1>3, <1>4 DEF Fx!TrailsAreOld, Fx!Sources
  <1>. QED BY <1>8, <1>9, <1>10, <1>11, <1>12, <1>13, <1>14, <1>15, <1>16, <1>17 DEF FxInv

\* The images with which the effects begin.
IsFirst(o, n, s, q) ==
    /\ o \in Lists /\ Once(o)
    /\ Fx!Elements(o) = IF n <= s THEN {2 * n - 1, 2 * n} ELSE IF n <= s + q THEN {s + n} ELSE {}
    /\ n <= s => Len(o) = 2
    /\ s < n /\ n <= s + q => Len(o) = 1
    /\ s + q < n => o = <<>>

LEMMA FirstImages ==
    ASSUME NEW s \in Nat, NEW q \in Nat, NEW n \in Nat \ {0}
    PROVE  IsFirst(Fx!Own(n, s, q), n, s, q)
  <1>1. CASE n <= s
    <2>1. Fx!Own(n, s, q) = <<2 * n - 1, 2 * n>>
      BY <1>1 DEF Fx!Own
    <2>2. 2 * n - 1 \in Nat \ {0} /\ 2 * n \in Nat \ {0} /\ 2 * n - 1 # 2 * n
      OBVIOUS
    <2>3. /\ <<2 * n - 1, 2 * n>> \in Lists /\ Len(<<2 * n - 1, 2 * n>>) = 2
          /\ Fx!Elements(<<2 * n - 1, 2 * n>>) = {2 * n - 1, 2 * n} /\ Once(<<2 * n - 1, 2 * n>>)
      BY <2>2, ShortLists
    <2>. QED BY <1>1, <2>1, <2>3 DEF IsFirst
  <1>2. CASE s < n /\ n <= s + q
    <2>1. Fx!Own(n, s, q) = <<s + n>>
      BY <1>2 DEF Fx!Own
    <2>2. <<s + n>> \in Lists /\ Len(<<s + n>>) = 1 /\ Fx!Elements(<<s + n>>) = {s + n} /\ Once(<<s + n>>)
      BY DEF Lists, Fx!Elements, Once
    <2>. QED BY <1>2, <2>1, <2>2 DEF IsFirst
  <1>3. CASE s + q < n
    <2>1. Fx!Own(n, s, q) = <<>>
      BY <1>3 DEF Fx!Own
    <2>. QED BY <1>3, <2>1, FewElements DEF IsFirst
  <1>. QED BY <1>1, <1>2, <1>3

LEMMA FxInitInv ==
    ASSUME Fx!FxInit
    PROVE  FxInv
  <1>1. PICK s, q \in 0 .. Len(program) :
           /\ Fx!LaidOut(program, s, q)
           /\ onImage = [i \in 1 .. 2 * s + q |-> IF i <= 2 * s THEN Fx!Unset ELSE <<i - s, 0>>]
           /\ imgs_ = [n \in Fx!Nodes |-> Fx!Own(n, s, q)]
    BY DEF Fx!FxInit
  <1>2. /\ program \in Programs /\ ticker = 1 /\ list_ = [c \in {1, 4} |-> <<>>]
        /\ chans = [i \in DOMAIN onImage |-> 4]
        /\ image_ = [n \in Fx!Nodes |-> 0] /\ curr_ = [n \in Fx!Nodes |-> 0]
        /\ got = [n \in Fx!Nodes |-> <<>>] /\ fxAt = [n \in Fx!Nodes |-> "todo"]
        /\ past = [n \in Fx!Nodes |-> <<>>] /\ mixed = [n \in Fx!Nodes |-> Fx!Unset]
    BY DEF Fx!FxInit
  <1>3. Len(program) \in Nat /\ Fx!Nodes = 1 .. Len(program)
    BY <1>2, ObjectsAssumption DEF Fx!ImageEffectsAssumption, Fx!Nodes
  <1>4. /\ s \in Nat /\ q \in Nat /\ s + q <= Len(program)
        /\ \A n \in Fx!Nodes : /\ Fx!Kind(n) = "source" <=> n <= s
                              /\ Fx!Kind(n) = "pic" <=> s < n /\ n <= s + q
    BY <1>1, <1>3 DEF Fx!LaidOut, Fx!Nodes, Fx!Kind
  <1>5. Images = 1 .. 2 * s + q /\ 2 * s + q \in Nat
    BY <1>1, <1>4 DEF Images
  <1>6. ASSUME NEW n \in Fx!Nodes
        PROVE  n \in Nat \ {0} /\ n <= Len(program) /\ IsFirst(imgs_[n], n, s, q)
    <2>1. n \in Nat \ {0} /\ n <= Len(program) /\ imgs_[n] = Fx!Own(n, s, q)
      BY <1>1, <1>3
    <2>. QED BY <1>4, <2>1, FirstImages
  <1>7. \A i \in Images : onImage[i] = IF i <= 2 * s THEN Fx!Unset ELSE <<i - s, 0>>
    BY <1>1, <1>5
  <1>8. /\ \A n \in Fx!Nodes : /\ image_[n] = 0 /\ curr_[n] = 0 /\ got[n] = <<>> /\ fxAt[n] = "todo"
                              /\ past[n] = <<>> /\ Len(past[n]) = 0 /\ DOMAIN past[n] = {}
        /\ list_[1] = <<>> /\ list_[4] = <<>> /\ \A i \in Images : chans[i] = 4
    BY <1>2 DEF Images
  <1>9. FxTyped
    <2>1. onImage \in Seq(Frames)
      <3>1. \A i \in 1 .. 2 * s + q : (IF i <= 2 * s THEN Fx!Unset ELSE <<i - s, 0>>) \in Frames
        <4>1. Fx!Unset \in Frames
          BY DEF Fx!Unset, Frames
        <4>2. ASSUME NEW i \in 1 .. 2 * s + q, ~(i <= 2 * s)
              PROVE  <<i - s, 0>> \in Frames
          <5>1. i - s \in Nat
            BY <1>4, <4>2
          <5>. QED BY <5>1 DEF Frames
        <4>. QED BY <4>1, <4>2
      <3>2. onImage \in [1 .. 2 * s + q -> Frames]
        BY <1>1, <3>1
      <3>3. \A m \in Nat : \A f \in [1 .. m -> Frames] : f \in Seq(Frames)
        OBVIOUS
      <3>. QED BY <1>5, <3>2, <3>3
    <2>2. chans \in Seq({1, 4}) /\ Len(chans) = Len(onImage)
      <3>1. DOMAIN onImage = 1 .. 2 * s + q /\ Len(onImage) = 2 * s + q
        BY <1>1, <1>5
      <3>. QED BY <1>2, <1>5, <3>1
    <2>3. /\ image_ \in [Fx!Nodes -> Nat] /\ curr_ \in [Fx!Nodes -> Nat]
          /\ fxAt \in [Fx!Nodes -> {"todo", "process", "done"}]
          /\ list_ \in [{1, 4} -> Lists] /\ got \in [Fx!Nodes -> Lists] /\ imgs_ \in [Fx!Nodes -> Lists]
      BY <1>1, <1>2, <1>6, FewElements DEF IsFirst
    <2>4. past \in [Fx!Nodes -> Seq(Frames)] /\ mixed \in [Fx!Nodes -> Frames]
      BY <1>2 DEF Fx!Unset, Frames
    <2>5. ticker \in Nat \ {0}
      BY <1>2
    <2>. QED BY <1>2, <2>1, <2>2, <2>3, <2>4, <2>5 DEF FxTyped
  <1>10. FxOrdered
    BY <1>2, <1>8 DEF FxOrdered
  <1>11. \A n \in Fx!Nodes : Mine(n) = Fx!Elements(imgs_[n]) /\ Owned(n) = Fx!Elements(imgs_[n])
    BY <1>8, FewElements DEF Mine, Owned
  <1>12. FxApart
    <2>1. ASSUME NEW n \in Fx!Nodes, NEW k \in Fx!Nodes, n # k
          PROVE  Fx!Elements(imgs_[n]) \cap Fx!Elements(imgs_[k]) = {}
      <3>1. n \in Nat \ {0} /\ k \in Nat \ {0}
        BY <1>6
      <3>2. /\ Fx!Elements(imgs_[n]) = IF n <= s THEN {2 * n - 1, 2 * n} ELSE IF n <= s + q THEN {s + n} ELSE {}
            /\ Fx!Elements(imgs_[k]) = IF k <= s THEN {2 * k - 1, 2 * k} ELSE IF k <= s + q THEN {s + k} ELSE {}
        BY <1>6 DEF IsFirst
      <3>. QED BY <1>4, <2>1, <3>1, <3>2
    <2>2. \A n \in Fx!Nodes : Once(imgs_[n])
      BY <1>6 DEF IsFirst
    <2>3. \A n \in Fx!Nodes : Once(got[n]) /\ Fx!Elements(got[n]) = {}
      BY <1>8, FewElements
    <2>. QED BY <1>11, <2>1, <2>2, <2>3 DEF FxApart
  <1>13. FxRemembered
    <2>1. ASSUME NEW n \in Fx!Nodes
          PROVE  Remembers(n, imgs_[n], image_[n], curr_[n], Len(past[n]))
      <3>1. n \in Nat /\ IsFirst(imgs_[n], n, s, q)
        BY <1>6
      <3>0. (Fx!Kind(n) = "source" <=> n <= s) /\ (Fx!Kind(n) = "pic" <=> s < n /\ n <= s + q)
        BY <1>1 DEF Fx!LaidOut, Fx!Nodes, Fx!Kind
      <3>2. Fx!Kind(n) = "source" => Len(imgs_[n]) = 2
        BY <3>0, <3>1 DEF IsFirst
      <3>3. Fx!Kind(n) = "pic" => Len(imgs_[n]) = 1
        BY <3>0, <3>1 DEF IsFirst
      <3>4. Fx!Kind(n) \notin Fx!Sources => imgs_[n] = <<>>
        <4>1. Fx!Kind(n) \notin Fx!Sources => ~(n <= s) /\ ~(s < n /\ n <= s + q)
          BY <3>0 DEF Fx!Sources
        <4>2. ~(n <= s) /\ ~(s < n /\ n <= s + q) => s + q < n
          BY <1>4, <3>1
        <4>. QED BY <3>1, <4>1, <4>2 DEF IsFirst
      <3>. QED BY <1>8, <3>2, <3>3, <3>4 DEF Remembers, Fx!Sources
    <2>. QED BY <2>1 DEF FxRemembered
  <1>14. FxPool
    <2>1. IsPool(list_) /\ Free(list_) = {}
      BY <1>8, <1>9, FewElements DEF FxTyped, IsPool, Free
    <2>2. ASSUME NEW i \in Fx!Held(image_, imgs_, got), i # 0
          PROVE  i \in Images
      <3>1. PICK n \in Fx!Nodes : i \in Fx!Elements(imgs_[n])
        BY <1>8, <2>2, HeldBy, FewElements
      <3>2. n \in Nat \ {0} /\ n <= Len(program)
            /\ i \in IF n <= s THEN {2 * n - 1, 2 * n} ELSE IF n <= s + q THEN {s + n} ELSE {}
        BY <1>6, <3>1 DEF IsFirst
      <3>. QED BY <1>4, <1>5, <3>2
    <2>3. ASSUME NEW i \in Images
          PROVE  i \in Fx!Held(image_, imgs_, got) \ {0}
      <3>1. \E n \in Fx!Nodes : i \in Fx!Elements(imgs_[n])
        <4>1. CASE i <= 2 * s
          <5>. DEFINE n == (i + 1) \div 2
          <5>1. n \in 1 .. s /\ (i = 2 * n - 1 \/ i = 2 * n)
            BY <1>4, <1>5, <4>1
          <5>. HIDE DEF n
          <5>2. n \in Fx!Nodes /\ n <= s
            BY <1>3, <1>4, <5>1
          <5>3. Fx!Elements(imgs_[n]) = {2 * n - 1, 2 * n}
            BY <1>6, <5>2 DEF IsFirst
          <5>. QED BY <5>1, <5>2, <5>3
        <4>2. CASE ~(i <= 2 * s)
          <5>. DEFINE n == i - s
          <5>1. n \in Fx!Nodes /\ ~(n <= s) /\ n <= s + q /\ s + n = i
            BY <1>3, <1>4, <1>5, <4>2
          <5>. HIDE DEF n
          <5>2. Fx!Elements(imgs_[n]) = {s + n}
            BY <1>6, <5>1 DEF IsFirst
          <5>. QED BY <5>1, <5>2
        <4>. QED BY <4>1, <4>2
      <3>2. i # 0
        BY <1>5
      <3>. QED BY <3>1, <3>2, HeldBy
    <2>. QED BY <2>1, <2>2, <2>3 DEF FxPool
  <1>15. FxShown /\ FxRings /\ Fx!DelaysShowThePast /\ Fx!TrailsAreOld
    BY <1>8 DEF FxShown, FxRings, Fx!DelaysShowThePast, Fx!TrailsAreOld
  <1>16. FxStamped
    <2>1. IsOld(Fx!Unset)
      BY <1>2 DEF IsOld, Fx!Unset
    <2>2. ASSUME NEW i \in Images, ~(i <= 2 * s)
          PROVE  IsOld(<<i - s, 0>>)
      <3>1. i - s \in Fx!Nodes
        BY <1>3, <1>4, <1>5, <2>2
      <3>. QED BY <1>2, <3>1 DEF IsOld
    <2>. QED BY <1>7, <2>1, <2>2 DEF FxStamped
  <1>17. FxTrails
    <2>1. Len(<<>>) = 0
      OBVIOUS
    <2>. QED BY <1>8, <2>1 DEF FxTrails
  <1>. QED BY <1>9, <1>10, <1>12, <1>13, <1>14, <1>15, <1>16, <1>17 DEF FxInv

LEMMA FxNextInv ==
    ASSUME FxInv, [Fx!FxNext]_(Fx!fxVars)
    PROVE  FxInv'
  <1>1. CASE Fx!ShowFrame
    BY <1>1, ShowFrameInv
  <1>2. ASSUME NEW n \in Fx!Nodes, Fx!Begin(n) \/ Fx!GetImage(n) \/ Fx!Process(n)
        PROVE  FxInv'
    BY <1>2, BeginInv, GetImageObtains, ObtainsInv, ProcessInv
  <1>3. CASE UNCHANGED Fx!fxVars
    <2>1. /\ program' = program /\ ticker' = ticker /\ list_' = list_ /\ onImage' = onImage /\ chans' = chans
          /\ image_' = image_ /\ imgs_' = imgs_ /\ curr_' = curr_ /\ got' = got /\ fxAt' = fxAt
          /\ past' = past /\ mixed' = mixed
      BY <1>3 DEF Fx!fxVars
    <2>2. FxApart' /\ FxRemembered' /\ FxPool' /\ FxRings' /\ FxTrails' /\ Fx!DelaysShowThePast'
          /\ Fx!Nodes' = Fx!Nodes /\ Images' = Images
      BY <2>1, WithoutAnImage DEF FxInv
    <2>3. \A n \in Fx!Nodes : Fx!Kind(n)' = Fx!Kind(n) /\ IsCounter(n)' = IsCounter(n)
      BY <2>1 DEF Fx!Kind, IsCounter
    <2>4. FxTyped'
      BY <2>1, <2>2 DEF FxInv, FxTyped, Frames, Lists
    <2>5. FxOrdered'
      BY <2>1, <2>2, <2>3 DEF FxInv, FxOrdered
    <2>6. FxShown' /\ FxStamped' /\ Fx!TrailsAreOld'
      BY <2>1, <2>2, <2>3 DEF FxInv, FxShown, FxStamped, IsOld, Fx!TrailsAreOld, Fx!Sources
    <2>. QED BY <2>2, <2>4, <2>5, <2>6 DEF FxInv
  <1>. QED BY <1>1, <1>2, <1>3 DEF Fx!FxNext

LEMMA InvShowsImages ==
    ASSUME FxInv
    PROVE  Fx!ImagesShowWhatTheyShould
  <1>1. /\ FxTyped /\ FxOrdered /\ FxApart /\ FxPool /\ FxShown
        /\ Fx!DelaysShowThePast /\ Fx!TrailsAreOld
    BY DEF FxInv
  <1>2. LET held == Fx!Held(image_, imgs_, got) \ {0}
            free == Fx!Elements(list_[1]) \cup Fx!Elements(list_[4])
        IN  held \cap free = {} /\ held \cup free = DOMAIN onImage
    BY <1>1 DEF FxPool, Free, Images
  <1>3. ASSUME NEW c \in {1, 4}, NEW i \in DOMAIN list_[c], NEW j \in DOMAIN list_[c]
        PROVE  chans[list_[c][i]] = c /\ (list_[c][i] = list_[c][j] => i = j)
    <2>1. list_[c][i] \in Fx!Elements(list_[c])
      BY DEF Fx!Elements
    <2>. QED BY <1>1, <2>1 DEF FxPool, IsPool, Once
  <1>4. ASSUME NEW n \in Fx!Nodes, fxAt[n] = "done"
        PROVE  onImage[image_[n]] = past[n][ticker]
    BY <1>1, <1>4 DEF FxShown
  <1>5. ASSUME NEW n \in Fx!Nodes, fxAt[n] = "done", NEW k \in Fx!Nodes, fxAt[k] = "done", image_[k] = image_[n]
        PROVE  k = n \/ "fps_counter" \in {Fx!Kind(k), Fx!Kind(n)}
    <2>1. image_[n] # 0
      BY <1>1, <1>5 DEF FxOrdered
    <2>2. ~IsCounter(n) => image_[n] \in Owned(n)
      BY <2>1 DEF Owned
    <2>3. ~IsCounter(k) => image_[n] \in Owned(k)
      BY <1>5, <2>1 DEF Owned
    <2>. QED BY <1>1, <2>2, <2>3 DEF FxApart, IsCounter
  <1>6. Fx!ImagesAreKeptApart
    BY <1>2, <1>3, <1>4, <1>5 DEF Fx!ImagesAreKeptApart
  <1>. QED BY <1>1, <1>6 DEF Fx!ImagesShowWhatTheyShould

\* Whatever effects a program has and in whatever order their jobs get to the pool,
\* an image is in the pool or with effects, what is shown stays for the frame, a delay
\* shows the frames that it should, and a trail finds its own.
THEOREM ImagesShow == Fx!FxSpec => []Fx!ImagesShowWhatTheyShould
  <1>1. Fx!FxInit => FxInv
    BY FxInitInv
  <1>2. FxInv /\ [Fx!FxNext]_(Fx!fxVars) => FxInv'
    BY FxNextInv
  <1>3. FxInv => Fx!ImagesShowWhatTheyShould
    BY InvShowsImages
  <1>. QED BY <1>1, <1>2, <1>3, PTL DEF Fx!FxSpec

-----------------------------------------------------------------------------
(* The mixer.                                                               *)

LEMMA Joined ==
    ASSUME NEW h \in Samples, NEW a \in Samples
    PROVE  /\ h \o a \in Samples /\ Len(h \o a) = Len(h) + Len(a)
           /\ \A i \in 1 .. Len(h) + Len(a) : (h \o a)[i] = IF i <= Len(h) THEN h[i] ELSE a[i - Len(h)]
  BY DEF Samples

LEMMA Divided ==
    ASSUME NEW q \in Samples, NEW k \in 0 .. Len(q)
    PROVE  /\ SubSeq(q, 1, k) \in Samples /\ Len(SubSeq(q, 1, k)) = k
           /\ \A i \in 1 .. k : SubSeq(q, 1, k)[i] = q[i]
           /\ SubSeq(q, k + 1, Len(q)) \in Samples /\ Len(SubSeq(q, k + 1, Len(q))) = Len(q) - k
           /\ \A i \in 1 .. Len(q) - k : SubSeq(q, k + 1, Len(q))[i] = q[k + i]
  BY DEF Samples

\* What is taken from the head of a pipe is heard next, and the rest stays in order.
LEMMA TakenAndLeft ==
    ASSUME NEW h \in Samples, NEW q \in Samples, NEW k \in 0 .. Len(q), NEW l \in Nat, NEW n \in Nat,
           AreSounds(h, q, l, n)
    PROVE  AreSounds(h \o SubSeq(q, 1, k), SubSeq(q, k + 1, Len(q)), l, n)
  <1>1. ASSUME NEW a \in Samples, NEW b \in Samples, Len(a) = k, \A i \in 1 .. k : a[i] = q[i],
               Len(b) = Len(q) - k, \A i \in 1 .. Len(q) - k : b[i] = q[k + i]
        PROVE  AreSounds(h \o a, b, l, n)
    <2>1. Len(h) \in Nat /\ Len(q) \in Nat
      BY DEF Samples
    <2>2. Len(h \o a) = Len(h) + k
      BY <1>1, Joined
    <2>3. ASSUME NEW i \in 1 .. Len(h) + k
          PROVE  (h \o a)[i] = <<l, i>>
      <3>1. (h \o a)[i] = IF i <= Len(h) THEN h[i] ELSE a[i - Len(h)]
        BY <1>1, Joined
      <3>2. CASE i <= Len(h)
        BY <2>1, <3>1, <3>2 DEF AreSounds
      <3>3. CASE i > Len(h)
        <4>1. i - Len(h) \in 1 .. k /\ Len(h) + (i - Len(h)) = i
          BY <2>1, <3>3
        <4>2. a[i - Len(h)] = q[i - Len(h)] /\ i - Len(h) \in 1 .. Len(q)
          BY <1>1, <2>1, <4>1
        <4>3. q[i - Len(h)] = <<l, Len(h) + (i - Len(h))>>
          BY <4>2 DEF AreSounds
        <4>. QED BY <2>1, <3>1, <3>3, <4>1, <4>2, <4>3
      <3>4. i <= Len(h) \/ i > Len(h)
        BY <2>1
      <3>. QED BY <3>2, <3>3, <3>4
    <2>a. \A i \in 1 .. Len(q) : q[i] = <<l, Len(h) + i>>
      BY DEF AreSounds
    <2>c. Len(h) + Len(q) = n
      BY DEF AreSounds
    <2>b. Len(b) = Len(q) - k /\ k \in Nat
      BY <1>1, <2>1
    <2>4. ASSUME NEW i \in 1 .. Len(b)
          PROVE  b[i] = <<l, Len(h) + k + i>>
      <3>1. i \in 1 .. Len(q) - k /\ k + i \in 1 .. Len(q) /\ Len(h) + (k + i) = Len(h) + k + i
        BY <2>1, <2>b
      <3>2. b[i] = q[k + i]
        BY <1>1, <3>1
      <3>3. q[k + i] = <<l, Len(h) + (k + i)>>
        BY <2>a, <3>1
      <3>. QED BY <3>1, <3>2, <3>3
    <2>5. Len(h) + k + Len(b) = n
      BY <2>1, <2>b, <2>c
    <2>. QED BY <2>2, <2>3, <2>4, <2>5 DEF AreSounds
  <1>. QED BY <1>1, Divided

\* What is added to a pipe comes last.
LEMMA AddedLast ==
    ASSUME NEW h \in Samples, NEW q \in Samples, NEW l \in Nat, NEW n \in Nat, AreSounds(h, q, l, n),
           NEW x \in Sounds, x = <<l, n + 1>>
    PROVE  Append(q, x) \in Samples /\ AreSounds(h, Append(q, x), l, n + 1)
  <1>1. Append(q, x) \in Samples /\ Len(Append(q, x)) = Len(q) + 1 /\ Len(q) \in Nat /\ Len(h) \in Nat
    BY DEF Samples
  <1>2. \A i \in 1 .. Len(q) + 1 : Append(q, x)[i] = IF i <= Len(q) THEN q[i] ELSE x
    BY DEF Samples
  <1>3. Len(h) + (Len(q) + 1) = n + 1
    BY <1>1 DEF AreSounds
  <1>4. ASSUME NEW i \in 1 .. Len(q) + 1
        PROVE  Append(q, x)[i] = <<l, Len(h) + i>>
    <2>1. CASE i <= Len(q)
      BY <1>1, <1>2, <2>1 DEF AreSounds
    <2>2. CASE i = Len(q) + 1
      <3>1. Append(q, x)[i] = x
        BY <1>1, <1>2, <2>2
      <3>2. Len(h) + i = n + 1
        BY <1>1, <1>3, <2>2
      <3>. QED BY <3>1, <3>2
    <2>. QED BY <1>1, <2>1, <2>2
  <1>. QED BY <1>1, <1>3, <1>4 DEF AreSounds

\* Heard and not yet heard are the whole.
LEMMA WholeSounds ==
    ASSUME NEW h \in Samples, NEW q \in Samples, NEW l \in Nat, NEW n \in Nat, AreSounds(h, q, l, n)
    PROVE  LET whole == h \o q IN (\A i \in DOMAIN whole : whole[i] = <<l, i>>) /\ Len(whole) = n
  BY DEF AreSounds, Samples

\* What is asked of the constants.
LEMMA MixConstants ==
    /\ Mix!Nobody \notin Videos /\ Mix!Device \notin Videos /\ Mix!Player \notin Videos
    /\ Mix!Nobody # Mix!Device /\ Mix!Nobody # Mix!Player /\ Mix!Device # Mix!Player
    /\ Asked \in Nat \ {0} /\ MaxMade \in Nat
  BY ObjectsAssumption DEF Mix!AudioMixerAssumption, Mix!Nobody, Mix!Device, Mix!Player

LEMMA MixInitially == Mix!MixInit => MixInv
  BY MixConstants DEF Mix!MixInit, MixInv, MixTyped, MixApart, MixHeard, Samples

LEMMA AddAudioKeepsMixInv ==
    ASSUME MixInv, NEW v \in Videos, Mix!AddAudio(v)
    PROVE  MixInv'
  <1>. USE MixConstants
  <1>1. PICK p \in Mix!Pipes : /\ Mix!LowestFree(p) /\ pipe' = Mix!With(pipe, p, <<>>)
                              /\ read_' = Mix!With(read_, v, p) /\ write_' = Mix!With(write_, v, p)
    BY DEF Mix!AddAudio
  <1>2. p \in Nat \ {0} /\ p \notin DOMAIN pipe
    BY <1>1 DEF Mix!Pipes, Mix!LowestFree
  <1>3. v \notin DOMAIN read_
    BY DEF MixInv, MixHeard, Mix!AddAudio
  <1>4. MixTyped'
    <2>1. /\ made' \in Nat /\ life' \in [Videos -> Nat] /\ given' \in [Videos -> Nat]
      BY DEF MixInv, MixTyped, Mix!AddAudio
    <2>5. mixAt' \in [Videos -> {"none", "unpausing", "live", "pausing", "stopping"}]
      BY DEF MixInv, MixTyped, Mix!AddAudio
    <2>2. <<>> \in Samples
      BY DEF Samples
    <2>3. heard' \in [Videos -> Samples]
      BY <2>2 DEF MixInv, MixTyped, Mix!AddAudio
    <2>4. /\ DOMAIN read_' \subseteq Videos /\ \A w \in DOMAIN read_' : read_'[w] \in DOMAIN pipe'
          /\ DOMAIN pipe' \subseteq Mix!Pipes /\ \A q \in DOMAIN pipe' : pipe'[q] \in Samples
          /\ DOMAIN write_' \subseteq Videos
      BY <1>1, <1>2, <2>2 DEF MixInv, MixTyped, Mix!With
    <2>. QED BY <2>1, <2>3, <2>4, <2>5 DEF MixTyped
  <1>5. MixApart'
    BY <1>1, <1>2, <1>3 DEF MixInv, MixTyped, MixApart, Mix!AddAudio, Mix!With
  <1>6. /\ DOMAIN read_' = DOMAIN read_ \cup {v} /\ read_'[v] = p /\ pipe'[p] = <<>> /\ heard'[v] = <<>>
        /\ given'[v] = 0
    BY <1>1 DEF MixInv, MixTyped, Mix!AddAudio, Mix!With
  <1>7. \A w \in DOMAIN read_ : /\ w # v /\ read_'[w] = read_[w] /\ pipe'[read_[w]] = pipe[read_[w]]
                               /\ heard'[w] = heard[w] /\ given'[w] = given[w] /\ life'[w] = life[w]
    BY <1>1, <1>2, <1>3 DEF MixInv, MixTyped, Mix!AddAudio, Mix!With
  <1>8. ASSUME NEW w \in Videos
        PROVE  /\ mixAt'[w] \in {"unpausing", "live"} <=> w \in DOMAIN read_'
               /\ w \in DOMAIN read_' => AreSounds(heard'[w], pipe'[read_'[w]], life'[w], given'[w])
    <2>1. CASE w = v
      <3>1. AreSounds(<<>>, <<>>, life'[v], 0)
        BY DEF AreSounds
      <3>2. mixAt'[v] \in {"unpausing", "live"}
        BY DEF MixInv, MixTyped, Mix!AddAudio
      <3>. QED BY <2>1, <3>1, <3>2, <1>6
    <2>2. CASE w # v
      <3>1. mixAt'[w] = mixAt[w] /\ (w \in DOMAIN read_' <=> w \in DOMAIN read_)
        BY <2>2, <1>6 DEF MixInv, MixTyped, Mix!AddAudio
      <3>. QED BY <3>1, <1>7 DEF MixInv, MixHeard
    <2>. QED BY <2>1, <2>2
  <1>9. MixHeard'
    BY <1>8 DEF MixHeard
  <1>. QED BY <1>4, <1>5, <1>9 DEF MixInv

LEMMA PausingKeepsMixInv ==
    ASSUME MixInv, NEW v \in Videos, Mix!Pauses(v) \/ Mix!StopPlayer(v)
    PROVE  MixInv'
  <1>. USE MixConstants
  <1>1. /\ UNCHANGED <<read_, write_, pipe, made, life, given, heard, todo>>
        /\ m_' \in {Mix!Nobody, m_}
    BY DEF Mix!Pauses, Mix!PauseAudio, Mix!StopPlayer
  <1>2. \E to \in {"live", "stopping", "none"} :
           /\ mixAt' = [mixAt EXCEPT ![v] = to]
           /\ mixAt[v] \in {"unpausing", "live"} <=> to \in {"unpausing", "live"}
    BY DEF Mix!Pauses, Mix!PauseAudio, Mix!StopPlayer
  <1>3. MixTyped' /\ MixApart'
    BY <1>1, <1>2 DEF MixInv, MixTyped, MixApart
  <1>4. MixHeard'
    BY <1>1, <1>2 DEF MixInv, MixTyped, MixHeard
  <1>. QED BY <1>3, <1>4 DEF MixInv

LEMMA RemoveAudioKeepsMixInv ==
    ASSUME MixInv, NEW v \in Videos, Mix!RemoveAudio(v)
    PROVE  MixInv'
  <1>. USE MixConstants
  <1>1. v \in DOMAIN read_
    BY DEF MixInv, MixHeard, Mix!RemoveAudio
  <1>2. MixTyped'
    BY <1>1 DEF MixInv, MixTyped, MixApart, Mix!RemoveAudio, Mix!Without, Mix!Written
  <1>3. MixApart'
    BY <1>1 DEF MixInv, MixTyped, MixApart, Mix!RemoveAudio, Mix!Without, Mix!Written
  <1>4. MixHeard'
    BY <1>1 DEF MixInv, MixTyped, MixApart, Mix!RemoveAudio, Mix!Without, MixHeard
  <1>. QED BY <1>2, <1>3, <1>4 DEF MixInv

LEMMA AddSamplesKeepsMixInv ==
    ASSUME MixInv, NEW v \in Videos, Mix!AddSamples(v)
    PROVE  MixInv'
  <1>. USE MixConstants
  <1>. DEFINE p == IF v \in DOMAIN write_ THEN write_[v] ELSE 0
              n == given[v] + 1
  <1>1. p \in DOMAIN pipe => v \in DOMAIN read_ /\ p = read_[v]
    BY DEF MixInv, MixTyped, MixApart, Mix!Pipes
  <1>2. v \in DOMAIN read_ => p = read_[v] /\ p \in DOMAIN pipe
    BY DEF MixInv, MixTyped, MixApart
  <1>3. write_' = Mix!With(write_, v, p)
    BY DEF Mix!AddSamples
  <1>4. CASE UNCHANGED <<pipe, given>>
    BY <1>1, <1>2, <1>3, <1>4 DEF MixInv, MixTyped, MixApart, Mix!AddSamples, Mix!With, MixHeard
  <1>5. CASE /\ pipe' = IF p \notin DOMAIN pipe THEN pipe ELSE [pipe EXCEPT ![p] = Append(@, <<life[v], n>>)]
             /\ given' = [given EXCEPT ![v] = n] /\ UNCHANGED m_
    <2>1. <<life[v], n>> \in Sounds /\ life[v] \in Nat /\ given[v] \in Nat
      BY DEF MixInv, MixTyped, Sounds
    <2>2. ASSUME v \in DOMAIN read_
          PROVE  /\ heard[v] \in Samples /\ pipe[p] \in Samples
                 /\ AreSounds(heard[v], pipe[p], life[v], given[v])
      BY <1>2, <2>2 DEF MixInv, MixTyped, MixHeard
    <2>3. ASSUME v \in DOMAIN read_
          PROVE  /\ Append(pipe[p], <<life[v], n>>) \in Samples
                 /\ AreSounds(heard[v], Append(pipe[p], <<life[v], n>>), life[v], n)
      BY <2>1, <2>2, <2>3, AddedLast
    <2>. HIDE DEF p, n
    <2>4. n \in Nat
      BY <2>1 DEF n
    <2>5. MixTyped'
      BY <1>1, <1>3, <1>5, <2>3, <2>4 DEF MixInv, MixTyped, Mix!AddSamples, Mix!With
    <2>6. MixApart'
      BY <1>1, <1>2, <1>3, <1>5 DEF MixInv, MixTyped, MixApart, Mix!AddSamples, Mix!With
    <2>7. UNCHANGED <<read_, mixAt, heard, life>>
      BY DEF Mix!AddSamples
    <2>8. ASSUME NEW w \in Videos, w \in DOMAIN read_
          PROVE  AreSounds(heard[w], pipe'[read_[w]], life[w], given'[w])
      <3>1. CASE w = v
        BY <1>2, <1>5, <2>3, <2>8, <3>1 DEF MixInv, MixTyped
      <3>2. CASE w # v
        <4>1. pipe'[read_[w]] = pipe[read_[w]] /\ given'[w] = given[w]
          BY <1>1, <1>5, <2>8, <3>2 DEF MixInv, MixTyped, MixApart
        <4>. QED BY <4>1, <2>8 DEF MixInv, MixHeard
      <3>. QED BY <3>1, <3>2
    <2>9. MixHeard'
      BY <2>7, <2>8 DEF MixInv, MixHeard
    <2>. QED BY <2>5, <2>6, <2>9 DEF MixInv
  <1>. QED BY <1>4, <1>5 DEF Mix!AddSamples

LEMMA ReadPipeKeepsMixInv ==
    ASSUME MixInv, NEW v \in Videos, Mix!ReadPipe(v)
    PROVE  MixInv'
  <1>. USE MixConstants
  <1>. DEFINE q == pipe[read_[v]]
              n == IF Len(q) < Asked THEN Len(q) ELSE Asked
  <1>1. v \in DOMAIN read_ /\ read_[v] \in DOMAIN pipe /\ q \in Samples /\ heard[v] \in Samples
    BY DEF MixInv, MixTyped, MixApart, Mix!ReadPipe
  <1>2. n \in 0 .. Len(q)
    BY <1>1 DEF Samples
  <1>3. /\ heard' = [heard EXCEPT ![v] = @ \o SubSeq(q, 1, n)]
        /\ pipe' = [pipe EXCEPT ![read_[v]] = SubSeq(@, n + 1, Len(@))]
        /\ todo' = todo \ {v} /\ UNCHANGED <<m_, read_, write_, mixAt, made, life, given>>
    BY DEF Mix!ReadPipe
  <1>. HIDE DEF n
  <1>4. heard[v] \o SubSeq(q, 1, n) \in Samples /\ SubSeq(q, n + 1, Len(q)) \in Samples
    BY <1>1, <1>2, Divided, Joined
  <1>5. AreSounds(heard[v] \o SubSeq(q, 1, n), SubSeq(q, n + 1, Len(q)), life[v], given[v])
    BY <1>1, <1>2, TakenAndLeft DEF MixInv, MixTyped, MixHeard
  <1>6. /\ heard' = [heard EXCEPT ![v] = heard[v] \o SubSeq(q, 1, n)]
        /\ pipe' = [pipe EXCEPT ![read_[v]] = SubSeq(q, n + 1, Len(q))]
    BY <1>3
  <1>7. MixTyped'
    <2>1. heard' \in [Videos -> Samples]
      BY <1>4, <1>6 DEF MixInv, MixTyped
    <2>2. DOMAIN pipe' = DOMAIN pipe /\ \A p \in DOMAIN pipe : pipe'[p] \in Samples
      BY <1>4, <1>6 DEF MixInv, MixTyped
    <2>. QED BY <1>3, <2>1, <2>2 DEF MixInv, MixTyped
  <1>8. MixApart'
    BY <1>1, <1>3, <1>6 DEF MixInv, MixTyped, MixApart
  <1>9. ASSUME NEW w \in DOMAIN read_
        PROVE  AreSounds(heard'[w], pipe'[read_[w]], life[w], given[w])
    <2>1. CASE w = v
      <3>1. heard'[v] = heard[v] \o SubSeq(q, 1, n) /\ pipe'[read_[v]] = SubSeq(q, n + 1, Len(q))
        BY <1>1, <1>6 DEF MixInv, MixTyped
      <3>. QED BY <2>1, <3>1, <1>5
    <2>2. CASE w # v
      <3>1. heard'[w] = heard[w] /\ pipe'[read_[w]] = pipe[read_[w]]
        BY <2>2, <1>1, <1>6 DEF MixInv, MixTyped, MixApart
      <3>. QED BY <3>1 DEF MixInv, MixTyped, MixHeard
    <2>. QED BY <2>1, <2>2
  <1>10. MixHeard'
    BY <1>3, <1>9 DEF MixInv, MixHeard
  <1>. QED BY <1>7, <1>8, <1>10 DEF MixInv

LEMMA DeviceKeepsMixInv ==
    ASSUME MixInv, Mix!FillAudio \/ Mix!Filled \/ Mix!DeviceCalls
    PROVE  MixInv'
  <1>1. UNCHANGED <<read_, write_, pipe, mixAt, made, life, given, heard>>
    BY DEF Mix!FillAudio, Mix!Filled, Mix!DeviceCalls
  <1>2. m_' = Mix!Device => todo' = DOMAIN read_ \/ UNCHANGED <<m_, todo>>
    BY MixConstants DEF Mix!FillAudio, Mix!Filled, Mix!DeviceCalls
  <1>3. MixTyped' /\ MixApart'
    BY <1>1, <1>2 DEF MixInv, MixTyped, MixApart
  <1>4. MixHeard'
    BY <1>1 DEF MixInv, MixHeard
  <1>. QED BY <1>3, <1>4 DEF MixInv

LEMMA MixKeepsInv == MixInv /\ [Mix!MixNext]_(Mix!mixVars) => MixInv'
  <1>. SUFFICES ASSUME MixInv, [Mix!MixNext]_(Mix!mixVars)
                PROVE  MixInv'
    OBVIOUS
  <1>1. CASE UNCHANGED Mix!mixVars
    BY <1>1 DEF Mix!mixVars, MixInv, MixTyped, MixApart, MixHeard
  <1>2. CASE Mix!MixNext
    BY <1>2, AddAudioKeepsMixInv, PausingKeepsMixInv, RemoveAudioKeepsMixInv, AddSamplesKeepsMixInv,
       ReadPipeKeepsMixInv, DeviceKeepsMixInv DEF Mix!MixNext, Mix!Fill, Mix!Owner, Mix!Plays
  <1>. QED BY <1>1, <1>2

\* The sounds of videos are kept apart in the mixer (audio.hpp, add_audio, remove_audio,
\* add_samples and fill_audio), however many videos come and go at whatever addresses.
THEOREM SoundsStayApart == Mix!MixSpec => []Mix!SoundsAreKeptApart
  <1>1. MixInv => Mix!SoundsAreKeptApart
    <2>. SUFFICES ASSUME MixInv, NEW v \in Videos, v \in DOMAIN read_
                  PROVE  LET whole == heard[v] \o pipe[read_[v]]
                         IN  (\A i \in DOMAIN whole : whole[i] = <<life[v], i>>) /\ Len(whole) = given[v]
      BY DEF MixInv, MixHeard, Mix!SoundsAreKeptApart
    <2>. QED BY WholeSounds DEF MixInv, MixTyped, MixHeard
  <1>. QED BY <1>1, MixInitially, MixKeepsInv, PTL DEF Mix!MixSpec

\* What Objects promises of the pictures and the sounds together: a video's frames come one after the
\* other and are never shown half decoded (video.hpp), an effect shows what it drew of the frame, or of
\* the earlier one that is meant (image_pool.hpp, delay.hpp, trail.hpp), and the sounds of the videos
\* that play at once are neither mixed up nor lost (audio.hpp).
THEOREM EverythingShownAndHeardIsRight ==
    Src!Spec /\ Fx!FxSpec /\ Mix!MixSpec => []PicturesAndSoundsAreRight
  <1>1. Src!FramesAreWholeAndNew /\ Fx!ImagesShowWhatTheyShould /\ Mix!SoundsAreKeptApart
        => PicturesAndSoundsAreRight
    BY DEF PicturesAndSoundsAreRight
  <1>. QED BY <1>1, VideoFramesAreWholeAndNew, ImagesShow, SoundsStayApart, PTL

=============================================================================
