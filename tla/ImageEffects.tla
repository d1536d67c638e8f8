---------------------------- MODULE ImageEffects ----------------------------
(* The pool of images of scheme/detail/image_pool.hpp and the effects that  *)
(* draw into them: those with a memory (delay, trail), those that take what *)
(* they are given and draw another image, one after the other or at the     *)
(* same time.  Who drew an image, and in which frame, stands for what is to *)
(* be seen on it.                                                            *)
(*                                                                           *)
(* An image goes back to its pool when the last shared_ptr to it goes: when *)
(* no effect holds it any more.  One step is a call of get(), or the rest of *)
(* a process() up to the assignment of image_ (fx_fwd.hpp:98-108).          *)
EXTENDS Integers, Sequences

CONSTANTS Programs,     \* sequences of effects, each after its arguments
          MaxTicker     \* bounds the frames

\* The effects that draw one image of as many channels as their first argument has.
Drawing == {"add", "mask", "absdiff", "canny", "smooth", "sobel", "threshold"}
Sources == {"source", "pic"}    \* video, webcam and pic
Kinds   == Sources \cup Drawing
               \cup {"grayscale", "contours", "polygons", "trail", "delay", "fps_counter"}

\* Of a program the s sources that move come first, then the q pictures.
LaidOut(p, s, q) ==
    /\ s + q <= Len(p)
    /\ \A n \in DOMAIN p : /\ p[n].kind = "source" <=> n <= s
                           /\ p[n].kind = "pic" <=> s < n /\ n <= s + q

ImageEffectsAssumption ==
    /\ MaxTicker \in Nat
    /\ \A p \in Programs :
         /\ Len(p) \in Nat /\ DOMAIN p = 1 .. Len(p)
         /\ \E s, q \in 0 .. Len(p) : LaidOut(p, s, q)
         /\ \A n \in DOMAIN p : /\ p[n].kind \in Kinds /\ p[n].args \in Seq(1 .. n - 1)
                                /\ p[n].kind \notin Sources => p[n].args # <<>>
                                /\ p[n].kind = "delay" => p[n].size \in Nat

VARIABLES
    program,
    ticker,
    list_,      \* of each number of channels, the images that are free
    content,    \* of each image, what is on it
    chans,      \* of each image, its channels
    image_,     \* of each effect, its result (0: none yet)
    imgs_, curr_,   \* of delay
    got,        \* what a process() that is running has got from the pool
    at,         \* "todo", "process" or "done" in this frame
    past,       \* history: what each effect gave in each frame
    mixed       \* history: what was on the image that trail drew over

fxVars == <<program, ticker, list_, content, chans, image_, imgs_, curr_, got, at, past, mixed>>

Nodes == DOMAIN program
Kind(n) == program[n].kind
Arg(n)  == program[n].args[1]

Unset == <<0, 0>>   \* what malloc() gives
Blank == <<0, 1>>   \* cvZero
Drawn(n) == <<n, ticker>>

Elements(s) == {s[i] : i \in DOMAIN s}

\* The images that shared_ptrs of effects refer to.
Held(images, memories, locals) ==
    UNION {{images[n]} \cup Elements(memories[n]) \cup Elements(locals[n]) : n \in Nodes}

\* video and webcam begin with images of their own (FrameSource is about them), and
\* pic has drawn its one.
Own(n, s, q) == IF n <= s THEN <<2 * n - 1, 2 * n>> ELSE IF n <= s + q THEN <<s + n>> ELSE <<>>

FxInit ==
    /\ program \in Programs
    /\ \E s, q \in 0 .. Len(program) :
         /\ LaidOut(program, s, q)
         /\ content = [i \in 1 .. 2 * s + q |-> IF i <= 2 * s THEN Unset ELSE <<i - s, 0>>]
         /\ imgs_ = [n \in Nodes |-> Own(n, s, q)]
    /\ ticker = 1 /\ list_ = [c \in {1, 4} |-> <<>>]
    /\ chans = [i \in DOMAIN content |-> 4]
    /\ image_ = [n \in Nodes |-> 0]
    /\ curr_ = [n \in Nodes |-> 0] /\ got = [n \in Nodes |-> <<>>]
    /\ at = [n \in Nodes |-> "todo"]
    /\ past = [n \in Nodes |-> <<>>] /\ mixed = [n \in Nodes |-> Unset]

-----------------------------------------------------------------------------
(* image_pool.hpp                                                           *)

\* Broken: the image stays in the list.
GetAndKeep(c) ==
    IF list_[c] # <<>>
    THEN [image |-> list_[c][Len(list_[c])], lists |-> list_]
    ELSE [image |-> Len(content) + 1, lists |-> list_]

\* get(): the image that came back last, or a new one.
Get(c) ==
    IF list_[c] # <<>>
    THEN [image |-> list_[c][Len(list_[c])],
          lists |-> [list_ EXCEPT ![c] = SubSeq(@, 1, Len(@) - 1)]]
    ELSE [image |-> Len(content) + 1, lists |-> list_]

\* return_image(), when nobody holds it.
Returned(lists, image, held) ==
    IF image = 0 \/ image \in held THEN lists
    ELSE [lists EXCEPT ![chans[image]] = Append(@, image)]

-----------------------------------------------------------------------------
(* The effects.                                                             *)

\* The channels of the images that process() gets, in order.
Gets(n) ==
    LET like == chans[image_[Arg(n)]]
    IN  CASE Kind(n) \in Sources \cup {"fps_counter"} -> <<>>
          [] Kind(n) = "grayscale" -> <<1>>
          [] Kind(n) \in {"contours", "polygons"} -> <<like, 4>>
          [] Kind(n) = "delay" -> IF program[n].size = 0 THEN <<like>>
                                  ELSE IF Len(imgs_[n]) = program[n].size THEN <<>>
                                  ELSE [i \in 1 .. program[n].size |-> like]
          [] Kind(n) \in Drawing \cup {"trail"} -> <<like>>

\* The jobs of the arguments are waited for (eval.hpp:212).
Begin(n) ==
    /\ at[n] = "todo" /\ \A i \in DOMAIN program[n].args : at[program[n].args[i]] = "done"
    /\ at' = [at EXCEPT ![n] = "process"]
    /\ UNCHANGED <<program, ticker, list_, content, chans, image_, imgs_, curr_, got, past, mixed>>

GetImage(n) ==
    /\ at[n] = "process" /\ Len(got[n]) < Len(Gets(n))
    /\ LET c == Gets(n)[Len(got[n]) + 1]
           g == Get(c)
       IN  /\ got' = [got EXCEPT ![n] = Append(@, g.image)]
           /\ list_' = g.lists
           /\ IF g.image \in DOMAIN content THEN UNCHANGED <<content, chans>>
              ELSE content' = Append(content, Unset) /\ chans' = Append(chans, c)
    /\ UNCHANGED <<program, ticker, image_, imgs_, curr_, at, past, mixed>>

\* image_ = process(): the effect's locals go, and then what image_ was.
Give(n, image, memory, scratch, on) ==
    LET images   == [image_ EXCEPT ![n] = image]
        memories == [imgs_ EXCEPT ![n] = memory]
        locals   == [got EXCEPT ![n] = <<>>]
        held     == Held(images, memories, locals)
    IN  /\ image_' = images /\ imgs_' = memories /\ got' = locals
        /\ content' = on
        /\ list_' = Returned(Returned(list_, scratch, held), image_[n], held)
        /\ at' = [at EXCEPT ![n] = "done"]
        /\ past' = [past EXCEPT ![n] = Append(@, on[image])]
        /\ UNCHANGED <<program, ticker, chans>>

HasGot(n, kind) == at[n] = "process" /\ Kind(n) = kind /\ Len(got[n]) = Len(Gets(n))
Input(n) == content[image_[Arg(n)]]

\* video, webcam: the images are exchanged.
ProcessSource(n) ==
    /\ HasGot(n, "source")
    /\ LET image == imgs_[n][2]
       IN  Give(n, image, <<image, imgs_[n][1]>>, 0, [content EXCEPT ![image] = Drawn(n)])
    /\ UNCHANGED <<curr_, mixed>>

\* pic has not changed, and its process() is called once.
ProcessPic(n) ==
    /\ HasGot(n, "pic")
    /\ Give(n, imgs_[n][1], imgs_[n], 0, content) /\ UNCHANGED <<curr_, mixed>>

\* fps_counter gives what it is given.
ProcessFpsCounter(n) ==
    /\ HasGot(n, "fps_counter")
    /\ Give(n, image_[Arg(n)], <<>>, 0, content) /\ UNCHANGED <<curr_, mixed>>

\* contours and polygons copy their argument to be spoiled, and draw another image.
Spoils(n, kind) ==
    /\ HasGot(n, kind)
    /\ LET t == got[n][1]
           r == got[n][2]
       IN  Give(n, r, <<>>, t, [content EXCEPT ![t] = Input(n), ![r] = Drawn(n)])
    /\ UNCHANGED <<curr_, mixed>>

ProcessContours(n) == Spoils(n, "contours")
ProcessPolygons(n) == Spoils(n, "polygons")

\* The others draw all of the one image that they get.
Draws(n, kind) ==
    /\ HasGot(n, kind)
    /\ LET r == got[n][1] IN Give(n, r, <<>>, 0, [content EXCEPT ![r] = Drawn(n)])
    /\ UNCHANGED <<curr_, mixed>>

ProcessGrayscale(n) == Draws(n, "grayscale")
ProcessAdd(n)       == Draws(n, "add")
ProcessMask(n)      == Draws(n, "mask")
ProcessAbsdiff(n)   == Draws(n, "absdiff")
ProcessCanny(n)     == Draws(n, "canny")
ProcessSmooth(n)    == Draws(n, "smooth")
ProcessSobel(n)     == Draws(n, "sobel")
ProcessThreshold(n) == Draws(n, "threshold")

\* trail mixes its argument with what is on the image it gets.
ProcessTrail(n) ==
    /\ HasGot(n, "trail")
    /\ LET r == got[n][1]
       IN  /\ mixed' = [mixed EXCEPT ![n] = content[r]]
           /\ Give(n, r, <<>>, 0, [content EXCEPT ![r] = Drawn(n)])
    /\ UNCHANGED curr_

\* Broken: it stays where it is.
SameSlot(n) == curr_[n]

\* The one that is drawn over next, of a ring.
Slot(n) == (curr_[n] + 1) % program[n].size

ProcessDelay(n) ==
    /\ HasGot(n, "delay")
    /\ IF program[n].size = 0
       THEN /\ LET r == got[n][1] IN Give(n, r, <<>>, 0, [content EXCEPT ![r] = Input(n)])
            /\ UNCHANGED curr_
       ELSE LET ring  == IF got[n] = <<>> THEN imgs_[n] ELSE got[n]
                clear == [i \in DOMAIN content |-> IF i \in Elements(got[n]) THEN Blank ELSE content[i]]
            IN  /\ curr_' = [curr_ EXCEPT ![n] = Slot(n)]
                /\ Give(n, ring[Slot(n) + 1], ring, 0,
                        [clear EXCEPT ![ring[curr_[n] + 1]] = Input(n)])
    /\ UNCHANGED mixed

\* The frame is shown (zoov.cpp:168-208), and the next one begun.
ShowFrame ==
    /\ \A n \in Nodes : at[n] = "done"
    /\ ticker < MaxTicker /\ ticker' = ticker + 1
    /\ at' = [n \in Nodes |-> "todo"]
    /\ UNCHANGED <<program, list_, content, chans, image_, imgs_, curr_, got, past, mixed>>

Process(n) ==
    \/ ProcessSource(n) \/ ProcessPic(n) \/ ProcessFpsCounter(n)
    \/ ProcessContours(n) \/ ProcessPolygons(n)
    \/ ProcessGrayscale(n) \/ ProcessAdd(n) \/ ProcessMask(n) \/ ProcessAbsdiff(n)
    \/ ProcessCanny(n) \/ ProcessSmooth(n) \/ ProcessSobel(n) \/ ProcessThreshold(n)
    \/ ProcessTrail(n) \/ ProcessDelay(n)

FxNext == ShowFrame \/ \E n \in Nodes : Begin(n) \/ GetImage(n) \/ Process(n)

FxSpec == FxInit /\ [][FxNext]_fxVars

-----------------------------------------------------------------------------
\* An image is in the pool once or with effects, and what an effect has given stays
\* as it is for the frame, whoever draws meanwhile (image_pool.hpp): only an effect
\* that gives what it is given shares its image.
ImagesAreKeptApart ==
    LET held == Held(image_, imgs_, got) \ {0}
        free == Elements(list_[1]) \cup Elements(list_[4])
    IN  /\ held \cap free = {} /\ held \cup free = DOMAIN content
        /\ \A c \in {1, 4} : \A i, j \in DOMAIN list_[c] :
             chans[list_[c][i]] = c /\ (list_[c][i] = list_[c][j] => i = j)
        /\ \A n \in Nodes :
             at[n] = "done" => /\ content[image_[n]] = past[n][ticker]
                               /\ \A k \in Nodes : at[k] = "done" /\ image_[k] = image_[n] =>
                                     k = n \/ "fps_counter" \in {Kind(k), Kind(n)}

\* delay(l) shows the frame before the last l - 1, and black until there is one
\* (delay.hpp:23-48); with l = 0, and with 1, the frame itself.
DelaysShowThePast ==
    \A n \in Nodes : Kind(n) = "delay" =>
        \A k \in DOMAIN past[n] :
            LET back == IF program[n].size = 0 THEN 0 ELSE program[n].size - 1
            IN  past[n][k] = IF k > back THEN past[Arg(n)][k - back] ELSE Blank

\* trail.hpp:15-25 finds its trail on an image of the pool: if nobody else draws
\* on those it is its own frame before the last; what it finds is never one that
\* somebody still shows.
TrailsAreOld ==
    \A n \in Nodes : Kind(n) = "trail" /\ at[n] = "done" =>
        /\ mixed[n][2] < ticker \/ mixed[n][1] # n
        /\ (\A k \in Nodes \ {n} : Kind(k) \in Sources) /\ ticker > 2 => mixed[n] = <<n, ticker - 2>>

ImagesShowWhatTheyShould == ImagesAreKeptApart /\ DelaysShowThePast /\ TrailsAreOld
=============================================================================
