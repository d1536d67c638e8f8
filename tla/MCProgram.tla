----------------------------- MODULE MCProgram ------------------------------
(* Instances for TLC of the two halves of zoov: a session, in which lines   *)
(* are typed at the prompt, and the evaluation of a picture.  One of them   *)
(* is used in a behaviour.                                                  *)
EXTENDS Evaluator, TLC

-----------------------------------------------------------------------------
(* The session.  A token that begins with a quote mark stands for a string. *)

MCNumbers == [t \in {"0", "1", "2"} |-> CASE t = "0" -> 0 [] t = "1" -> 1 [] t = "2" -> 2]
MCQuoted  == [t \in {"'1.jpg", "'1", "'.jpg", "'lib"} |->
    CASE t = "'1.jpg" -> "1.jpg" [] t = "'1" -> "1" [] t = "'.jpg" -> ".jpg" [] t = "'lib" -> "lib"]

(* From lib/init.zoov, and counters that close over frames.                *)
\* (define (add1 x) (+ x 1))
Def1 ==
    <<"(", "define", "(", "add1", "x", ")", "(", "+", "x", "1", ")", ")">>
\* (define (append x y) (if (nil? x) y (cons (car x) (append (cdr x) y))))
Def2 ==
    <<"(", "define", "(", "append", "x", "y", ")", "(", "if", "(", "nil?", "x", ")", "y", "(",
      "cons", "(", "car", "x", ")", "(", "append", "(", "cdr", "x", ")", "y", ")", ")", ")", ")">>
\* (define (counter n) (lambda () (set! n (add1 n))))
Def3 ==
    <<"(", "define", "(", "counter", "n", ")", "(", "lambda", "(", ")", "(", "set!", "n", "(",
      "add1", "n", ")", ")", ")", ")">>
\* (define tick (counter 0))
Def4 ==
    <<"(", "define", "tick", "(", "counter", "0", ")", ")">>
\* (define fade effect1)
Def5 ==
    <<"(", "define", "fade", "effect1", ")">>
\* (define last 0)
Def6 ==
    <<"(", "define", "last", "0", ")">>
\* (define (once (delayed x)) (force x))
Def7 ==
    <<"(", "define", "(", "once", "(", "delayed", "x", ")", ")", "(", "force", "x", ")", ")">>

\* (define (odd? x) (eq? (mod x 2) 1))
Def8 ==
    <<"(", "define", "(", "odd?", "x", ")", "(", "eq?", "(", "mod", "x", "2", ")", "1", ")", ")">>

MCFiles == [f \in {"lib"} |-> Def1 \o Def2 \o Def3 \o Def4 \o Def5 \o Def6 \o Def7 \o Def8]

\* lib/effect1.zcm in short: (mask $1 (smooth $2))
MCFileEffects == [s \in {"effect1"} |-> <<"(", "mask", "$1", "(", "smooth", "$2", ")", ")">>]

MCFx == [pic    |-> [static |-> <<"string">>, dynamic |-> <<>>, has_changed |-> FALSE],
         smooth |-> [static |-> <<>>, dynamic |-> <<"image">>, has_changed |-> TRUE],
         mask   |-> [static |-> <<>>, dynamic |-> <<"image", "image">>, has_changed |-> TRUE]]

(* The lines.                                                              *)
\* (load "lib")
LoadLib ==
    <<"(", "load", "'lib", ")">>
\* (tick)
Tick ==
    <<"(", "tick", ")">>
\* (define twist (let ((inc 0)) (let ((n 0)) (set! inc (lambda () (set! n (add1 n)))) (lambda () (inc) n))))
Twist ==
    <<"(", "define", "twist", "(", "let", "(", "(", "inc", "0", ")", ")", "(", "let", "(", "(",
      "n", "0", ")", ")", "(", "set!", "inc", "(", "lambda", "(", ")", "(", "set!", "n", "(",
      "add1", "n", ")", ")", ")", ")", "(", "lambda", "(", ")", "(", "inc", ")", "n", ")", ")",
      ")", ")">>
\* (append (list 1 (tick)) (cons (once 2) nil))
UseAppend ==
    <<"(", "append", "(", "list", "1", "(", "tick", ")", ")", "(", "cons", "(", "once", "2",
      ")", "nil", ")", ")">>
\* (define p (promise (tick)))
Promise ==
    <<"(", "define", "p", "(", "promise", "(", "tick", ")", ")", ")">>
\* (cond ((>? (force p) (tick)) 0) (else (force p)))
ForceTwice ==
    <<"(", "cond", "(", "(", ">?", "(", "force", "p", ")", "(", "tick", ")", ")", "0", ")",
      "(", "else", "(", "force", "p", ")", ")", ")">>
\* (mask (pic (concat "1" ".jpg")) (let ((v (pic "1.jpg"))) (if (odd? (tick)) (smooth v) v)))
Blink ==
    <<"(", "mask", "(", "pic", "(", "concat", "'1", "'.jpg", ")", ")", "(", "let", "(", "(", "v",
      "(", "pic", "'1.jpg", ")", ")", ")", "(", "if", "(", "odd?", "(", "tick", ")", ")",
      "(", "smooth", "v", ")", "v", ")", ")", ")">>
\* (mask (pic "1.jpg") (let ((v (pic "1.jpg"))) (if (>? (twist) 2) (smooth v) v)))
Twisted ==
    <<"(", "mask", "(", "pic", "'1.jpg", ")", "(", "let", "(", "(", "v", "(", "pic", "'1.jpg",
      ")", ")", ")", "(", "if", "(", ">?", "(", "twist", ")", "2", ")", "(", "smooth", "v",
      ")", "v", ")", ")", ")">>
\* (smooth (let ((v (pic "1.jpg"))) (fade v v)))
Fade ==
    <<"(", "smooth", "(", "let", "(", "(", "v", "(", "pic", "'1.jpg", ")", ")", ")", "(",
      "fade", "v", "v", ")", ")", ")">>
\* (smooth (let ((v (pic "1.jpg"))) (print v) (set! last effect1) v))
Naming ==
    <<"(", "smooth", "(", "let", "(", "(", "v", "(", "pic", "'1.jpg", ")", ")", ")", "(",
      "print", "v", ")", "(", "set!", "last", "effect1", ")", "v", ")", ")">>
\* (smooth (pic "1.jpg")), the only picture that needs no procedure
Still ==
    <<"(", "smooth", "(", "pic", "'1.jpg", ")", ")">>

\* last
ShowLast ==
    <<"last">>

MCLines == {LoadLib, Tick, Twist, UseAppend, Promise, ForceTwice, Blink, Twisted, Fade, Naming, Still,
            ShowLast}

-----------------------------------------------------------------------------
(* The pictures: four programs.                                             *)

\* (add (smooth (video a)) (canny (video b)))
Split == [
    fx    |-> "r" :> "add" @@ "s" :> "smooth" @@ "a" :> "va" @@ "c" :> "canny" @@ "b" :> "vb",
    evals |-> "r" :> <<"s", "c">> @@ "s" :> <<"a">> @@ "a" :> <<>> @@ "c" :> <<"b">> @@ "b" :> <<>>,
    args  |-> "r" :> <<"s", "c">> @@ "s" :> <<"a">> @@ "a" :> <<>> @@ "c" :> <<"b">> @@ "b" :> <<>>,
    jobs  |-> {"s", "a", "c", "b"},
    root  |-> "r"]

\* (let ((v (video a))) (add (smooth v) (canny v)))
OneSource == [
    fx    |-> "r" :> "add" @@ "v" :> "va" @@ "s" :> "smooth" @@ "c" :> "canny",
    evals |-> "r" :> <<"v", "s", "c">> @@ "v" :> <<>> @@ "s" :> <<>> @@ "c" :> <<>>,
    args  |-> "r" :> <<"s", "c">> @@ "v" :> <<>> @@ "s" :> <<"v">> @@ "c" :> <<"v">>,
    jobs  |-> {"s", "c"},
    root  |-> "r"]

\* example.zoov, without grayscale and the frame counter:
\* (let ((i (pic)) (v (video a))) (trail (mask i (canny (smooth v)))))
Example == [
    fx    |-> "t" :> "add" @@ "i" :> "pic" @@ "v" :> "va" @@ "m" :> "mask" @@ "c" :> "canny" @@ "s" :> "smooth",
    evals |-> "t" :> <<"i", "v", "m">> @@ "i" :> <<>> @@ "v" :> <<>> @@ "m" :> <<"c">> @@ "c" :> <<"s">> @@ "s" :> <<>>,
    args  |-> "t" :> <<"m">> @@ "i" :> <<>> @@ "v" :> <<>> @@ "m" :> <<"i", "c">> @@ "c" :> <<"s">> @@ "s" :> <<"v">>,
    jobs  |-> {"m", "c", "s"},
    root  |-> "t"]

\* (define (f n) (if (eq? n 0) (video a) (add (smooth (video b)) (f (- n 1)))))
\* (f 2)
Recursive == [
    fx    |-> "r2" :> "add" @@ "s2" :> "smooth" @@ "b2" :> "vb" @@
              "r1" :> "add" @@ "s1" :> "smooth" @@ "b1" :> "vb" @@ "a" :> "va",
    evals |-> "r2" :> <<"s2", "r1">> @@ "s2" :> <<"b2">> @@ "b2" :> <<>> @@
              "r1" :> <<"s1", "a">> @@ "s1" :> <<"b1">> @@ "b1" :> <<>> @@ "a" :> <<>>,
    args  |-> "r2" :> <<"s2", "r1">> @@ "s2" :> <<"b2">> @@ "b2" :> <<>> @@
              "r1" :> <<"s1", "a">> @@ "s1" :> <<"b1">> @@ "b1" :> <<>> @@ "a" :> <<>>,
    jobs  |-> {"s2", "b2", "s1", "b1"},
    root  |-> "r2"]

AllEffects  == {"add", "smooth", "canny", "mask", "va", "vb", "pic"}
Pictures    == {"pic"}
AllPrograms == {Split, OneSource, Example, Recursive}

VARIABLES
    used,   \* the half that is used: "session" or "picture"
    sPhase, heap, picture, lines, frames, printed,
    shadow, shadow_picture, shadow_printed, foreign, tangled

sVars ==
    <<sPhase, heap, picture, lines, frames, printed,
      shadow, shadow_picture, shadow_printed, foreign, tangled>>

S == INSTANCE Interpreter WITH
    Numbers <- MCNumbers, Quoted <- MCQuoted, Files <- MCFiles, FileEffects <- MCFileEffects,
    FxTypes <- MCFx, Lines <- MCLines, MaxLines <- 3, MaxFrames <- 6, phase <- sPhase

ASSUME SessionAssumption == S!InterpreterAssumption

MCInit ==
    /\ S!Init /\ Init
    /\ used \in {"session", "picture"} /\ (used = "session" => prog = Split)

\* Nothing can be typed any more.
NothingTyped ==
    /\ used = "session" /\ (sPhase = "dead" \/ (sPhase = "read" /\ lines = 3))
    /\ UNCHANGED <<vars, sVars>>

MCNext ==
    /\ UNCHANGED used
    /\ \/ used = "session" /\ S!Next /\ UNCHANGED vars
       \/ used = "picture" /\ Next /\ UNCHANGED sVars
       \/ NothingTyped

MCSpec == MCInit /\ [][MCNext]_<<used, vars, sVars>> /\ Fairness

-----------------------------------------------------------------------------
\* env.hpp: see Interpreter.
CollectingAndCloningAreInvisible == S!CollectingAndCloningAreInvisible
OnlyLiveFramesAreKept == S!OnlyLiveFramesAreKept
CloneIsSeparate == S!CloneIsSeparate
=============================================================================
