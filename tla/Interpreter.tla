---------------------------- MODULE Interpreter ----------------------------
(***************************************************************************)
(* The interpreter of src/scheme and the part of src/zoov.cpp that feeds   *)
(* it: a line is read and evaluated in the global environment, the         *)
(* collector runs, and if the line makes a picture, a clone of the world   *)
(* is made in which the effect thread evaluates it frame after frame.      *)
(*                                                                         *)
(* The heap is a record of cells, environments and collectors; a pointer   *)
(* is an index, 0 for null.  An evaluation takes a heap and gives a heap   *)
(* and a cell, Thrown when it ends in an exception.  Text is a sequence of *)
(* tokens: splitting a line into them, and formatting, are left out.       *)
(***************************************************************************)
EXTENDS Integers, Sequences, SequencesExt

CONSTANTS
    Lines,        \* what may be typed: token sequences
    Numbers,      \* token -> the number it spells
    Quoted,       \* token -> the string it spells
    Files,        \* file name -> its tokens, for load
    FileEffects,  \* symbol -> the tokens of lib/<symbol>.zcm
    FxTypes,      \* effect -> [static, dynamic |-> the types of its parameters, has_changed |-> BOOLEAN]
    MaxLines, MaxFrames

\* What is asked of the constants.
InterpreterAssumption ==
    /\ DOMAIN Numbers \cap DOMAIN Quoted = {}
    /\ MaxLines \in Nat /\ MaxFrames \in Nat

VARIABLES
    phase,   \* "read": main waits for a line; "run": the effect thread runs; "dead"
    heap,    \* the cells, environments and collectors of the program
    picture, \* the effect thread's expression and its environment
    lines, frames,
    printed, \* what the last line or frame gave
    shadow,  \* history: the heap of a program that never collects,
    shadow_picture, shadow_printed,
    foreign, \* history: the effect thread has named a file effect,
    tangled  \*   or a frame and its parent's variables refer to each other in a clone

world  == <<phase, heap, picture, lines, frames, printed>>
shades == <<shadow, shadow_picture, shadow_printed>>
vars   == <<world, shades, foreign, tangled>>

-----------------------------------------------------------------------------
(* Cells and environments.                                                 *)

Null   == 0
Nil    == 1    \* make_nil's one static cell
Global == 1    \* the global environment, and its collector
Thrown == Null

Cell(type, val, first, second, env) ==
    [type |-> type, val |-> val, first |-> first, second |-> second,
     env |-> env, copy |-> Null, visited |-> 0]

Ret(h, x) == [h |-> h, r |-> x]
Throw(h)  == Ret(h, Thrown)     \* assure, when what it is told does not hold

\* What follows an evaluation, unless it threw.
Then(p, F(_, _)) == IF p.r = Thrown THEN p ELSE F(p.h, p.r)

Make(h, type, val, first, second, env) ==
    Ret([h EXCEPT !.cells = Append(@, Cell(type, val, first, second, env))], Len(h.cells) + 1)

MakePair(h, a, b)  == Make(h, "pair", "", a, b, Null)
MakeNumber(h, n)   == Make(h, "number", n, Null, Null, Null)
MakeBoolean(h, b)  == Make(h, "boolean", b, Null, Null, Null)
MakeUndefined(h)   == Make(h, "undefined", "", Null, Null, Null)

Is(h, x, type) == h.cells[x].type = type
Val(h, x) == h.cells[x].val      \* get_integral, get_symbol, get_effect ...
Car(h, x) == h.cells[x].first
Cdr(h, x) == h.cells[x].second
Cadr(h, x) == Car(h, Cdr(h, x))
Cddr(h, x) == Cdr(h, Cdr(h, x))
IsTrue(h, x) == ~Is(h, x, "nil") /\ ~(Is(h, x, "boolean") /\ ~Val(h, x))

\* A procedure: its parameters, its body, and the environment it was made in.
Params(h, f)  == h.cells[f].first
Body(h, f)    == h.cells[f].second
Closure(h, f) == h.cells[f].env

RECURSIVE Items(_, _)
\* The elements of a list.
Items(h, l) == IF Is(h, l, "pair") THEN <<Car(h, l)>> \o Items(h, Cdr(h, l)) ELSE <<>>

Put(map, name, x) == [n \in DOMAIN map \cup {name} |-> IF n = name THEN x ELSE map[n]]
Has(h, e, name) == name \in DOMAIN h.envs[e].map
Find(h, e, name) == h.envs[e].map[name]
SetVar(h, e, name, x) == [h EXCEPT !.envs[e].map = Put(@, name, x)]

RECURSIVE LookupEnv(_, _, _)
\* The environment that has the name, Null when none does.
LookupEnv(h, e, name) ==
    IF e = Null \/ Has(h, e, name) THEN e ELSE LookupEnv(h, h.envs[e].parent, name)

NewEnv(parent, gc, root) ==
    [map |-> <<>>, parent |-> parent, visited |-> 0, copy |-> Null, gc |-> gc, root |-> root]

\* A collector; the frames it knows are those that were registered with it.
NewGc(root) == [root |-> root, iter |-> 0, envs |-> <<>>]
RegisterEnv(gcs, g, e) == [gcs EXCEPT ![g].envs = Append(@, e)]

\* A frame inherits its parent's collector, which remembers it.
DropFrame(h, e) ==
    LET gc == h.envs[e].gc  new == Len(h.envs) + 1
    IN  Ret([h EXCEPT !.envs = Append(@, NewEnv(e, gc, FALSE)),
                      !.gcs = RegisterEnv(@, gc, new)], new)

RECURSIVE BindArgs(_, _, _, _)
\* env_t::bind: the parameters of a compound procedure; the result is the frame.
BindArgs(h, e, names, vals) ==
    CASE Is(h, names, "nil") -> IF Is(h, vals, "nil") THEN Ret(h, e) ELSE Throw(h)
      [] Is(h, names, "symbol") ->
            IF Has(h, e, Val(h, names)) THEN Throw(h)
            ELSE Ret(SetVar(h, e, Val(h, names), vals), e)
      [] ~Is(h, names, "nil") /\ ~Is(h, names, "symbol") ->
            LET name == Car(h, names)
                delayed == Is(h, name, "pair")      \* (delayed x)
                var == Val(h, IF delayed THEN Cadr(h, name) ELSE name)
            IN  IF ~Is(h, vals, "pair") \/ Has(h, e, var) THEN Throw(h)
                ELSE Then(IF delayed THEN Make(h, "promise", FALSE, Car(h, vals), Null, e)
                                     ELSE Ret(h, Car(h, vals)),
                          LAMBDA g, x : BindArgs(SetVar(g, e, var, x), e,
                                                 Cdr(g, names), Cdr(g, vals)))

ArgName == <<"$1", "$2", "$3">>

\* The arguments of a file effect: $$ for all of them, $1, $2 ... for each.
BindFileArgs(h, e, vals) ==
    LET xs == Items(h, vals)
    IN  Ret([h EXCEPT !.envs[e].map =
                [n \in {"$$"} \cup {ArgName[i] : i \in DOMAIN xs} |->
                    IF n = "$$" THEN vals ELSE xs[CHOOSE i \in DOMAIN xs : ArgName[i] = n]]], e)

-----------------------------------------------------------------------------
(* The parser.  Parsed expressions come with the tokens that are left.     *)

Atom(h, token) ==
    CASE token \in DOMAIN Numbers -> MakeNumber(h, Numbers[token])
      [] token \in DOMAIN Quoted  -> Make(h, "string", Quoted[token], Null, Null, Null)
      [] OTHER                    -> Make(h, "symbol", token, Null, Null, Null)

Parsed(p, rest) == [h |-> p.h, r |-> p.r, rest |-> rest]

RECURSIVE ParseList(_, _)
ParseOne(h, ts) ==
    IF Head(ts) = "(" THEN ParseList(h, Tail(ts)) ELSE Parsed(Atom(h, Head(ts)), Tail(ts))

ParseList(h, ts) ==
    CASE ts = <<>> -> Parsed(Ret(h, Nil), ts)
      [] ts # <<>> /\ Head(ts) = ")" -> Parsed(Ret(h, Nil), Tail(ts))
      [] ts # <<>> /\ Head(ts) = "." ->
            LET p == ParseOne(h, Tail(ts))
            IN  IF Head(p.rest) = ")" THEN Parsed(p, Tail(p.rest)) ELSE Parsed(Throw(h), <<>>)
      [] OTHER ->
            LET p == ParseOne(h, ts)
                q == ParseList(p.h, p.rest)
            IN  Parsed(Then(q, LAMBDA g, rest : MakePair(g, p.r, rest)), q.rest)

-----------------------------------------------------------------------------
(* Builtins and effects.  Numbers are integers, and / is left out.         *)

Comparison == {">?", ">=?", "<?", "<=?"}
Arithmetic == {"+", "-", "*", "div", "mod"}
Builtins   == Comparison \cup Arithmetic \cup
    {"eq?", "nil?", "list?", "pair?", "car", "cdr", "list", "cons", "concat", "print"}

Compare(op, a, b) ==
    CASE op = ">?" -> a > b [] op = ">=?" -> a >= b [] op = "<?" -> a < b [] op = "<=?" -> a <= b

\* The quotient of two ints is cut off towards zero; by zero is outside the language,
\* and nothing here divides by it.
Quotient(a, b) ==
    LET size(i) == IF i < 0 THEN -i ELSE i
    IN  (IF (a < 0) = (b < 0) THEN 1 ELSE -1) * (size(a) \div size(b))

Compute(op, a, b) ==
    CASE op = "+" -> a + b [] op = "-" -> a - b [] op = "*" -> a * b
      [] op = "div" -> Quotient(a, b) [] op = "mod" -> a - b * Quotient(a, b)

AreAll(h, xs, type) == \A i \in DOMAIN xs : Is(h, xs[i], type)

Numeric(h, op, xs) ==
    LET d == FoldLeft(LAMBDA r, x : Compute(op, r, Val(h, x)), Val(h, xs[1]), Tail(xs))
    IN  CASE ~AreAll(h, xs, "number") \/ (op \in Comparison /\ Len(xs) < 2) -> Throw(h)
          [] AreAll(h, xs, "number") /\ op \in Arithmetic -> MakeNumber(h, d)
          [] OTHER -> MakeBoolean(h, Compare(op, Val(h, xs[1]), Val(h, xs[2])))

\* eq? knows numbers and symbols.
AreSame(h, x, y) ==
    \E type \in {"number", "symbol"} : Is(h, x, type) /\ Is(h, y, type) /\ Val(h, x) = Val(h, y)

Concat(h, xs) ==
    IF ~AreAll(h, xs, "string") THEN Throw(h)
    ELSE Make(h, "string", FoldLeft(LAMBDA d, x : d \o Val(h, x), "", xs), Null, Null, Null)

CallBuiltin(h, op, args) ==
    LET xs == Items(h, args)
    IN  CASE op = "list"  -> Ret(h, args)
          [] op = "print" -> MakeUndefined(h)
          [] op \notin {"list", "print"} /\ xs = <<>> -> Throw(h)
          [] op \in Arithmetic \cup Comparison /\ xs # <<>> -> Numeric(h, op, xs)
          [] op = "concat" /\ xs # <<>> -> Concat(h, xs)
          [] op = "nil?" /\ xs # <<>> ->
                IF Len(xs) # 1 THEN Throw(h) ELSE MakeBoolean(h, Is(h, xs[1], "nil"))
          [] op \in {"list?", "pair?"} /\ xs # <<>> -> MakeBoolean(h, Is(h, xs[1], "pair"))
          [] op \in {"car", "cdr"} /\ xs # <<>> ->
                IF ~Is(h, xs[1], "pair") THEN Throw(h)
                ELSE Ret(h, IF op = "car" THEN Car(h, xs[1]) ELSE Cdr(h, xs[1]))
          [] op = "eq?" /\ xs # <<>> ->
                IF Len(xs) # 2 THEN Throw(h) ELSE MakeBoolean(h, AreSame(h, xs[1], xs[2]))
          [] op = "cons" /\ xs # <<>> -> IF Len(xs) # 2 THEN Throw(h) ELSE MakePair(h, xs[1], xs[2])

\* A locker takes one argument from the front for each parameter, of its type.
CanLock(h, xs, types) == Len(xs) >= Len(types) /\ \A i \in DOMAIN types : Is(h, xs[i], types[i])
Locked(h, xs, types)  == [i \in DOMAIN types |-> Val(h, xs[i])]

\* An effect is a cell whose val is its index in h.fx.
NewFx(name) == [name |-> name, image |-> <<>>, tick |-> 0]

\* process is called with the images of the effects that are named: an image
\* is known by the effect that made it and the images it was made from.
CallProcess(h, name, xs) ==
    LET inputs == Locked(h, xs, FxTypes[name].dynamic)
    IN  <<name>> \o [i \in DOMAIN inputs |-> h.fx[inputs[i]].image]

\* process_fx: the images are taken from the arguments only if it is processed.
ProcessFx(h, effect, args) ==
    LET f  == Val(h, effect)
        fx == h.fx[f]
        xs == Items(h, args)
        stale == fx.image = <<>> \/ (FxTypes[fx.name].has_changed /\ fx.tick < h.ticker)
    IN  CASE ~stale -> Make(h, "image", f, Null, Null, Null)
          [] stale /\ ~CanLock(h, xs, FxTypes[fx.name].dynamic) -> Throw(h)
          [] OTHER -> Make([h EXCEPT !.fx[f].tick = h.ticker,
                                     !.fx[f].image = CallProcess(h, fx.name, xs)],
                           "image", f, Null, Null, Null)

\* register_fx's creator: a new effect, made with its static parameters.
CreateFx(h, name, args) ==
    IF ~CanLock(h, Items(h, args), FxTypes[name].static) THEN Throw(h)
    ELSE Make([h EXCEPT !.fx = Append(@, NewFx(name))], "effect", Len(h.fx) + 1, Null, Null, Null)

RECURSIVE DropCdr(_, _, _)
\* exp->set_cdr(exp->cdr()->cdr()), n times.
DropCdr(h, x, n) ==
    IF n = 0 THEN h ELSE DropCdr([h EXCEPT !.cells[x].second = Cdr(h, @)], x, n - 1)

-----------------------------------------------------------------------------
(* The evaluator.                                                          *)

SelfEvaluating == {"number", "string", "boolean", "promise", "image", "nil"}

RECURSIVE Eval(_, _, _), EvList(_, _, _), EvalAll(_, _, _), EvCond(_, _, _), EvPairs(_, _, _), Load(_, _, _)

\* A name that no environment has may be that of a file effect.
EvalSymbol(h, name, e) ==
    LET found == LookupEnv(h, e, name)
    IN  CASE found # Null -> Ret(h, Find(h, found, name))
          [] found = Null /\ name \notin DOMAIN FileEffects -> Throw(h)
          [] OTHER ->
                Then(ParseOne(h, FileEffects[name]), LAMBDA h1, body :
                Then(MakePair(h1, body, Nil), LAMBDA h2, l :
                     Make(h2, "infile", "", Null, l, Global)))

\* evlist's loop over an argument list; an effect application in it is
\* processed by a job, and the job's image is there when evlist returns.
EvList(h, l, e) ==
    CASE Is(h, l, "nil") -> Ret(h, l)
      [] Is(h, l, "pair") ->
            Then(Eval(h, Car(h, l), e), LAMBDA h1, x :
            Then(EvList(h1, Cdr(h1, l), e), LAMBDA h2, rest :
                 MakePair(h2, x, rest)))
      [] OTHER -> Throw(h)

EvalAll(h, l, e) ==
    CASE Is(h, l, "nil") -> MakeUndefined(h)
      [] ~Is(h, l, "nil") /\ Is(h, Cdr(h, l), "nil") -> Eval(h, Car(h, l), e)
      [] OTHER -> Then(Eval(h, Car(h, l), e), LAMBDA h1, x : EvalAll(h1, Cdr(h1, l), e))

EvCond(h, l, e) ==
    IF Is(h, l, "nil") THEN Ret(h, l)
    ELSE LET test == Car(h, Car(h, l))  body == Cdr(h, Car(h, l))
         IN  IF Is(h, test, "symbol") /\ Val(h, test) = "else" THEN EvalAll(h, body, e)
             ELSE Then(Eval(h, test, e), LAMBDA h1, x :
                  CASE ~IsTrue(h1, x) -> EvCond(h1, Cdr(h1, l), e)
                    [] IsTrue(h1, x) /\ Is(h1, body, "nil") -> Ret(h1, x)
                    [] OTHER -> EvalAll(h1, body, e))

EvIf(h, x, e) ==
    Then(Eval(h, Cadr(h, x), e), LAMBDA h1, test :
         Eval(h1, IF IsTrue(h1, test) THEN Car(h1, Cddr(h1, x)) ELSE Cadr(h1, Cddr(h1, x)), e))

\* The pairs of a let, each seeing those before it; the result is the frame.
EvPairs(h, pairs, e) ==
    IF Is(h, pairs, "nil") THEN Ret(h, e)
    ELSE Then(EvalAll(h, Cdr(h, Car(h, pairs)), e), LAMBDA h1, x :
              EvPairs(SetVar(h1, e, Val(h1, Car(h1, Car(h1, pairs))), x), Cdr(h1, pairs), e))

EvLet(h, l, e) ==
    Then(DropFrame(h, e), LAMBDA h1, frame :
    Then(EvPairs(h1, Car(h1, l), frame), LAMBDA h2, f :
         EvalAll(h2, Cdr(h2, l), frame)))

Define(h, x, e) ==
    LET what == Cadr(h, x)
    IN  IF Is(h, what, "symbol")
        THEN IF Has(h, e, Val(h, what)) THEN Throw(h)
             ELSE Then(Eval(h, Car(h, Cddr(h, x)), e), LAMBDA h1, v :
                       MakeUndefined(SetVar(h1, e, Val(h1, what), v)))
        ELSE Then(Make(h, "compound", "", Cdr(h, what), Cddr(h, x), e), LAMBDA h1, f :
                  MakeUndefined(SetVar(h1, e, Val(h1, Car(h1, what)), f)))

\* set! looks the variable up before it evaluates, and gives its old value.
Set(h, x, e) ==
    LET name == Val(h, Cadr(h, x))  where == LookupEnv(h, e, name)
    IN  IF where = Null THEN Throw(h)
        ELSE Then(Eval(h, Car(h, Cddr(h, x)), e), LAMBDA h1, v :
                  Ret(SetVar(h1, where, name, v), Find(h, where, name)))

Force(h, x, e) ==
    Then(Eval(h, Cadr(h, x), e), LAMBDA h1, p :
         CASE ~Is(h1, p, "promise") -> Throw(h1)
           [] Is(h1, p, "promise") /\ Val(h1, p) -> Ret(h1, Car(h1, p))
           [] OTHER -> Then(Eval(h1, Car(h1, p), Closure(h1, p)), LAMBDA h2, r :
                            Ret([h2 EXCEPT !.cells[p].val = TRUE, !.cells[p].first = r], r)))

\* All the expressions of a file, in the environment of the load.
Load(h, ts, e) ==
    IF ts = <<>> THEN MakeBoolean(h, TRUE)
    ELSE LET p == ParseOne(h, ts)
         IN  Then(Then(p, LAMBDA h1, x : Eval(h1, x, e)), LAMBDA h2, r : Load(h2, p.rest, e))

LoadFile(h, file, e) ==
    IF file \in DOMAIN Files THEN Load(h, Files[file], e) ELSE MakeBoolean(h, FALSE)

SpecialForms == {"promise", "force", "quote", "load", "cond", "if", "let", "let*",
                 "define", "lambda", "set!", "string"}

Special(h, form, x, e) ==
    CASE form = "promise" -> Make(h, "promise", FALSE, Cadr(h, x), Null, e)
      [] form = "force"   -> Force(h, x, e)
      [] form = "quote"   -> Ret(h, Cadr(h, x))
      [] form = "load"    -> LoadFile(h, Val(h, Cadr(h, x)), e)
      [] form = "cond"    -> EvCond(h, Cdr(h, x), e)
      [] form = "if"      -> EvIf(h, x, e)
      [] form \in {"let", "let*"} -> EvLet(h, Cdr(h, x), e)
      [] form = "define"  -> Define(h, x, e)
      [] form = "lambda"  -> Make(h, "compound", "", Cadr(h, x), Cddr(h, x), e)
      [] form = "set!"    -> Set(h, x, e)
      [] form = "string"  -> Make(h, "string", Val(h, Cadr(h, x)), Null, Null, Null)

Apply(h, f, args) ==
    CASE Is(h, f, "compound") ->
            Then(DropFrame(h, Closure(h, f)), LAMBDA h1, frame :
            Then(BindArgs(h1, frame, Params(h1, f), args), LAMBDA h2, env :
                 EvalAll(h2, Body(h2, f), env)))
      [] Is(h, f, "infile") ->
            Then(DropFrame(h, Closure(h, f)), LAMBDA h1, frame :
            Then(BindFileArgs(h1, frame, args), LAMBDA h2, env :
                 EvalAll(h2, Body(h2, f), env)))
      [] Is(h, f, "builtin") -> CallBuiltin(h, Val(h, f), args)

\* Applying a creator writes the effect into the expression itself.
Create(h, f, x, e) ==
    LET name == Val(h, f)
    IN  Then(EvList(h, Cdr(h, x), e), LAMBDA h1, args :
        Then(CreateFx(h1, name, args), LAMBDA h2, effect :
             Ret(DropCdr([h2 EXCEPT !.cells[x].first = effect], x, Len(FxTypes[name].static)), x)))

Application(h, x, e) ==
    Then(Eval(h, Car(h, x), e), LAMBDA h1, f :
         CASE Is(h1, f, "creator") -> Create(h1, f, x, e)
           [] h1.cells[f].type \in {"compound", "infile", "builtin"} ->
                 Then(EvList(h1, Cdr(h1, x), e), LAMBDA h2, args : Apply(h2, f, args))
           [] OTHER -> Ret(h1, f))

Eval(h, x, e) ==
    LET type == h.cells[x].type
        head == IF type = "pair" THEN Car(h, x) ELSE x
    IN  CASE type \in SelfEvaluating -> Ret(h, x)
          [] type = "symbol" -> EvalSymbol(h, Val(h, x), e)
          [] type = "pair" /\ Is(h, head, "symbol") /\ Val(h, head) \in SpecialForms ->
                Special(h, Val(h, head), x, e)
          [] type = "pair" /\ Is(h, head, "effect") ->
                Then(EvList(h, Cdr(h, x), e), LAMBDA h1, args : ProcessFx(h1, head, args))
          [] type = "pair" /\ ~Is(h, head, "effect")
                /\ ~(Is(h, head, "symbol") /\ Val(h, head) \in SpecialForms) -> Application(h, x, e)
          [] OTHER -> Throw(h)

-----------------------------------------------------------------------------
(* The collector.  Its objects are <<"cell", x>> and <<"env", e>>.         *)

CellOf(x) == IF x = Null THEN {} ELSE {<<"cell", x>>}
EnvOf(e)  == IF e = Null THEN {} ELSE {<<"env", e>>}

\* Broken: a procedure's environment is not visited.
CellLinksWithoutEnv(h, x) == CellOf(h.cells[x].first) \cup CellOf(h.cells[x].second)

CellLinks(h, x) ==
    EnvOf(h.cells[x].env) \cup CellOf(h.cells[x].first) \cup CellOf(h.cells[x].second)
EnvLinks(h, e) ==
    EnvOf(h.envs[e].parent) \cup {<<"cell", h.envs[e].map[n]>> : n \in DOMAIN h.envs[e].map}

Links(h, o) == IF o[1] = "cell" THEN CellLinks(h, o[2]) ELSE EnvLinks(h, o[2])

RECURSIVE Reach(_, _)
\* What can be reached from a set of objects.
Reach(h, objects) ==
    LET more == objects \cup UNION {Links(h, o) : o \in objects}
    IN  IF more = objects THEN objects ELSE Reach(h, more)

VisitedOf(h, o) == IF o[1] = "cell" THEN h.cells[o[2]].visited ELSE h.envs[o[2]].visited

RECURSIVE Visit(_, _, _)
\* visit marks what it has not marked in this round, and follows its links.
Visit(h, objects, n) ==
    LET new == {o \in objects : VisitedOf(h, o) < n}
        marked == [h EXCEPT
            !.cells = [x \in DOMAIN @ |-> IF <<"cell", x>> \in new THEN [@[x] EXCEPT !.visited = n] ELSE @[x]],
            !.envs  = [e \in DOMAIN @ |-> IF <<"env", e>> \in new THEN [@[e] EXCEPT !.visited = n] ELSE @[e]]]
    IN  IF new = {} THEN h ELSE Visit(marked, UNION {Links(h, o) : o \in new}, n)

ClearEnvs(h, es) ==
    [h EXCEPT !.envs = [e \in DOMAIN @ |->
        IF e \in es THEN [@[e] EXCEPT !.map = <<>>, !.parent = Null] ELSE @[e]]]

\* Broken: the count of rounds is not incremented.
CollectWithoutCounting(h, g, x) ==
    LET n == h.gcs[g].iter
        v == Visit(h, EnvOf(h.gcs[g].root) \cup CellOf(x), n)
        kept == SelectSeq(h.gcs[g].envs, LAMBDA e : v.envs[e].visited = n)
    IN  [ClearEnvs(v, ToSet(h.gcs[g].envs) \ ToSet(kept)) EXCEPT !.gcs[g].envs = kept]

\* run_gc on collector g: the frames that neither its root environment nor
\* the expression x reaches are cleared and forgotten.
Collect(h, g, x) ==
    LET n == h.gcs[g].iter + 1
        v == Visit(h, EnvOf(h.gcs[g].root) \cup CellOf(x), n)
        kept == SelectSeq(h.gcs[g].envs, LAMBDA e : v.envs[e].visited = n)
    IN  [ClearEnvs(v, ToSet(h.gcs[g].envs) \ ToSet(kept)) EXCEPT
            !.gcs[g] = [@ EXCEPT !.iter = n, !.envs = kept]]

\* ~env_t of a root: the frames that its collector knows are cleared, and it is.
CollectAll(h, g) ==
    [ClearEnvs(h, ToSet(h.gcs[g].envs) \cup {h.gcs[g].root}) EXCEPT !.gcs[g].envs = <<>>]

\* Something that outlives the picture refers to environment e: e itself, through a
\* procedure that was made in it; a frame that its collector knows; the prompt.
IsHeld(h, e) ==
    <<"env", e>> \in Reach(h, EnvLinks(h, e) \cup EnvOf(Global) \cup
                              {<<"env", f>> : f \in ToSet(h.gcs[h.envs[e].gc].envs)})

\* The picture's reference to its environment goes.  References are counted: what is
\* held stays, and a clone in which there is a procedure is never destroyed.
DropEnv(h, e) == IF h.envs[e].root /\ ~IsHeld(h, e) THEN CollectAll(h, h.envs[e].gc) ELSE h

-----------------------------------------------------------------------------
(* Clones.                                                                 *)

RECURSIVE CopyCell(_, _), CopyEnv(_, _), CopyNames(_, _, _, _)

\* Broken: a copied procedure keeps the environment of the original.
CopyCellSharingEnv(h, x) ==
    IF x = Null \/ h.cells[x].copy # Null THEN Ret(h, IF x = Null THEN Null ELSE h.cells[x].copy)
    ELSE LET o   == h.cells[x]
             new == Len(h.cells) + 1
             h1  == [h EXCEPT !.cells = Append(@, [Cell(o.type, o.val, Null, Null, o.env) EXCEPT !.copy = new]),
                              !.cells[x].copy = new]
             first  == CopyCell(h1, o.first)
             second == CopyCell(first.h, o.second)
         IN  Ret([second.h EXCEPT !.cells[new].first = first.r, !.cells[new].second = second.r], new)

CopyCell(h, x) ==
    IF x = Null \/ h.cells[x].copy # Null THEN Ret(h, IF x = Null THEN Null ELSE h.cells[x].copy)
    ELSE LET o   == h.cells[x]
             new == Len(h.cells) + 1
             h1  == [h EXCEPT !.cells = Append(@, [Cell(o.type, o.val, Null, Null, Null) EXCEPT !.copy = new]),
                              !.cells[x].copy = new]
             env    == IF o.env = Null THEN Ret(h1, Null) ELSE CopyEnv(h1, o.env)
             first  == CopyCell(env.h, o.first)
             second == CopyCell(first.h, o.second)
         IN  Ret([second.h EXCEPT !.cells[new].env = env.r, !.cells[new].first = first.r,
                                  !.cells[new].second = second.r], new)

\* A copied root gets a collector of its own; a copied frame its parent's.
CopyEnv(h, e) ==
    IF h.envs[e].copy # Null THEN Ret(h, h.envs[e].copy)
    ELSE LET root   == h.envs[e].parent = Null
             parent == IF root THEN Ret(h, Null) ELSE CopyEnv(h, h.envs[e].parent)
             h1  == parent.h
             new == Len(h1.envs) + 1
             gc  == IF root THEN Len(h1.gcs) + 1 ELSE h1.envs[parent.r].gc
             h2  == [h1 EXCEPT
                        !.envs = Append(@, [NewEnv(parent.r, gc, root) EXCEPT !.copy = new]),
                        !.envs[e].copy = new,
                        !.gcs = IF root THEN Append(@, NewGc(new)) ELSE RegisterEnv(@, gc, new)]
         IN  CopyNames(h2, e, new, DOMAIN h.envs[e].map)

CopyNames(h, e, new, names) ==
    IF names = {} THEN Ret(h, new)
    ELSE LET n == CHOOSE n \in names : TRUE
             c == CopyCell(h, Find(h, e, n))
         IN  CopyNames(SetVar(c.h, new, n, c.r), e, new, names \ {n})

CopyMark(h, o) == IF o[1] = "cell" THEN h.cells[o[2]].copy ELSE h.envs[o[2]].copy

RECURSIVE ResetCopy(_, _)
\* reset_copy: the marks of a copied environment lead to its copy, too.
ResetCopy(h, objects) ==
    LET marked == {o \in objects : CopyMark(h, o) # Null}
        reset == [h EXCEPT
            !.cells = [x \in DOMAIN @ |-> IF <<"cell", x>> \in marked THEN [@[x] EXCEPT !.copy = Null] ELSE @[x]],
            !.envs  = [e \in DOMAIN @ |-> IF <<"env", e>> \in marked THEN [@[e] EXCEPT !.copy = Null] ELSE @[e]]]
    IN  IF marked = {} THEN h
        ELSE ResetCopy(reset, UNION {Links(h, o) : o \in marked}
                                 \cup {<<"env", CopyMark(h, o)>> : o \in {m \in marked : m[1] = "env"}})

\* env_t::clone of the global environment, and of the expression x.
Clone(h, x) ==
    LET ec == CopyEnv(h, Global)
        cc == CopyCell(ec.h, x)
        r1 == ResetCopy(cc.h, EnvOf(Global))
        r2 == ResetCopy(r1, CellOf(x))
        r3 == ResetCopy(r2, CellOf(cc.r))
    IN  [h |-> ResetCopy(r3, EnvOf(ec.r)), x |-> cc.r, e |-> ec.r]

-----------------------------------------------------------------------------
(* What an ideal machine would do: never collect, and clone by doubling.   *)

ShiftCell(c, n, m) ==
    [c EXCEPT !.first = IF @ = Null THEN Null ELSE @ + n, !.second = IF @ = Null THEN Null ELSE @ + n,
              !.env = IF @ = Null THEN Null ELSE @ + m]
ShiftEnv(v, n, m) ==
    [v EXCEPT !.map = [k \in DOMAIN @ |-> @[k] + n], !.parent = IF @ = Null THEN Null ELSE @ + m]

IdealClone(h, x) ==
    LET n == Len(h.cells)  m == Len(h.envs)
    IN  [h |-> [h EXCEPT !.cells = @ \o [i \in 1 .. n |-> ShiftCell(@[i], n, m)],
                         !.envs  = @ \o [i \in 1 .. m |-> ShiftEnv(@[i], n, m)]],
         x |-> x + n, e |-> Global + m]

RECURSIVE Ancestors(_, _)
Ancestors(h, e) ==
    LET p == h.envs[e].parent IN IF p \in {Null, Global} THEN {} ELSE {p} \cup Ancestors(h, p)

\* Some frame is captured by the variables of a frame around it.
Tangled(h) ==
    \E o \in Reach(h, EnvOf(Global)) :
       /\ o[1] = "env"
       /\ \E p \in Ancestors(h, o[2]) :
             o \in Reach([h EXCEPT !.envs[Global].map = <<>>], EnvLinks(h, p))

-----------------------------------------------------------------------------
(* main's loop and the effect thread.                                      *)

RECURSIVE Written(_, _)
Written(h, x) ==
    LET c == h.cells[x]
    IN  CASE c.type \in {"pair", "compound"} -> <<c.type, Written(h, c.first), Written(h, c.second)>>
          [] c.type = "image" -> <<c.type, h.fx[c.val].image>>
          [] OTHER -> <<c.type, c.val>>

\* register_builtin, register_effect.
Register(h, name, type, val) ==
    LET c == Make(h, type, val, Null, Null, Null) IN SetVar(c.h, Global, name, c.r)

\* The heap scheme() makes, with the effects that register themselves.
InitialHeap ==
    LET empty == [cells |-> <<>>, envs |-> <<NewEnv(Null, Global, TRUE)>>, gcs |-> <<NewGc(Global)>>,
                  fx |-> <<>>, ticker |-> 0]
        values == Register(Register(Register(empty, "nil", "nil", ""),
                           "#t", "boolean", TRUE), "#f", "boolean", FALSE)
        builtins == FoldSet(LAMBDA n, h : Register(h, n, "builtin", n), values, Builtins)
    IN  FoldSet(LAMBDA n, h : Register(h, n, "creator", n), builtins, DOMAIN FxTypes)

NoPicture == [x |-> Null, e |-> Null]

Init ==
    /\ phase = "read" /\ heap = InitialHeap /\ picture = NoPicture
    /\ lines = 0 /\ frames = 0 /\ printed = <<>>
    /\ shadow = InitialHeap /\ shadow_picture = NoPicture /\ shadow_printed = <<>>
    /\ foreign = FALSE /\ tangled = FALSE

\* main: evaluate, collect, print; if it is a picture, clone and start the
\* effect thread, else collect again.  A line without parentheses is only
\* evaluated and printed.
Bare(ts) == Head(ts) # "("
IsPicture(h, x) == Is(h, x, "pair") /\ Is(h, Car(h, x), "effect")

ReadLine(ts) ==
    /\ phase = "read" /\ lines < MaxLines
    /\ lines' = lines + 1 /\ frames' = 0
    /\ LET p == ParseOne(heap, ts)
           v == Then(p, LAMBDA h, x : Eval(h, x, Global))
           h == IF Bare(ts) THEN v.h ELSE Collect(v.h, Global, p.r)
           to_run == ~Bare(ts) /\ IsPicture(h, v.r)
           c == Clone(h, p.r)
       IN  CASE v.r = Thrown ->
                  phase' = "dead" /\ printed' = <<"exception">> /\ UNCHANGED <<heap, picture, tangled>>
             [] v.r # Thrown /\ to_run ->
                  /\ phase' = "run" /\ printed' = Written(h, v.r)
                  /\ heap' = c.h /\ picture' = [x |-> c.x, e |-> c.e]
                  /\ tangled' = (tangled \/ Tangled(h))
             [] v.r # Thrown /\ ~to_run ->
                  /\ printed' = Written(h, v.r)
                  /\ heap' = IF Bare(ts) THEN h ELSE Collect(h, Global, Nil)
                  /\ UNCHANGED <<phase, picture, tangled>>
    /\ LET p == ParseOne(shadow, ts)
           v == Then(p, LAMBDA h, x : Eval(h, x, Global))
           to_run == ~Bare(ts) /\ IsPicture(v.h, v.r)
           c == IdealClone(v.h, p.r)
       IN  CASE v.r = Thrown -> shadow_printed' = <<"exception">> /\ UNCHANGED <<shadow, shadow_picture>>
             [] v.r # Thrown -> /\ shadow_printed' = Written(v.h, v.r)
                                /\ shadow' = IF to_run THEN c.h ELSE v.h
                                /\ shadow_picture' = IF to_run THEN [x |-> c.x, e |-> c.e] ELSE NoPicture
    /\ UNCHANGED foreign

\* What a frame evaluates to must be an image.
NextFrame(h, pic) == Eval([h EXCEPT !.ticker = @ + 1], pic.x, pic.e)
Shown(v) == IF v.r # Thrown /\ Is(v.h, v.r, "image") THEN Written(v.h, v.r) ELSE <<"exception">>

Frame ==
    /\ phase = "run" /\ frames < MaxFrames
    /\ frames' = frames + 1
    /\ LET v == NextFrame(heap, picture)
           names == {i \in DOMAIN v.h.cells \ DOMAIN heap.cells : v.h.cells[i].type = "infile"}
       IN  /\ printed' = Shown(v)
           /\ foreign' = (foreign \/ names # {})
           /\ IF Shown(v) = <<"exception">> THEN phase' = "dead" /\ UNCHANGED heap
              ELSE heap' = Collect(v.h, heap.envs[picture.e].gc, picture.x) /\ UNCHANGED phase
    /\ LET v == NextFrame(shadow, shadow_picture)
       IN  shadow' = v.h /\ shadow_printed' = Shown(v)
    /\ UNCHANGED <<picture, lines, shadow_picture, tangled>>

\* A key is pressed: the thread is stopped and joined, and the last pointers to the
\* clone outside of it go.
StopEffect ==
    /\ phase = "run"
    /\ phase' = "read"
    /\ heap' = Collect(DropEnv(heap, picture.e), Global, Nil)
    /\ picture' = NoPicture /\ shadow_picture' = NoPicture
    /\ UNCHANGED <<lines, frames, printed, shadow, shadow_printed, foreign, tangled>>

Next == (\E ts \in Lines : ReadLine(ts)) \/ Frame \/ StopEffect

Spec == Init /\ [][Next]_vars

-----------------------------------------------------------------------------
(* Properties.                                                             *)

\* Whatever is typed, and however often frames are drawn, each line and each
\* frame gives what it would on a machine that never collects and whose
\* clones are perfect (env_t::run_gc, env_t::clone); the two cases in which
\* the code gets it wrong are excepted, and named where they are recorded.
CollectingAndCloningAreInvisible ==
    ~foreign /\ ~tangled => printed = shadow_printed

EnvsKept(g) == {<<"env", e>> : e \in ToSet(heap.gcs[g].envs)}

\* After a line and after a frame the collector has forgotten every frame
\* that neither its environment nor the picture reaches, so that drawing
\* does not fill the memory (env_t::garbage_collector_t::collect).
OnlyLiveFramesAreKept ==
    ~foreign =>
       /\ phase = "read" => EnvsKept(Global) \subseteq Reach(heap, EnvOf(Global))
       /\ phase = "run" =>
             EnvsKept(heap.envs[picture.e].gc) \subseteq Reach(heap, EnvOf(picture.e) \cup CellOf(picture.x))

\* Drawing a frame changes nothing that the prompt's world can see, the
\* collector's marks aside: the clone shares no cell and no environment with
\* it but nil.
CloneIsSeparate ==
    [][frames' > frames /\ ~foreign' =>
          \A o \in Reach(heap, EnvOf(Global)) :
             IF o[1] = "cell" THEN [heap'.cells[o[2]] EXCEPT !.visited = 0] = [heap.cells[o[2]] EXCEPT !.visited = 0]
             ELSE heap'.envs[o[2]] = heap.envs[o[2]]]_vars
=============================================================================
