----------------------------- MODULE Utilities ------------------------------
(* The helpers of zi: the arguments of a program (zi/zargs), intervals of   *)
(* time, clocks and timers (zi/time), and the comparison of names in which   *)
(* numbers count as numbers (utility/natural_compare.hpp).                  *)
EXTENDS Integers, Sequences, FiniteSets

CONSTANTS
    Types,       \* [handler -> "number", "boolean", "text", "set", "list" or "properties"]
    Thousand,    \* what a thousand is made in the units of time
    PassNsecs, PassUsecs,   \* how far the clocks may go in a step
    MaxTime, MaxLaps

VARIABLES
    args, removing,          \* what parse_arguments is called with
    stage_, q, values, argv, \* and what it does
    unit, time, start_, lap_start_, laps, told   \* a timer

argumentVars == <<args, removing, stage_, q, values, argv>>
timerVars    == <<unit, time, start_, lap_start_, laps, told>>

-----------------------------------------------------------------------------
(* Arguments.  A text is what it has between its commas, perhaps in quotes; *)
(* an argument is a text, or -key, -nokey or -key=text, with one dash or    *)
(* with two.                                                                *)

Text(pieces)        == [pieces |-> pieces, quoted |-> FALSE]
Quoted(pieces)      == [pieces |-> pieces, quoted |-> TRUE]
Plain(text)         == [form |-> "plain", key |-> "", text |-> text]
Option(key)         == [form |-> "option", key |-> key, text |-> Text(<<"-" \o key>>)]
No(key)             == [form |-> "no", key |-> key, text |-> Text(<<"-no" \o key>>)]
Assigned(key, text) == [form |-> "assigned", key |-> key, text |-> text]
Help                == Option("help")

\* What a handler is given: with its quotes, unless they come right after the = sign.
Stripped(text) == text.pieces
Raw(text) ==
    LET p == text.pieces
    IN  IF ~ text.quoted THEN p
        ELSE [i \in DOMAIN p |-> (IF i = 1 THEN "'" ELSE "") \o p[i] \o (IF i = Len(p) THEN "'" ELSE "")]

\* An argument as the value of the one before; what a whole -key=text is for then does
\* not matter, as it begins with a dash.
AsText(a) == IF a.form = "assigned" THEN <<"-" \o a.key>> ELSE Raw(a.text)

\* Nothing comes of a text that begins with a comma, and a comma at the end counts for
\* nothing.
Explode(p) ==
    CASE p[1] = ""      -> <<>>
      [] p[Len(p)] = "" -> SubSeq(p, 1, Len(p) - 1)
      [] OTHER          -> p

Elements(s) == {s[i] : i \in DOMAIN s}
Numbers     == {"0", "1", "2"}
True        == {"1", "t", "true", "yes", "y"}
False       == {"0", "f", "false", "no", "n"}

\* What becomes of a value, in a set that is empty if the text cannot be parsed.
Parsed(type, old, p) ==
    LET all == Explode(p)
    IN  CASE type = "number"     -> IF Len(p) = 1 /\ p[1] \in Numbers THEN {p[1]} ELSE {}
          [] type = "boolean"    -> IF Len(p) = 1 /\ p[1] \in True \cup False THEN {p[1] \in True} ELSE {}
          [] type = "text"       -> {p}
          [] type = "set"        -> IF Elements(all) \subseteq Numbers THEN {old \cup Elements(all)} ELSE {}
          [] type = "list"       -> IF Elements(all) \subseteq Numbers THEN {old \o all} ELSE {}
          [] type = "properties" -> {old \cup Elements(all)}

Default(type) ==
    CASE type = "number" -> "0" [] type = "boolean" -> FALSE [] type = "text" -> <<"">>
      [] type = "list" -> <<>> [] OTHER -> {}

\* The matcher of a handler takes no or one more argument.
IsFlag(a)    == a.form \in {"option", "no"} /\ a.key \in DOMAIN Types /\ Types[a.key] = "boolean"
TakesNext(a) == a.form = "option" /\ a.key \in DOMAIN Types /\ Types[a.key] # "boolean"
HasText(a)   == a.form = "assigned" /\ a.key \in DOMAIN Types
IsKnown(a)   == IsFlag(a) \/ HasText(a) \/ TakesNext(a)

ArgumentsInit(lines) ==
    /\ args \in lines /\ removing \in BOOLEAN
    /\ stage_ = "called" /\ q = args /\ argv = args
    /\ values = [k \in DOMAIN Types |-> Default(Types[k])]

\* Help is asked for, wherever it stands, or all arguments are looked at.
ShowHelp ==
    /\ stage_ = "called" /\ Help \in Elements(args) /\ stage_' = "help"
    /\ UNCHANGED <<args, removing, q, values, argv>>

BeginParsing ==
    /\ stage_ = "called" /\ Help \notin Elements(args) /\ stage_' = "parsing"
    /\ argv' = IF removing THEN <<>> ELSE argv
    /\ UNCHANGED <<args, removing, q, values>>

\* The handler's value is set, or the program ends with an error.
Give(key, p) ==
    LET results == Parsed(Types[key], values[key], p)
    IN  IF results = {} THEN stage_' = "error" /\ UNCHANGED values
        ELSE /\ \E new \in results : values' = [values EXCEPT ![key] = new]
             /\ UNCHANGED stage_

TakeFlag ==
    /\ stage_ = "parsing" /\ q # <<>> /\ IsFlag(Head(q))
    /\ Give(Head(q).key, IF Head(q).form = "no" THEN <<"0">> ELSE <<"1">>)
    /\ q' = Tail(q) /\ UNCHANGED <<args, removing, argv>>

TakeAssigned ==
    /\ stage_ = "parsing" /\ q # <<>> /\ HasText(Head(q))
    /\ Give(Head(q).key, Stripped(Head(q).text))
    /\ q' = Tail(q) /\ UNCHANGED <<args, removing, argv>>

TakeNext ==
    /\ stage_ = "parsing" /\ Len(q) >= 2 /\ TakesNext(Head(q))
    /\ Give(Head(q).key, AsText(q[2]))
    /\ q' = Tail(Tail(q)) /\ UNCHANGED <<args, removing, argv>>

\* Of an empty list the front is taken: nothing is known of what comes then.
TakeMissing ==
    /\ stage_ = "parsing" /\ Len(q) = 1 /\ TakesNext(Head(q))
    /\ stage_' = "undefined" /\ UNCHANGED <<args, removing, q, values, argv>>

\* Broken: what no handler knows is lost.
LoseUnknown ==
    /\ stage_ = "parsing" /\ q # <<>> /\ ~ IsKnown(Head(q))
    /\ q' = Tail(q) /\ UNCHANGED <<args, removing, stage_, values, argv>>

KeepUnknown ==
    /\ stage_ = "parsing" /\ q # <<>> /\ ~ IsKnown(Head(q))
    /\ argv' = IF removing THEN Append(argv, Head(q)) ELSE argv
    /\ q' = Tail(q) /\ UNCHANGED <<args, removing, stage_, values>>

EndParsing ==
    /\ stage_ = "parsing" /\ q = <<>> /\ stage_' = "parsed"
    /\ UNCHANGED <<args, removing, q, values, argv>>

ArgumentsNext ==
    \/ ShowHelp \/ BeginParsing \/ TakeFlag \/ TakeAssigned \/ TakeNext \/ TakeMissing
    \/ KeepUnknown \/ EndParsing

\* arguments.hpp and matcher.hpp: when all is parsed the program's arguments are those
\* that no handler knows, in their order, and a value is what the last of its options
\* says, or all of them if it is a container.  Nothing is said of a key that is given a
\* VALUE in quotes as an argument of its own: see KeyValueIsKeyEqualsValue.  Help
\* changes nothing.
ArgumentsHold ==
    LET n == Len(args)
        taken[i \in 0 .. n] == i > 1 /\ TakesNext(args[i - 1]) /\ ~ taken[i - 1]
        unknown == {i \in 1 .. n : ~ taken[i] /\ ~ IsKnown(args[i])}
        Of(k)   == {i \in 1 .. n : ~ taken[i] /\ IsKnown(args[i]) /\ args[i].key = k}
        InQuotes(k) == \E i \in Of(k) : TakesNext(args[i]) /\ args[i + 1].text.quoted
        Said(i) == IF args[i].form = "assigned" THEN args[i].text.pieces ELSE AsText(args[i + 1])
        Holds(k, of, last) ==
            LET joined[i \in 0 .. n] ==
                    IF i = 0 THEN <<>>
                    ELSE joined[i - 1] \o (IF i \in of THEN Explode(Said(i)) ELSE <<>>)
            IN  CASE Types[k] = "boolean" ->
                       values[k] = IF args[last].form = "assigned" THEN Said(last)[1] \in True
                                   ELSE args[last].form = "option"
                  [] Types[k] = "number" -> <<values[k]>> = Said(last)
                  [] Types[k] = "text"   -> values[k] = Said(last)
                  [] Types[k] = "list"   -> values[k] = joined[n]
                  [] OTHER               -> values[k] = Elements(joined[n])
    IN  /\ stage_ \in {"called", "help"} => q = args
        /\ stage_ = "help" => argv = args /\ \A k \in DOMAIN Types : values[k] = Default(Types[k])
        /\ stage_ = "parsed" =>
             /\ Help \notin Elements(args)
             /\ IF ~ removing THEN argv = args
                ELSE /\ Len(argv) = Cardinality(unknown)
                     /\ \A i \in unknown : argv[Cardinality({j \in unknown : j <= i})] = args[i]
             /\ \A k \in DOMAIN Types :
                  IF Of(k) = {} THEN values[k] = Default(Types[k])
                  ELSE InQuotes(k) \/ Holds(k, Of(k), CHOOSE i \in Of(k) : \A j \in Of(k) : j <= i)

\* arguments.hpp:92: -key VALUE is equivalent to --key=VALUE, so that two arguments
\* give the key what its parser makes of the VALUE after the = sign, or an error if it
\* makes nothing of it.
KeyValueIsKeyEqualsValue ==
    \A k \in DOMAIN Types :
        Len(args) = 2 /\ args[1] = Option(k) /\ TakesNext(args[1]) /\ args[2].form = "plain" =>
            LET results == Parsed(Types[k], Default(Types[k]), Stripped(args[2].text))
            IN  /\ stage_ = "error" => results = {}
                /\ stage_ = "parsed" => values[k] \in results

-----------------------------------------------------------------------------
(* Time.  C++ divides towards zero.                                         *)

Quot(a, b) == IF a < 0 THEN - ((- a) \div b) ELSE a \div b
Rem(a, b)  == a - b * Quot(a, b)

\* Half a unit and less is dropped, also of what is negative.
Rounded(value, factor) == Quot(value, factor) + IF Rem(value, factor) > factor \div 2 THEN 1 ELSE 0

Factor == [nsecs |-> 1, usecs |-> Thousand, msecs |-> Thousand * Thousand,
           secs |-> Thousand * Thousand * Thousand, mins |-> 60 * Thousand * Thousand * Thousand]
Second == Factor.secs

\* An interval is its length in nanoseconds, whatever its unit.
Interval(u, v)   == Factor[u] * v
In(u, interval)  == Rounded(interval, Factor[u])
Longer(i, j)     == i + j
Shorter(i, j)    == i - j
Repeated(i, v)   == i * v
Shared(i, v)     == Quot(i, v)

MsecToTs(t) == [sec |-> Quot(t, Second \div Factor.msecs), nsec |-> Rem(t, Second \div Factor.msecs) * Factor.msecs]
UsecToTs(t) == [sec |-> Quot(t, Second \div Factor.usecs), nsec |-> Rem(t, Second \div Factor.usecs) * Factor.usecs]
NsecToTs(t) == [sec |-> Quot(t, Second), nsec |-> Rem(t, Second)]
TsToMsec(ts) == ts.sec * (Second \div Factor.msecs) + Rounded(ts.nsec, Factor.msecs)
TsToUsec(ts) == ts.sec * (Second \div Factor.usecs) + Rounded(ts.nsec, Factor.usecs)
TsToNsec(ts) == ts.sec * Second + ts.nsec

MsecToTv(t) == [sec |-> Quot(t, Second \div Factor.msecs), usec |-> Rem(t, Second \div Factor.msecs) * Thousand]
UsecToTv(t) == [sec |-> Quot(t, Second \div Factor.usecs), usec |-> Rem(t, Second \div Factor.usecs)]
NsecToTv(t) == [sec |-> Quot(t, Second), usec |-> Rounded(Rem(t, Second), Thousand)]
TvToMsec(tv) == tv.sec * (Second \div Factor.msecs) + Rounded(tv.usec, Thousand)
TvToUsec(tv) == tv.sec * (Second \div Factor.usecs) + tv.usec
TvToNsec(tv) == tv.sec * Second + tv.usec * Thousand

\* interval.hpp and time_utils.hpp: what is converted there and back is what it was, to
\* half of the coarser unit; rounding may leave a whole second in tv_usec.
TimesConvert(t) ==
    /\ TsToNsec(NsecToTs(t)) = t /\ TsToUsec(UsecToTs(t)) = t /\ TsToMsec(MsecToTs(t)) = t
    /\ TvToUsec(UsecToTv(t)) = t /\ TvToMsec(MsecToTv(t)) = t
    /\ TsToUsec(NsecToTs(t)) = In("usecs", t) /\ TvToUsec(NsecToTv(t)) = In("usecs", t)
    /\ TsToMsec(NsecToTs(t)) = In("msecs", t) /\ TvToNsec(UsecToTv(t)) = Interval("usecs", t)
    /\ NsecToTv(t).usec \in 0 .. Second \div Thousand /\ NsecToTs(t).nsec \in 0 .. Second - 1
    /\ In("msecs", t) - TvToMsec(NsecToTv(t)) \in 0 .. 1
    /\ \A u \in DOMAIN Factor :
         /\ In(u, Interval(u, t)) = t /\ In(u, Interval(u, - t)) = - t
         /\ 2 * (In(u, t) * Factor[u] - t) \in - Factor[u] .. Factor[u]
         /\ In(u, Shared(Repeated(Interval(u, t), 3), 3)) = t
         /\ In(u, Shorter(Longer(Interval(u, t), t), t)) = t

-----------------------------------------------------------------------------
(* A timer: the clock on the wall counts nanoseconds, that of the process,  *)
(* which may stand still, microseconds.  int64 stands for whole seconds.    *)

Clocks == {"wall", "process"}
Units  == {"usecs", "msecs", "int64"}

Converted(c, value) ==
    CASE unit = "int64" -> Quot(value, IF c = "wall" THEN Second ELSE Second \div Thousand)
      [] unit # "int64" /\ c = "wall"    -> Rounded(value, Factor[unit])
      [] unit # "int64" /\ c = "process" -> IF value < 0 THEN 0 ELSE Rounded(value * Thousand, Factor[unit])

Since(begin) == [c \in Clocks |-> Converted(c, time[c] - begin[c])]

TimerInit ==
    /\ unit \in Units
    /\ time = [c \in Clocks |-> 0] /\ start_ = time /\ lap_start_ = time
    /\ laps = <<>> /\ told = [c \in Clocks |-> 0]

Pass ==
    /\ time.wall < MaxTime
    /\ \E nsecs \in PassNsecs, usecs \in PassUsecs :
         time' = [wall |-> time.wall + nsecs, process |-> time.process + usecs]
    /\ UNCHANGED <<unit, start_, lap_start_, laps, told>>

Restart ==
    /\ laps # <<>>
    /\ start_' = time /\ lap_start_' = time /\ laps' = <<>> /\ UNCHANGED <<unit, time, told>>

Lap ==
    /\ Len(laps) < MaxLaps
    /\ told' = Since(lap_start_) /\ lap_start_' = time /\ laps' = Append(laps, told')
    /\ UNCHANGED <<unit, time, start_>>

Elapsed    == told' = Since(start_) /\ UNCHANGED <<unit, time, start_, lap_start_, laps>>
LapElapsed == told' = Since(lap_start_) /\ UNCHANGED <<unit, time, start_, lap_start_, laps>>

TimerNext == Pass \/ Restart \/ Lap \/ Elapsed \/ LapElapsed

\* wall_timer.hpp and process_timer.hpp: the laps since the timer was restarted follow
\* one another without a gap, so that together they are as long as what they are told
\* to have been, to half a unit each, or a unit where fractions are cut off; and with
\* what has elapsed since the last one they make up what has elapsed at all.
LapsFollow ==
    \A c \in Clocks :
        LET size == (IF unit = "int64" THEN Second ELSE Factor[unit])
            real == (lap_start_[c] - start_[c]) * (IF c = "process" THEN Thousand ELSE 1)
            sum[i \in 0 .. Len(laps)] == IF i = 0 THEN 0 ELSE sum[i - 1] + laps[i][c]
            error == sum[Len(laps)] * size - real
            left  == sum[Len(laps)] + Since(lap_start_)[c] - Since(start_)[c]
        IN  IF unit = "int64" THEN - error \in 0 .. Len(laps) * size /\ - left \in 0 .. Len(laps) + 1
            ELSE /\ 2 * error \in - Len(laps) * size .. Len(laps) * size
                 /\ 2 * left \in - (Len(laps) + 2) .. Len(laps) + 2

-----------------------------------------------------------------------------
(* Names.  Characters are numbers, of which 0 is found beyond the end.      *)

Space == 32
Nought == 48

CharAt(s, i)           == IF i > Len(s) THEN 0 ELSE s[i]
IsDigit(c)             == c \in 48 .. 57
Compare(c, d, less)    == IF less THEN c < d ELSE c > d
Least(S)               == CHOOSE x \in S : \A y \in S : x <= y
Skipped(s, i)          == Least({j \in i .. Len(s) + 1 : CharAt(s, j) \notin {Space, Nought}})
Digits(s, i)           == SubSeq(s, i, Least({j \in i .. Len(s) + 1 : ~ IsDigit(CharAt(s, j))}) - 1)

\* The longer of two numbers is the greater one, and of two as long that with the
\* greater digit where they differ first: 1 if the first comes before, -1 if after.
CompareToRight(n, m, less) ==
    LET differ == {k \in DOMAIN n : n[k] # m[k]}
    IN  CASE Len(n) # Len(m) -> IF less = (Len(n) < Len(m)) THEN 1 ELSE -1
          [] Len(n) = Len(m) /\ differ = {} -> 0
          [] OTHER -> IF Compare(n[Least(differ)], m[Least(differ)], less) THEN 1 ELSE -1

LexicographicallyBefore(a, b, less) ==
    \E k \in 1 .. Len(b) :
        /\ k <= Len(a) + 1 /\ \A j \in 1 .. k - 1 : a[j] = b[j]
        /\ k = Len(a) + 1 \/ Compare(a[k], b[k], less)

\* From the places i and j on.  After two numbers that are the same the next character
\* of both is passed over; if there is none in one of them, what lies beyond is read.
RECURSIVE NaturallyBefore(_, _, _, _, _)
NaturallyBefore(a, b, i, j, less) ==
    IF i > Len(a) + 1 \/ j > Len(b) + 1 THEN "undefined"
    ELSE LET i0 == Skipped(a, i)
             j0 == Skipped(b, j)
             ca == CharAt(a, i0)
             cb == CharAt(b, j0)
             numbers == IsDigit(ca) /\ IsDigit(cb)
             result == IF numbers THEN CompareToRight(Digits(a, i0), Digits(b, j0), less) ELSE 0
             i1 == i0 + (IF numbers THEN Len(Digits(a, i0)) ELSE 0)
             j1 == j0 + (IF numbers THEN Len(Digits(b, j0)) ELSE 0)
         IN  CASE result = 1  -> "before"
               [] result = -1 -> "not before"
               [] result = 0 /\ i1 = Len(a) + 1 /\ j1 = Len(b) + 1 ->
                    IF LexicographicallyBefore(a, b, less) THEN "before" ELSE "not before"
               [] result = 0 /\ ~ (i1 = Len(a) + 1 /\ j1 = Len(b) + 1) ->
                    IF Compare(ca, cb, less) THEN "before"
                    ELSE IF Compare(cb, ca, less) THEN "not before"
                    ELSE NaturallyBefore(a, b, i1 + 1, j1 + 1, less)

IsNumber(s) == s # <<>> /\ s[1] # Nought /\ \A k \in DOMAIN s : IsDigit(s[k])
Number(s) ==
    LET upTo[k \in 0 .. Len(s)] == IF k = 0 THEN 0 ELSE 10 * upTo[k - 1] + s[k] - Nought
    IN  upTo[Len(s)]

\* natural_compare.hpp: where it is defined it is a total order, as sorting needs, and
\* puts numbers in their order.
NamesAreOrdered(name, names) ==
    \A less \in BOOLEAN : \E order \in {[p \in names \X names |-> NaturallyBefore(p[1], p[2], 1, 1, less)]} :
        \A b \in names :
            /\ order[name, b] = "undefined" <=> order[b, name] = "undefined"
            /\ order[name, b] # "undefined" =>
                 (order[name, b] = "before" <=> name # b /\ order[b, name] = "not before")
            /\ order[name, b] = "before" =>
                 \A c \in names : order[b, c] = "before" => order[name, c] \in {"before", "undefined"}
            /\ IsNumber(name) /\ IsNumber(b) /\ name # b =>
                 (order[name, b] = "before" <=> Compare(Number(name), Number(b), less))
=============================================================================
