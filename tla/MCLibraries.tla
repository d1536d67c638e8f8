---------------------------- MODULE MCLibraries -----------------------------
(* Instances for TLC of the algorithms of zi.  One of them is used in a     *)
(* behaviour, or the three that make strips out of a volume one after the   *)
(* other; the others stay as they were.                                     *)
EXTENDS BinaryHeap, Integers, FiniteSets, SequencesExt, TLC

VARIABLES
    used,    \* what is used
    \* MarchingCubes, Simplifier, TriStripper
    volume, at, vert, meshes,
    filled, mesh, heap, invalid, refusals,
    strip_stage, face_data, pair, valid, used_edges, degree, strip_heap, next, strips,
    operations,   \* how many the heap has had
    \* GraphAlgorithms
    stage, e, pair_, dist_, turn, matching,
    arcs, scc, root,
    p_, r_, sets_, together,
    \* Decompositions, and the operands of the other operations
    given, matrix, res, determinant, column, done,
    work,
    operands,
    \* DecisionTrees, Cache
    sample, tree, trees,
    owners, index_, counter_, clock, calls, touched, gone,
    \* Utilities
    args, removing, stage_, queue, values, argv,
    unit, time, start_, lap_start_, laps, told

cubeVars  == <<volume, at, vert, meshes>>
simVars   == <<filled, mesh, heap, invalid, refusals>>
stripVars == <<strip_stage, face_data, pair, valid, used_edges, degree, strip_heap, next, strips>>
surfaceVars == <<cubeVars, simVars, stripVars>>
heapVars  == <<queueVars, operations>>
bmVars    == <<stage, e, pair_, dist_, turn, matching>>
sccVars   == <<arcs, scc, root>>
dsVars    == <<p_, r_, sets_, together>>
invVars   == <<given, matrix, res, determinant, column, done>>
treeVars  == <<sample, tree, trees>>
cacheVars == <<owners, index_, counter_, clock, calls, touched, gone>>
argVars   == <<args, removing, stage_, queue, values, argv>>
timeVars  == <<unit, time, start_, lap_start_, laps, told>>
otherVars == <<bmVars, sccVars, dsVars, invVars, work, treeVars, cacheVars, argVars, timeVars>>
MCVars    == <<used, surfaceVars, heapVars, otherVars, operands>>

-----------------------------------------------------------------------------
(* Volumes: two cells in a row along each axis with whatever labels, and    *)
(* some larger ones.                                                        *)

Small == {<<2, 2, 3>>, <<2, 3, 2>>, <<3, 2, 2>>}

\* The voxels of some places bear label 1, those of others label 2.
Labelled(dims, ones, twos) ==
    LET Voxel(p) == (p[1] * dims[2] + p[2]) * dims[3] + p[3] + 1
    IN  [dims |-> dims,
         data |-> [i \in 1 .. dims[1] * dims[2] * dims[3] |->
                     CASE i \in {Voxel(p) : p \in ones} -> 1
                       [] i \in {Voxel(p) : p \in twos} -> 2
                       [] OTHER -> 0]]

\* A voxel in the middle, of which a closed surface comes (that no collapse of
\* is refused for its geometry).
Inner == Labelled(<<3, 3, 3>>, {<<1, 1, 1>>}, {})

\* Two on the outside, of which an open one comes.
Outer == Labelled(<<4, 3, 2>>, {<<1, 1, 0>>, <<2, 1, 0>>}, {})

\* Two neighbours with labels of their own.
TwoLabels == Labelled(<<3, 3, 4>>, {<<1, 1, 1>>}, {<<1, 1, 2>>})

Volumes ==
    {[dims |-> d, data |-> labels] : d \in Small, labels \in [1 .. 12 -> {0, 1}]}
        \cup {Inner, Outer, TwoLabels}

Cubes == INSTANCE MarchingCubes
Sim   == INSTANCE Simplifier WITH MaxRefusals <- 1
Strip == INSTANCE TriStripper WITH used <- used_edges

\* The faces of a mesh in the order of their numbers.
Faces(m) ==
    LET Nth(i) == CHOOSE f \in DOMAIN m.faces :
                      Cardinality({g \in DOMAIN m.faces : g < f}) = i - 1
    IN  [i \in 1 .. Cardinality(DOMAIN m.faces) |-> m.faces[Nth(i)]]

Surface ==
    \/ Cubes!Next /\ UNCHANGED <<simVars, stripVars>>
    \/ /\ at = <<>> /\ volume \in {Inner, Outer} /\ strip_stage = "idle"
       /\ \/ Sim!Fill(meshes[1]) \/ Sim!Prepare \/ Sim!EndOptimize
          \/ (\E d \in heap : Sim!Iterate(d)) /\ (volume = Inner => refusals' = 0)
       /\ UNCHANGED <<cubeVars, stripVars>>
    \/ /\ filled # <<>> /\ heap = {} /\ Strip!Strip(Faces(mesh))
       /\ UNCHANGED <<cubeVars, simVars>>
    \/ Strip!Next /\ UNCHANGED <<cubeVars, simVars>>

-----------------------------------------------------------------------------
(* Heap and graphs.                                                         *)

SixValues == 1 :> 1 @@ 2 :> 4 @@ 3 :> 2 @@ 4 :> 5 @@ 5 :> 5 @@ 6 :> 3
MaxOperations == 11

ASSUME HeapAssumption == BinaryHeapAssumption

\* Of the keys that are missing the least is inserted.
QueueUp ==
    \/ /\ operations < MaxOperations /\ operations' = operations + 1
       /\ \/ \E k \in Keys : \/ (\A j \in 1 .. k - 1 : j \in DOMAIN keymap_) /\ Insert(k)
                             \/ EraseKey(k)
          \/ Pop \/ Clear
    \/ GoesOn /\ UNCHANGED operations

Graph == INSTANCE GraphAlgorithms WITH Left <- 3, Right <- 3, Size <- 3, SetSize <- 5

-----------------------------------------------------------------------------
(* Linear algebra.  The elements are drawn from a short list, so that they  *)
(* stay small and some matrices are singular.                               *)

Alg == INSTANCE Quaternions

Element(i) == <<0, 1, -1, 1, 0, 2, -1, 1, 0, -2, 1>>[(i % 11) + 1]
Drawn(k, seed) ==
    [i \in 0 .. k - 1 |->
        Alg!Whole(Element(seed * (i + 1) * (i + 3) + i * i + (seed \div 11) * (i + 2)))]

Dec == INSTANCE Decompositions
         WITH Samples <- {Drawn(n * n, seed) : n \in 1 .. 5, seed \in 1 .. 60}

\* Of length a root of which can be taken, for rotations.
Rotations == {[i \in 0 .. 3 |-> Alg!Whole(q[i])] : q \in [0 .. 3 -> {-1, 0, 1}] \cup [0 .. 3 -> {0, 3, 4}]}

\* A corner, a step of flat faces, and a fold of two faces in a tilted plane, all
\* with sides and areas that are fractions.
Point(x, y, z) == Alg!Vec(<<Alg!Whole(x), Alg!Whole(y), Alg!Whole(z)>>)
Tilted(x, y)   == Alg!Vec(<<Alg!Fraction(4 * x, 5), Alg!Whole(y), Alg!Fraction(5 + 3 * x, 5)>>)
Corner == [faces  |-> <<<<1, 2, 3>>, <<1, 3, 4>>, <<1, 4, 2>>>>,
           points |-> <<Point(1, 0, 0), Point(2, 0, 0), Point(1, 1, 0), Point(1, 0, 2)>>]
Step   == [faces  |-> <<<<1, 2, 3>>, <<2, 4, 3>>, <<4, 2, 5>>, <<5, 6, 4>>>>,
           points |-> <<Point(0, 0, 0), Point(1, 0, 0), Point(0, 2, 0), Point(1, 2, 0),
                        Point(1, 0, 1), Point(1, 2, 1)>>]
Flat   == [faces  |-> <<<<1, 2, 3>>, <<4, 1, 3>>>>,
           points |-> <<Tilted(0, 0), Tilted(1, 0), Tilted(1, 2), Tilted(0, 2)>>]

Quads == INSTANCE Quadrics

\* What is decomposed is put together from what should come of it, so that the lengths
\* asked for are fractions: mirrors, turns in a plane, and matrices with zeros below
\* the diagonal, off two diagonals, or above them.
Mirror(v) ==
    LET v2 == Alg!SquaredLength(v)
    IN  IF v2 = Alg!Zero THEN Alg!Eye(Alg!Size(v))
        ELSE Alg!MatDiff(Alg!Eye(Alg!Size(v)),
                         Alg!MatScaled(Alg!OuterProduct(v, v), Alg!Fraction(2 * v2[2], v2[1])))
Turn(n, i, j) ==
    Alg!Mat(n, [p \in Alg!Indices(n) |->
        CASE p \in {<<i, i>>, <<j, j>>} -> Alg!Fraction(3, 5)
          [] p = <<i, j>> -> Alg!Fraction(4, 5)
          [] p = <<j, i>> -> Alg!Fraction(-4, 5)
          [] OTHER -> IF p[1] = p[2] THEN Alg!One ELSE Alg!Zero])
DrawnWhere(places, n, seed) ==
    LET Off(p) == p[2] \notin {p[1], p[1] + 1}
        x(p)   == Drawn(16, seed)[4 * p[1] + p[2]]
    IN  Alg!Mat(n, [p \in Alg!Indices(n) |->
            IF p \notin places THEN Alg!Zero
            ELSE IF Off(p) \/ n = 2 \/ x(p) # Alg!Zero THEN x(p) ELSE Alg!Whole(2)])

Triangle(n)   == {p \in Alg!Indices(n) : p[1] <= p[2]}
TwoDiagonals(n) == {p \in Alg!Indices(n) : p[2] \in {p[1], p[1] + 1}}
Hessenberg(n) == {p \in Alg!Indices(n) : p[2] <= p[1] + 1}

AnyMirror(n, seed) == Mirror(Drawn(n, seed))
LowMirror(n, seed) == Mirror([Drawn(n, seed + 5) EXCEPT ![0] = Alg!Zero])
TwoMirrors(n, s)   == Alg!Product(Alg!Product(AnyMirror(n, s), AnyMirror(n, s + 9)),
                                  DrawnWhere(Triangle(n), n, s + 3))
Turned(q, d)       == Alg!Product(Alg!Product(q, Alg!MakeDiag(d)), Alg!Trans(q))
Decomposed(of, matrices) == [of : {of}, given : matrices]
OfSeeds(F(_, _))   == {F(n, s) : n \in 2 .. 4, s \in 1 .. 12}

DecompositionStarts ==
    LET Sides(n, s) == Alg!Product(AnyMirror(n, s),
                           Alg!Product(DrawnWhere(TwoDiagonals(n), n, s), LowMirror(n, s)))
        Rows(n, s)  == Alg!Product(DrawnWhere(Hessenberg(n), n, s), LowMirror(n, s))
        Turns       == {Turn(4, 0, 1), Alg!Product(Turn(4, 0, 2), Turn(4, 1, 3)),
                        Alg!Product(Turn(4, 0, 3), Turn(4, 1, 2))}
    IN  UNION {Decomposed(of, OfSeeds(TwoMirrors)) :
                   of \in {"householder", "just R", "householder 2", "inverse"}}
        \cup Decomposed("left householder", {Alg!Trans(m) : m \in OfSeeds(TwoMirrors)})
        \cup Decomposed("bidiagonalize", OfSeeds(Sides))
        \cup Decomposed("householder 3", OfSeeds(Rows))
        \cup Decomposed("jacobi", {Turned(q, Drawn(4, s)) : q \in Turns, s \in 1 .. 12})
        \cup Decomposed("jacobi",
                 {Turned(Alg!Product(Turn(3, 0, 1), Turn(3, 1, 2)), Point(a, b, c)) :
                      a \in {2, 3, -2}, b \in -1 .. 1, c \in -1 .. 1})

-----------------------------------------------------------------------------
(* Transforms, trees and caches.                                            *)

Trans == INSTANCE Transforms

Signal(n) == [i \in 0 .. n - 1 |-> Trans!Complex((n + 3) * (i + 1) * (i + 3) + 7 * i * i, n * i * i + 3 * i + 5)]
Word(bytes, seed) == [i \in 0 .. bytes - 1 |-> (seed * (i + 1) * (i + 3) + i) % 256]

Plane(x, y) == 0 :> x @@ 1 :> y
TreeOf(patterns, positives, negatives, splitter, sub, weight, n) ==
    [patterns |-> patterns, positives |-> positives, negatives |-> negatives,
     splitter |-> splitter, sub |-> sub, weight |-> weight, trees |-> n]
Splitters == {"gini", "gain", "mmdt"}

\* Two of each sort, anywhere in a square; six with ties, also with some of the
\* columns and with a weight; and forests of two trees.
Bits  == {p \in [1 .. 4 -> {Plane(x, y) : x, y \in 0 .. 1}] : p[1] = Plane(0, 0) \/ p[3] = Plane(0, 1)}
Six   == <<Plane(0, 1), Plane(2, 1), Plane(1, 0), Plane(1, 2), Plane(0, 2), Plane(2, 1)>>
Three == <<Plane(0, 1), Plane(1, 0), Plane(2, 2)>>
TreeSamples ==
    {TreeOf(p, <<1, 2>>, <<3, 4>>, sp, 2, 1, 0) : p \in Bits, sp \in Splitters}
        \cup {TreeOf(Six, <<1, 2, 3>>, <<4, 5, 6>>, sp, sub, 1, 0) : sp \in Splitters, sub \in 1 .. 2}
        \cup {TreeOf(Six, <<1, 6, 3, 4>>, <<2, 5>>, "gini", sub, 2, 0) : sub \in 1 .. 2}
        \cup {TreeOf(Three, <<1, 2>>, <<3>>, sp, sub, 1, 1) : sp \in Splitters, sub \in 1 .. 2}
        \cup {TreeOf(Three, <<1>>, <<3>>, sp, 1, 1, 2) : sp \in Splitters}

Trees == INSTANCE DecisionTrees WITH Samples <- TreeSamples

Caching == INSTANCE Cache WITH Groups <- {"a", "b"}, MaxTokens <- 3, MaxClock <- 2, MaxCalls <- 2

-----------------------------------------------------------------------------
(* Helpers.  A thousand is ten; every sort of argument, and what is said of *)
(* a value again.                                                           *)

Handlers == [count |-> "number", flag |-> "boolean", name |-> "text", ids |-> "set", list |-> "list",
             with |-> "properties"]

Util == INSTANCE Utilities
          WITH Types <- Handlers, Thousand <- 10, PassNsecs <- {456, 1004}, PassUsecs <- {0, 56},
               MaxTime <- 1000, MaxLaps <- 2, q <- queue

Arguments ==
    {Util!Plain(Util!Text(p)) : p \in {<<"x">>, <<"1">>, <<"", "2">>}}
        \cup {Util!Plain(Util!Quoted(<<"1">>)), Util!Help, Util!No("flag"), Util!No("count")}
        \cup {Util!Option(k) : k \in {"count", "flag", "name", "ids", "other"}}
        \cup {Util!Assigned("flag", Util!Text(p)) : p \in {<<"no">>, <<"x">>}}
        \cup {Util!Assigned("count", Util!Quoted(<<"2">>)), Util!Assigned("list", Util!Text(<<"2", "1", "">>)),
              Util!Assigned("ids", Util!Text(<<"0", "1">>)), Util!Assigned("with", Util!Text(<<"x", "y">>))}
CommandLines == UNION {[1 .. n -> Arguments] : n \in 0 .. 3}

\* Names of up to two of a space, 0, 1 and a; and some longer ones.
Names ==
    UNION {[1 .. n -> {32, 48, 49, 97}] : n \in 0 .. 2}
        \cup {<<50>>, <<49, 50>>, <<49, 48, 50>>, <<97, 49, 50>>, <<97, 50, 98>>, <<97, 50, 98, 97>>,
              <<97, 50, 97, 98>>, <<97, 48, 50, 98>>, <<97, 32, 49, 97>>, <<97, 48, 49, 48, 97>>}

-----------------------------------------------------------------------------
Operands ==
    {[seed |-> s, quaternion |-> Drawn(4, s + 17)] : s \in 1 .. 40}
        \cup [seed : {3}, quaternion : Rotations] \cup {Corner, Step, Flat}
        \cup [signal : {2, 3, 4, 5, 6, 7, 8, 9, 16}] \cup [word : {1, 2, 4, 8}, width : 1 .. 8]

-----------------------------------------------------------------------------
MCInit ==
    /\ used \in {"surface", "heap", "matching", "components", "sets", "inverse", "algebra",
                "decomposition", "trees", "cache", "arguments", "timer", "names", "times"}
    /\ Sim!Init /\ Strip!Init /\ Init /\ operations = 0 /\ Graph!SetsInit
    /\ IF used = "surface" THEN Cubes!Init
       ELSE volume = Inner /\ at = <<>> /\ vert = <<>> /\ meshes = <<>>
    /\ IF used = "matching" THEN Graph!MatchingInit
       ELSE stage = "done" /\ e = {} /\ pair_ = <<>> /\ dist_ = <<>> /\ turn = 1 /\ matching = 0
    /\ IF used = "components" THEN Graph!ComponentsInit
       ELSE arcs = {} /\ scc = <<>> /\ root = 0
    /\ IF used = "inverse" THEN Dec!MatInit
       ELSE given = <<>> /\ matrix = <<>> /\ res = <<>> /\ determinant = <<>>
            /\ column = 0 /\ done = "no"
    /\ IF used = "decomposition" THEN Dec!DecompositionInit(DecompositionStarts) ELSE work = <<>>
    /\ CASE used = "algebra" -> operands \in Operands
         [] used = "names"   -> operands \in Names
         [] used = "times"   -> operands \in 0 .. 2500
         [] OTHER            -> operands = <<>>
    /\ IF used = "trees" THEN Trees!TreeInit ELSE sample = <<>> /\ tree = <<>> /\ trees = <<>>
    /\ IF used = "cache" THEN Caching!CacheInit
       ELSE owners = "ask" /\ index_ = <<>> /\ counter_ = 0 /\ clock = 0 /\ calls = <<>>
            /\ touched = <<>> /\ gone = <<>>
    /\ IF used = "arguments" THEN Util!ArgumentsInit(CommandLines)
       ELSE args = <<>> /\ removing = TRUE /\ stage_ = "parsed" /\ queue = <<>> /\ values = <<>> /\ argv = <<>>
    /\ IF used = "timer" THEN Util!TimerInit
       ELSE unit = "usecs" /\ time = <<>> /\ start_ = <<>> /\ lap_start_ = <<>> /\ laps = <<>> /\ told = <<>>

MCNext ==
    /\ UNCHANGED <<used, operands>>
    /\ \/ /\ used = "surface" /\ Surface
          /\ UNCHANGED <<heapVars, bmVars, sccVars, dsVars, invVars, work, treeVars, cacheVars, argVars, timeVars>>
       \/ /\ used = "heap" /\ QueueUp
          /\ UNCHANGED <<surfaceVars, bmVars, sccVars, dsVars, invVars, work, treeVars, cacheVars, argVars, timeVars>>
       \/ /\ used = "matching" /\ Graph!MatchingNext
          /\ UNCHANGED <<surfaceVars, heapVars, sccVars, dsVars, invVars, work, treeVars, cacheVars, argVars, timeVars>>
       \/ /\ used = "components" /\ Graph!ComponentsNext
          /\ UNCHANGED <<surfaceVars, heapVars, bmVars, dsVars, invVars, work, treeVars, cacheVars, argVars, timeVars>>
       \/ /\ used = "sets" /\ Graph!SetsNext
          /\ UNCHANGED <<surfaceVars, heapVars, bmVars, sccVars, invVars, work, treeVars, cacheVars, argVars, timeVars>>
       \/ /\ used = "inverse" /\ Dec!MatNext
          /\ UNCHANGED <<surfaceVars, heapVars, bmVars, sccVars, dsVars, work, treeVars, cacheVars, argVars, timeVars>>
       \/ /\ used = "decomposition" /\ Dec!DecompositionNext
          /\ UNCHANGED <<surfaceVars, heapVars, bmVars, sccVars, dsVars, invVars, treeVars, cacheVars, argVars, timeVars>>
       \/ /\ used = "trees" /\ Trees!TreeNext
          /\ UNCHANGED <<surfaceVars, heapVars, bmVars, sccVars, dsVars, invVars, work, cacheVars, argVars, timeVars>>
       \/ /\ used = "cache" /\ Caching!CacheNext
          /\ UNCHANGED <<surfaceVars, heapVars, bmVars, sccVars, dsVars, invVars, work, treeVars, argVars, timeVars>>
       \/ /\ used = "arguments" /\ Util!ArgumentsNext
          /\ UNCHANGED <<surfaceVars, heapVars, bmVars, sccVars, dsVars, invVars, work, treeVars, cacheVars, timeVars>>
       \/ /\ used = "timer" /\ Util!TimerNext
          /\ UNCHANGED <<surfaceVars, heapVars, bmVars, sccVars, dsVars, invVars, work, treeVars, cacheVars, argVars>>

MCSpec == MCInit /\ [][MCNext]_MCVars

-----------------------------------------------------------------------------
\* marching_cubes.hpp, quadratic_simplifier.hpp and tri_mesh.hpp,
\* tri_stripper.hpp: see the modules.  No step of the stripper touches the mesh.
CubesCloseTheSurface   == used = "surface" => Cubes!CubesCloseTheSurface
SurfaceIsKept          == used = "surface" /\ strip_stage = "idle" => Sim!SurfaceIsKept
StripsCoverTheSurface  == used = "surface" => Strip!StripsCoverTheSurface

\* bipartite_matching.hpp, strongly_connected_components.hpp and
\* disjoint_sets.hpp solve what they are given, the containers of zi/cache
\* forget what was used longest ago, and arguments, times and names are taken as
\* they are meant: see the modules.
ToolsDoTheirWork ==
    /\ used = "matching" => Graph!MatchingIsLargest
    /\ used = "components" => Graph!ComponentsAreRight
    /\ Graph!SetsAreAsJoined
    /\ Caching!TheOldestIsEvicted
    /\ used = "arguments" => Util!ArgumentsHold
    /\ used = "timer" => Util!LapsFollow
    /\ used = "times" => Util!TimesConvert(operands)
    /\ used = "names" => Util!NamesAreOrdered(operands, Names)

\* zi/zargs/arguments.hpp: -key VALUE is equivalent to --key=VALUE.
KeyValueIsKeyEqualsValue == used = "arguments" => Util!KeyValueIsKeyEqualsValue

\* decision_tree.hpp, random_forest.hpp and the splitters: see DecisionTrees.
TreesDecideWell == used = "trees" => Trees!TreesDecideWell

\* invert.hpp makes inverses, householder.hpp and jacobi.hpp take matrices apart; vec_functions.hpp, mat_functions.hpp,
\* quat_functions.hpp and quadratic.hpp keep the laws that their callers rely on;
\* the transforms of zi/math are the sums that define them, and bits are reversed.
\* The slips (VectorsSlip, MatricesSlip, QuaternionsSlip, QMetricSlips, Fft8Slips) are
\* no laws: they say how far the code departs from them.
\* See Decompositions, Matrices, Quaternions, Quadrics and Transforms.
AlgebraIsExact ==
    /\ used = "inverse" => Dec!InversesAreExact
    /\ used = "decomposition" => Dec!DecompositionsHold
    /\ used = "algebra" =>
        CASE "seed" \in DOMAIN operands ->
               \A s \in {operands.seed}, q \in {operands.quaternion} :
                   /\ Alg!QuaternionsHold(Drawn(4, s), q, Drawn(4, 2 * s + 5))
                   /\ Alg!QuaternionsSlip(q)
                   /\ q = Drawn(4, s + 17) =>
                        /\ Alg!VectorsHold(Drawn(4, s), q, Drawn(4, 2 * s + 5))
                        /\ Alg!VectorsSlip(Drawn(4, s), q, Drawn(4, 2 * s + 5))
                        /\ \A n \in 2 .. 4 :
                             /\ Alg!MatricesHold(Drawn(n * n, s), Drawn(n * n, s + 17),
                                                 Drawn(n, 2 * s + 5), Drawn(n, 3 * s + 1))
                             /\ Alg!MatricesSlip(Drawn(n * n, s), Drawn(n * n, s + 17),
                                                 Drawn(n, 2 * s + 5), Drawn(n, 3 * s + 1))
          [] "signal" \in DOMAIN operands ->
               /\ Trans!TransformsAreSums(Signal(operands.signal))
               /\ Trans!Fft8Slips(Signal(operands.signal))
               /\ operands.signal = 2 => Trans!LogarithmsRoundUp(1)
          [] "word" \in DOMAIN operands ->
               /\ Cubes!CoordinatesUnpack(operands.width)
               /\ \A seed \in {operands.width + 8 * k : k \in 0 .. 15} :
                     Trans!BitsAreReversed(Word(operands.word, seed), operands.width * operands.word)
          [] OTHER ->
               Quads!QuadricsHold(operands.faces, operands.points,
                                  {Point(x, y, z) : x, y, z \in {-1, 0, 2}})
=============================================================================
