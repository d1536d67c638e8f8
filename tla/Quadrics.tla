------------------------------ MODULE Quadrics ------------------------------
(* The error a simplifier gives to a point: zi/mesh/detail/quadratic.hpp,   *)
(* how quadratic_simplifier.hpp makes and uses it, and the metric of any    *)
(* dimension in zi/mesh/detail/qmetric.hpp.                                 *)
EXTENDS Matrices

\* The squared distance from the plane ax + by + cz + d = 0, written out.
Quadratic(n, d) ==
    [a2 |-> n[0] \otimes n[0], ab |-> n[0] \otimes n[1], ac |-> n[0] \otimes n[2], ad |-> n[0] \otimes d,
     b2 |-> n[1] \otimes n[1], bc |-> n[1] \otimes n[2], bd |-> n[1] \otimes d,
     c2 |-> n[2] \otimes n[2], cd |-> n[2] \otimes d, d2 |-> d \otimes d]

QuadraticOf(a) ==
    [a2 |-> At(a, 0, 0), ab |-> At(a, 0, 1), ac |-> At(a, 0, 2), ad |-> At(a, 0, 3),
     b2 |-> At(a, 1, 1), bc |-> At(a, 1, 2), bd |-> At(a, 1, 3),
     c2 |-> At(a, 2, 2), cd |-> At(a, 2, 3), d2 |-> At(a, 3, 3)]

Cleared         == Quadratic(Filled(3, Zero), Zero)
Added(q, r)     == [c \in DOMAIN q |-> q[c] \oplus r[c]]
TakenAway(q, r) == [c \in DOMAIN q |-> q[c] \ominus r[c]]
Weighted(q, x)  == [c \in DOMAIN q |-> q[c] \otimes x]

VectorOf(q)   == Vec(<<q.ad, q.bd, q.cd>>)
Tensor(q)     == Vec(<<q.a2, q.ab, q.ac, q.ab, q.b2, q.bc, q.ac, q.bc, q.c2>>)
Homogenous(q) == Vec(<<q.a2, q.ab, q.ac, q.ad, q.ab, q.b2, q.bc, q.bd,
                       q.ac, q.bc, q.c2, q.cd, q.ad, q.bd, q.cd, q.d2>>)

Evaluate(q, v) ==
    LET Twice(x) == Whole(2) \otimes x
        x == v[0]
        y == v[1]
        z == v[2]
    IN  Sum(4, Vec(<<
          x \otimes ((x \otimes q.a2) \oplus Twice(((y \otimes q.ab) \oplus (z \otimes q.ac)) \oplus q.ad)),
          y \otimes ((y \otimes q.b2) \oplus Twice((z \otimes q.bc) \oplus q.bd)),
          z \otimes ((z \otimes q.c2) \oplus Twice(q.cd)),
          q.d2>>))

Failed == [ok |-> FALSE]
Found(v) == [ok |-> TRUE, at |-> v]
FoundOr(found, v) == IF found.ok THEN found.at ELSE v

\* The point where the gradient, the tensor times it plus v, is zero.
Solved(inverse, v) ==
    IF inverse.det = Zero THEN Failed ELSE Found(Opposite(MatVec(inverse.mat, v)))

\* Broken: the point found is on the other side of the origin.
OptimizeUnsigned(q) == Solved(Invert3(Tensor(q)), Opposite(VectorOf(q)))

\* Where the error is least, if there is one such point.
Optimize(q) == Solved(Invert3(Tensor(q)), VectorOf(q))

\* A point of the segment from v2 to v1: the step from v2 is four times the one
\* to the least error, cut off at the ends.
OptimizeOnSegment(q, v1, v2) ==
    LET d     == Diff(v1, v2)
        av2   == MatVec(Tensor(q), v2)
        ad    == MatVec(Tensor(q), d)
        denom == Dot(d, ad)
        step  == Minus(((Whole(2) \otimes Dot(VectorOf(q), d)) \oplus Dot(av2, d)) \oplus Dot(v2, ad))
                     \otimes (Whole(2) \oslash denom)
    IN  IF denom = Zero THEN Failed
        ELSE Found(Plus(Scaled(d, Clamp(Vec(<<step>>), Zero, One)[0]), v2))

-----------------------------------------------------------------------------
(* quadratic_simplifier.hpp.  Its "area" is what normalize() returns: one   *)
(* over the length of the cross product.                                    *)

FaceQuadratic(v0, v1, v2) ==
    LET a == Normalize(Cross3(Diff(v1, v0), Diff(v2, v0)))
    IN  Weighted(Quadratic(a.vec, Minus(Dot(a.vec, v0))), Whole(2) \otimes a.returned)

RECURSIVE GenerateQuadratics(_, _)
GenerateQuadratics(faces, points) ==
    IF faces = <<>> THEN [v \in DOMAIN points |-> Cleared]
    ELSE LET f    == Head(faces)
             rest == GenerateQuadratics(Tail(faces), points)
             q    == FaceQuadratic(points[f[1]], points[f[2]], points[f[3]])
         IN  [v \in DOMAIN points |-> IF v \in {f[i] : i \in 1 .. 3} THEN Added(rest[v], q) ELSE rest[v]]

\* What add_to_heap puts into the heap for the edge between two points.
HeapEntry(q0, q1, p0, p1) ==
    LET q   == Added(q0, q1)
        Valued(pos) == [optimal |-> pos, value |-> Evaluate(q, pos)]
    IN  Valued(FoundOr(Optimize(q),
                       FoundOr(OptimizeOnSegment(q, p0, p1), Scaled(Plus(p0, p1), <<1, 2>>))))

\* A fan is the points around an end of the edge, from the one across it on one
\* side to the one across it on the other; p is where the edge shrinks to.
FanFaces(fan) == {<<fan[i], fan[i + 1]>> : i \in 1 .. Len(fan) - 1}

\* No face of the fan around v turns over, or nearly, and they are not too many.
CheckInversion(v0, fan0, v1, fan1, p) ==
    LET TurnsOver(v, f) ==
            LET a == Diff(f[2], f[1])
            IN  Dot(Cross3(a, Diff(v, f[1])), Cross3(a, Diff(p, f[1]))) \prec <<1, 100>>
    IN  /\ \A f \in FanFaces(fan0) : ~TurnsOver(v0, f)
        /\ \A f \in FanFaces(fan1) : ~TurnsOver(v1, f)
        /\ Len(fan0) + Len(fan1) - 2 < 15

\* The square of a face's compactness, which is its area over the sum of its
\* squared sides, times four roots of three.
SquaredCompactness(f, p) ==
    LET c     == SquaredLength(Cross3(Diff(f[1], p), Diff(f[2], p)))
        sides == SquaredDistance(p, f[1]) \oplus SquaredDistance(f[1], f[2])
                     \oplus SquaredDistance(f[2], p)
    IN  (Whole(12) \otimes c) \oslash (sides \otimes sides)

CheckCompactness(fan0, fan1, p) ==
    \A f \in FanFaces(fan0) \cup FanFaces(fan1) : ~ SquaredCompactness(f, p) \prec <<1, 100>>

-----------------------------------------------------------------------------
(* qmetric.hpp: the metric of the plane through three points, from two      *)
(* vectors of length one in it.                                             *)

QMetric(p1, p2, p3) ==
    LET e1 == Normalize(Diff(p2, p1)).vec
        e  == Diff(p3, p1)
        e2 == Normalize(Diff(e, Scaled(e1, Dot(e1, e)))).vec
        l1 == Dot(p1, e1)
        l2 == Dot(p1, e2)
    IN  [tensor |-> MatDiff(MatDiff(Eye(Size(p1)), OuterProduct(e1, e1)), OuterProduct(e2, e2)),
         vector |-> Diff(Plus(Scaled(e1, l1), Scaled(e2, l2)), p1),
         offset |-> (Dot(p1, p1) \ominus (l1 \otimes l1)) \ominus (l2 \otimes l2)]

QMetricPlus(x, y) == [tensor |-> MatPlus(x.tensor, y.tensor), vector |-> Plus(x.vector, y.vector),
                      offset |-> x.offset \oplus y.offset]
QMetricScaled(x, c) == [tensor |-> MatScaled(x.tensor, c), vector |-> Scaled(x.vector, c),
                        offset |-> x.offset \otimes c]

\* Subtracting adds.
QMetricDiff(x, y)   == QMetricPlus(x, y)
QMetricCleared(n)   == [tensor |-> Scalar(n, Zero), vector |-> Filled(n, Zero), offset |-> Zero]

QMetricEvaluate(x, v) ==
    (Dot(v, MatVec(x.tensor, v)) \oplus (Dot(v, x.vector) \otimes Whole(2))) \oplus x.offset

QMetricOptimize(x) == Solved(Invert3(x.tensor), x.vector)

-----------------------------------------------------------------------------
\* A plane, and the metric of it, measure the distance from a point v; x is the
\* difference of v and a point of the plane with the normal n.
MeasuresDistance(plane, metric, n, x, v) ==
    /\ Evaluate(plane, v) = Dot(n, x) \otimes Dot(n, x)
    /\ QMetricEvaluate(metric, v) = Evaluate(plane, v)
    /\ metric.tensor = Tensor(plane) /\ metric.vector = VectorOf(plane)
    /\ ~ QMetricOptimize(metric).ok
    /\ QMetricPlus(QMetricCleared(3), metric) = metric
    /\ QMetricEvaluate(QMetricPlus(metric, QMetricScaled(metric, Whole(2))), v)
           = Evaluate(TakenAway(Weighted(plane, Whole(4)), plane), v)

\* Not a law, but a slip of qmetric.hpp: to take a metric away is to add it.
QMetricSlips(metric) == QMetricDiff(metric, metric) = QMetricScaled(metric, Whole(2))

\* An entry of the heap is not worse than both ends, nor, when the sum q of their
\* errors has a least point, than any other.
IsOptimal(value, optimum, q, ends, others) ==
    LET AtMost(x, y) == ~ y \prec x
    IN  /\ AtMost(Zero, value) /\ \E v \in ends : AtMost(value, Evaluate(q, v))
        /\ optimum.ok => \A v \in others : AtMost(value, Evaluate(q, v))

\* The tests of a collapse, for a face whose end v moves to p: a face that stays is
\* not refused unless it is tiny, one that is mirrored is, and halfway between two
\* places that are good enough is good enough; a face is as compact from each of
\* its corners, and the more so the nearer it is to one with equal sides, which
\* has the greatest compactness, one.
FansHold(f, v, p) ==
    LET Accepts(q) == CheckInversion(v, f, v, f, q)
        Mirrored(q) == Diff(Scaled(f[1], Whole(2)), q)
        Between(q, r) == Scaled(Plus(q, r), <<1, 2>>)
        area == SquaredLength(Cross3(Diff(f[2], f[1]), Diff(v, f[1])))
        sides == {SquaredDistance(v, f[1]), SquaredDistance(f[1], f[2]), SquaredDistance(f[2], v)}
    IN  /\ Accepts(v) <=> ~ area \prec <<1, 100>>
        /\ ~Accepts(Mirrored(v)) /\ ~(Accepts(p) /\ Accepts(Mirrored(p)))
        /\ Accepts(v) /\ Accepts(p) => Accepts(Between(v, p))
        /\ CheckCompactness(f, f, v) => area # Zero
        /\ v \notin {f[1], f[2]} =>
              /\ SquaredCompactness(f, v) = SquaredCompactness(<<f[2], v>>, f[1])
              /\ ~ One \prec SquaredCompactness(f, v)
              /\ SquaredCompactness(f, v) = One <=> Cardinality(sides) = 1

\* What the simplifier relies on, for a mesh of faces whose sides and areas are
\* fractions: a vertex lies on the planes of its faces, so that its own error is
\* zero; the error of a point is its squared distance from them, as qmetric.hpp
\* computes it, and the tests of a collapse tell faces that turn over or shrink to
\* a line; no point is better than the one that is found, and the one put in the
\* heap is no worse than both ends (quadratic.hpp, quadratic_simplifier.hpp).
\* others are the points that it is compared with.
PlanesHold(points, quadratic, corners, others) ==
    /\ \A v \in DOMAIN points : /\ Evaluate(quadratic[v], points[v]) = Zero
                                /\ QuadraticOf(Homogenous(quadratic[v])) = quadratic[v]
    /\ \A t \in corners, v \in others :
         LET n == Normal(t[1], t[2], t[3])
         IN  MeasuresDistance(Quadratic(n, Minus(Dot(n, t[1]))), QMetric(t[1], t[2], t[3]),
                              n, Diff(v, t[1]), v)
    /\ \A t \in corners : QMetricSlips(QMetric(t[1], t[2], t[3]))
    /\ \A t \in corners, v \in others, p \in {points[w] : w \in DOMAIN points} :
         v # t[1] => FansHold(<<t[1], t[2]>>, v, p)
    /\ \A v, w \in DOMAIN points :
         IsOptimal(HeapEntry(quadratic[v], quadratic[w], points[v], points[w]).value,
                   Optimize(Added(quadratic[v], quadratic[w])), Added(quadratic[v], quadratic[w]),
                   {points[v], points[w]}, others)

QuadricsHold(faces, points, others) ==
    PlanesHold(points, GenerateQuadratics(faces, points),
               {<<points[f[1]], points[f[2]], points[f[3]]>> : f \in {faces[i] : i \in DOMAIN faces}},
               others)
=============================================================================
