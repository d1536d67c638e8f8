---------------------------- MODULE Quaternions -----------------------------
(* The quaternions of zi/vl/quat.hpp and zi/vl/quat_functions.hpp: the      *)
(* elements 0 to 2 are the imaginary ones, element 3 is the real one.       *)
EXTENDS Matrices

Quat(v, real) == Vec(<<v[0], v[1], v[2], real>>)
QuatNamed(q, name) == IF name = "real" THEN q[3] ELSE Named(q, name)
Real(q)       == QuatNamed(q, "real")
UnrealVec(q)  == Subvector(q, 3, 0)
QuatOfScalar(x) == Quat(Filled(3, Zero), x)
QuatFilled(x)   == Filled(4, x)

QuatInOrder(q) == InOrder(q)
QuatAbsMax(q)  == AbsMax(q)
QuatSame(p, q) == Same(p, q)

QuatZero == Quat(Filled(3, Zero), Zero)
Unit     == Quat(Filled(3, Zero), One)
Unit_i   == Vec(<<One, Zero, Zero, Zero>>)
Unit_j   == Vec(<<Zero, One, Zero, Zero>>)
Unit_k   == Vec(<<Zero, Zero, One, Zero>>)

\* A scalar is added to the real element only; a vector to the others.
QuatPlus(p, q)        == [i \in 0 .. 3 |-> p[i] \oplus q[i]]
QuatDiff(p, q)        == [i \in 0 .. 3 |-> p[i] \ominus q[i]]
QuatPlusScalar(q, x)  == [q EXCEPT ![3] = @ \oplus x]
QuatDiffScalar(q, x)  == [q EXCEPT ![3] = @ \ominus x]
QuatPlusVec(q, v)     == [i \in 0 .. 3 |-> IF i < 3 THEN q[i] \oplus v[i] ELSE q[i]]
QuatDiffVec(q, v)     == [i \in 0 .. 3 |-> IF i < 3 THEN q[i] \ominus v[i] ELSE q[i]]
QuatScaled(q, x)      == [i \in 0 .. 3 |-> q[i] \otimes x]
QuatOverScalar(q, x)  == QuatScaled(q, One \oslash x)
\* A scalar on the left is put on the right, where a difference is another one.
ScalarDiffQuat(x, q)  == QuatDiffScalar(q, x)
Negative(q)           == [i \in 0 .. 3 |-> Minus(q[i])]

\* A vector equals the quaternion without a real element, a scalar the one
\* without any other.
EqualsVec(q, v)    == q[3] = Zero /\ UnrealVec(q) = v
EqualsScalar(q, x) == q[3] = x /\ UnrealVec(q) = Filled(3, Zero)
QuatBefore(p, q) ==
    \E i \in 0 .. 3 : p[i] \prec q[i] /\ \A j \in 0 .. i - 1 : p[j] = q[j]

\* Broken: the eighth sum is used where the seventh belongs.
QuatProductSlipped(p, q) ==
    LET x   == <<p[3], p[0], p[1], p[2]>>
        y   == <<q[3], q[0], q[1], q[2]>>
        t5  == (x[4] \oplus x[2]) \otimes (y[2] \oplus y[3])
        t6  == (x[1] \oplus x[3]) \otimes (y[1] \ominus y[4])
        t7  == (x[1] \ominus x[3]) \otimes (y[1] \oplus y[4])
        t8  == (t5 \oplus t6) \oplus t7
        t9  == <<1, 2>> \otimes (((x[4] \ominus x[2]) \otimes (y[2] \ominus y[3])) \oplus t8)
    IN  Vec(<<(((x[1] \oplus x[2]) \otimes (y[1] \oplus y[2])) \oplus t9) \ominus t8,
              (((x[1] \ominus x[2]) \otimes (y[3] \oplus y[4])) \oplus t9) \ominus t6,
              (((x[3] \oplus x[4]) \otimes (y[1] \ominus y[2])) \oplus t9) \ominus t7,
              (((x[4] \ominus x[3]) \otimes (y[3] \ominus y[4])) \oplus t9) \ominus t5>>)

\* With nine multiplications; x and y are the factors, the real element first.
QuatProduct(p, q) ==
    LET x   == <<p[3], p[0], p[1], p[2]>>
        y   == <<q[3], q[0], q[1], q[2]>>
        t0  == (x[4] \ominus x[3]) \otimes (y[3] \ominus y[4])
        t1  == (x[1] \oplus x[2]) \otimes (y[1] \oplus y[2])
        t2  == (x[1] \ominus x[2]) \otimes (y[3] \oplus y[4])
        t3  == (x[3] \oplus x[4]) \otimes (y[1] \ominus y[2])
        t4  == (x[4] \ominus x[2]) \otimes (y[2] \ominus y[3])
        t5  == (x[4] \oplus x[2]) \otimes (y[2] \oplus y[3])
        t6  == (x[1] \oplus x[3]) \otimes (y[1] \ominus y[4])
        t7  == (x[1] \ominus x[3]) \otimes (y[1] \oplus y[4])
        t8  == (t5 \oplus t6) \oplus t7
        t9  == <<1, 2>> \otimes (t4 \oplus t8)
    IN  Vec(<<(t1 \oplus t9) \ominus t8, (t2 \oplus t9) \ominus t7,
              (t3 \oplus t9) \ominus t6, (t0 \oplus t9) \ominus t5>>)

QuatTimesVec(q, v) ==
    LET u == UnrealVec(q)
    IN  Quat(Plus(Scaled(v, q[3]), Diff(Vec(<<u[1] \otimes v[2], u[2] \otimes v[0], u[0] \otimes v[1]>>),
                                        Vec(<<u[2] \otimes v[1], u[0] \otimes v[2], u[1] \otimes v[0]>>))),
             Minus(Dot(u, v)))

Conj(q)          == Quat(Opposite(UnrealVec(q)), q[3])
QuatSquared(q)   == Sum(4, [i \in 0 .. 3 |-> q[i] \otimes q[i]])
QuatDot(p, q)    == Sum(4, [i \in 0 .. 3 |-> p[i] \otimes q[i]])
QuatCross(p, q)  == Vec(<<Minor2(p, q, 1, 2), Minor2(p, q, 2, 0), Minor2(p, q, 0, 1)>>)

\* What invert() returns, and leaves behind.
QuatInvert(q) ==
    LET l == QuatSquared(q)
    IN  IF l = Zero THEN [quat |-> q, returned |-> Zero]
        ELSE [quat |-> QuatScaled(Conj(q), One \oslash l), returned |-> l]
QuatOver(p, q) == QuatProduct(p, QuatInvert(q).quat)

\* Unlike that of a vector, normalize() of a quaternion returns its length.
QuatNormalize(q) ==
    LET l == Root(QuatSquared(q))
    IN  IF l = Zero THEN [quat |-> q, returned |-> Zero]
        ELSE [quat |-> QuatScaled(q, One \oslash l), returned |-> l]

\* The normal of four points.
QuatNormalOf(a, b, c, d) ==
    QuatNormalize(Cross4(QuatDiff(b, a), QuatDiff(c, a), QuatDiff(d, a))).quat

QuatSlerp(t, p, q) == Slerp(p, q, t)

\* The quaternion of a rotation: from the trace, or else from the largest
\* element i of the diagonal, whose successors are j and k.
SetRotMatrix(a) ==
    LET Mixed(i, j, sign) == IF sign = "+" THEN At(a, i, j) \oplus At(a, j, i)
                             ELSE At(a, i, j) \ominus At(a, j, i)
        trace == Sum(3, Diagonal(a)) \oplus One
        half  == <<1, 2>>
    IN  IF Zero \prec trace
        THEN LET r == Root(trace)
                 s == half \oslash r
             IN  Vec(<<Mixed(2, 1, "-") \otimes s, Mixed(0, 2, "-") \otimes s,
                       Mixed(1, 0, "-") \otimes s, half \otimes r>>)
        ELSE LET i == MaxIndex(Diagonal(a))
                 j == IF i = 0 THEN 1 ELSE 0
                 k == IF i = 2 THEN 1 ELSE 2
                 r == Root(((At(a, i, i) \oplus One) \ominus At(a, j, j)) \ominus At(a, k, k))
                 s == half \oslash r
             IN  [e \in 0 .. 3 |-> CASE e = i -> half \otimes r
                                     [] e \in {j, k} -> Mixed(i, e, "+") \otimes s
                                     [] OTHER -> Mixed(j, k, "-") \otimes s]

-----------------------------------------------------------------------------
\* The product and the rotation by their definitions.
Hamilton(p, q) ==
    LET u == UnrealVec(p)
        v == UnrealVec(q)
    IN  Quat(Plus(Plus(Scaled(v, p[3]), Scaled(u, q[3])), Cross3(u, v)),
             (p[3] \otimes q[3]) \ominus Dot(u, v))

Rotation(q) ==
    LET Turned(v) == UnrealVec(Hamilton(Hamilton(q, Quat(v, Zero)), Conj(q)))
    IN  Mat(3, [p \in Indices(3) |-> Turned([Filled(3, Zero) EXCEPT ![p[2]] = One])[p[1]]])

\* What a caller of quat_functions.hpp relies on, for three quaternions: the
\* product is Hamilton's, keeps lengths, has inverses and agrees with that by a
\* vector; and a rotation's quaternion is found again from its matrix.
QuaternionsHold(p, q, s) ==
    \A pq \in {QuatProduct(p, q)}, v \in {UnrealVec(q)} :
        /\ pq = Hamilton(p, q) /\ QuatProduct(pq, s) = QuatProduct(p, QuatProduct(q, s))
        /\ QuatSquared(pq) = QuatSquared(p) \otimes QuatSquared(q)
        /\ Conj(pq) = QuatProduct(Conj(q), Conj(p))
        /\ QuatProduct(p, QuatPlus(q, s)) = QuatPlus(pq, QuatProduct(p, s))
        /\ QuatDiff(QuatPlus(p, q), q) = p /\ Negative(p) = QuatDiff(QuatZero, p)
        /\ QuatTimesVec(p, v) = QuatProduct(p, Quat(v, Zero))
        /\ QuatPlusVec(QuatPlusScalar(QuatZero, Real(q)), v) = q
        /\ EqualsScalar(QuatDiffVec(q, v), Real(q)) /\ EqualsVec(QuatDiffScalar(q, Real(q)), v)
        /\ Real(QuatProduct(p, Conj(q))) = QuatDot(p, q)
        /\ QuatProduct(QuatOfScalar(Real(p)), q) = QuatScaled(q, Real(p))
        /\ QuatNamed(q, "w") = Real(q) /\ QuatNamed(q, "x") = QuatInOrder(q)[1]
        /\ \E i \in 1 .. 4 : QuatAbsMax(q) = Abs(QuatInOrder(q)[i])
        /\ QuatDot(q, QuatFilled(One)) = Sum(4, q)
        /\ QuatSame(p, q) <=> ~ QuatBefore(p, q) /\ ~ QuatBefore(q, p)
        /\ Scaled(QuatCross(p, q), Whole(2)) = UnrealVec(QuatDiff(pq, QuatProduct(q, p)))
        /\ QuatProduct(Unit_i, Unit_j) = Unit_k /\ QuatProduct(Unit_k, Unit_k) = Negative(Unit)
        /\ Cardinality({i \in 1 .. 3 : CASE i = 1 -> QuatBefore(p, q) [] i = 2 -> QuatBefore(q, p)
                                          [] OTHER -> p = q}) = 1
        /\ q # QuatZero => QuatOver(pq, q) = p
        /\ IsSquare(QuatSquared(Cross4(p, q, s))) =>
               QuatScaled(QuatNormalOf(QuatZero, p, q, s), Root(QuatSquared(Cross4(p, q, s))))
                   = Cross4(p, q, s)
        /\ QuatOverScalar(QuatScaled(q, Whole(3)), Whole(3)) = q
        /\ IsSquare(QuatSquared(q)) /\ q # QuatZero =>
               \A n \in {QuatNormalize(q)} :
               \A r \in {SetRotMatrix(Rotation(n.quat))}, twice \in {QuatProduct(n.quat, n.quat)} :
                   /\ QuatScaled(n.quat, n.returned) = q
                   /\ r = n.quat \/ r = Negative(n.quat)
                   /\ ~ Real(twice) \prec Zero =>
                          QuatSlerp(<<1, 2>>, Unit, twice) \in {n.quat, Negative(n.quat)}

\* Not a law, but what a slip of quat.hpp comes to: a number minus a quaternion is
\* the quaternion minus the number.
QuaternionsSlip(q) == ScalarDiffQuat(Real(q), q) = Quat(UnrealVec(q), Zero)
=============================================================================
