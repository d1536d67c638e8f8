------------------------------ MODULE Matrices ------------------------------
(* The vectors of zi/vl/vec.hpp and zi/vl/vec_functions.hpp, the square     *)
(* matrices of zi/vl/mat.hpp and zi/vl/mat_functions.hpp, and the formulas  *)
(* of zi/vl/detail/invert.hpp for up to four rows.  A vector is the array d *)
(* of vec<T, N>, a function from 0 .. N - 1; a matrix the array d of        *)
(* mat<T, N>, from 0 .. N * N - 1, row after row.  Overloads that differ in *)
(* the types of their scalars are one operator.                             *)
EXTENDS Integers, Sequences, FiniteSets

-----------------------------------------------------------------------------
(* Fractions, which stand for the scalar type T: the arithmetic of vectors, *)
(* matrices and quaternions is checked for what it says, not for how float  *)
(* and double round.  A fraction is a pair of a numerator and a positive    *)
(* denominator in lowest terms.                                             *)
Gcd[a \in Int, b \in Nat] == IF b = 0 THEN a ELSE Gcd[b, a % b]

\* For a positive denominator.
Lowest(n, d, g) == <<n \div g, d \div g>>
Fraction(n, d)  == Lowest(n, d, Gcd[n, d])

Whole(i) == <<i, 1>>
Zero     == Whole(0)
One      == Whole(1)

Summed(a, b, g) == Fraction(a[1] * (b[2] \div g) + b[1] * (a[2] \div g), a[2] * (b[2] \div g))
a \oplus b  == Summed(a, b, Gcd[a[2], b[2]])
Minus(a)    == <<-a[1], a[2]>>
a \ominus b == a \oplus Minus(b)
a \otimes b == Fraction(a[1] * b[1], a[2] * b[2])
a \oslash b == LET sign == IF b[1] < 0 THEN -1 ELSE 1
               IN  Fraction(sign * a[1] * b[2], sign * a[2] * b[1])
a \prec b   == a[1] * b[2] < b[1] * a[2]
Abs(a)      == IF a[1] < 0 THEN Minus(a) ELSE a

\* The root of a fraction that is a square.
IsSquare(a) == \A i \in {1, 2} : \E r \in 0 .. a[i] : r * r = a[i]
Root(a)     == [i \in {1, 2} |-> CHOOSE r \in 0 .. a[i] : r * r = a[i]]

\* The sum of f[0], ..., f[n - 1].
Sum(n, f) ==
    LET upTo[i \in 0 .. n] == IF i = 0 THEN Zero ELSE upTo[i - 1] \oplus f[i - 1]
    IN  upTo[n]

-----------------------------------------------------------------------------

Size(v) == Cardinality(DOMAIN v)

\* Constructors.
Vec(values)   == [i \in 0 .. Len(values) - 1 |-> values[i + 1]]
Filled(n, x)  == [i \in 0 .. n - 1 |-> x]
Append1(v, x) == [i \in 0 .. Size(v) |-> IF i < Size(v) THEN v[i] ELSE x]
Prepend1(x, v) == [i \in 0 .. Size(v) |-> IF i = 0 THEN x ELSE v[i - 1]]
Joined(u, v)  == [i \in 0 .. Size(u) + Size(v) - 1 |->
                    IF i < Size(u) THEN u[i] ELSE v[i - Size(u)]]

Subvector(v, length, first) == [i \in 0 .. length - 1 |-> v[first + i]]

\* The accessors with names, the elements from begin() to end(), the first and
\* the last one, and std::equal.
PlaceOf == [x |-> 0, y |-> 1, z |-> 2, w |-> 3, t |-> 3, r |-> 0, g |-> 1, b |-> 2, a |-> 3]
Named(v, name) == v[PlaceOf[name]]
InOrder(v)     == [k \in 1 .. Size(v) |-> v[k - 1]]
Front(v)       == v[0]
Back(v)        == v[Size(v) - 1]
Same(u, v)     == \A i \in DOMAIN u : u[i] = v[i]

\* The first of the least, and of the greatest, elements.
MinIndex(v) == CHOOSE i \in DOMAIN v :
                   \A j \in DOMAIN v : ~ v[j] \prec v[i] /\ (j < i => v[j] # v[i])
MaxIndex(v) == CHOOSE i \in DOMAIN v :
                   \A j \in DOMAIN v : ~ v[i] \prec v[j] /\ (j < i => v[j] # v[i])

AbsMax(v) == LET least    == Minus(v[MinIndex(v)])
                 greatest == v[MaxIndex(v)]
             IN  IF greatest \prec least THEN least ELSE greatest
AbsMaxIndex(v) == IF v[MaxIndex(v)] \prec Minus(v[MinIndex(v)]) THEN MinIndex(v) ELSE MaxIndex(v)

\* Element by element; a vector over a scalar is multiplied by the reciprocal.
Plus(u, v)   == [i \in DOMAIN u |-> u[i] \oplus v[i]]
Diff(u, v)   == [i \in DOMAIN u |-> u[i] \ominus v[i]]
Times(u, v)  == [i \in DOMAIN u |-> u[i] \otimes v[i]]
Over(u, v)   == [i \in DOMAIN u |-> u[i] \oslash v[i]]
PlusScalar(v, x) == [i \in DOMAIN v |-> v[i] \oplus x]
Scaled(v, x) == [i \in DOMAIN v |-> v[i] \otimes x]
ScaledDown(v, x) == Scaled(v, One \oslash x)
Opposite(v)  == [i \in DOMAIN v |-> Minus(v[i])]

\* A scalar on the left is a vector filled with it.
ScalarDiff(x, v) == Diff(Filled(Size(v), x), v)
ScalarOver(x, v)     == Over(Filled(Size(v), x), v)

\* std::lexicographical_compare.
Before(u, v) ==
    \E i \in DOMAIN u : u[i] \prec v[i] /\ \A j \in 0 .. i - 1 : u[j] = v[j]

Dot(u, v)             == Sum(Size(u), Times(u, v))
SquaredLength(v)      == Dot(v, v)
SquaredDistance(u, v) == SquaredLength(Diff(u, v))

\* normalize() multiplies by one over the length, and returns that.
Normalize(v) == LET r == One \oslash Root(SquaredLength(v))
                IN  [vec |-> Scaled(v, r), returned |-> r]

Clamp(v, least, greatest) ==
    [i \in DOMAIN v |-> IF v[i] \prec least THEN least
                        ELSE IF greatest \prec v[i] THEN greatest ELSE v[i]]

Cross2(v) == Vec(<<v[1], Minus(v[0])>>)

Minor2(u, v, i, j) == (u[i] \otimes v[j]) \ominus (u[j] \otimes v[i])

Cross3(u, v) == Vec(<<Minor2(u, v, 1, 2), Minor2(u, v, 2, 0), Minor2(u, v, 0, 1)>>)

\* Without the alternating signs of a cross product of four dimensions.
Cross4(u, v, w) ==
    LET Along(k, i, j) == ((u[k] \otimes Minor2(v, w, i, j)) \oplus
                           (v[k] \otimes Minor2(w, u, i, j))) \oplus
                           (w[k] \otimes Minor2(u, v, i, j))
    IN  Vec(<<Along(1, 2, 3), Along(0, 2, 3), Along(0, 1, 3), Along(0, 1, 2)>>)

Normal(u, v, w) == Normalize(Cross3(Diff(v, u), Diff(w, u))).vec

\* sin(t * angle) / sin(angle) for the angle of a cosine, when t is zero, a half
\* or one.
Share(t, cosine) ==
    IF t \in {Zero, One} THEN t ELSE One \oslash Root(Whole(2) \otimes (One \oplus cosine))

\* The norms give the angle, the vectors themselves are mixed.
Slerp(u, v, t) ==
    LET angled == Dot(Normalize(u).vec, Normalize(v).vec)
        cosine == Abs(angled)
        turned == IF angled \prec Zero THEN Opposite(v) ELSE v
    IN  IF cosine \prec One
        THEN Plus(Scaled(u, Share(One \ominus t, cosine)), Scaled(turned, Share(t, cosine)))
        ELSE Normalize(Plus(Scaled(u, One \ominus t), Scaled(turned, t))).vec

-----------------------------------------------------------------------------
\* What a caller of vec_functions.hpp relies on, for three vectors of four
\* elements: the products are orthogonal to their factors and as long as
\* Lagrange says; lengths, distances and the order of vectors agree; what is put
\* together comes apart; a vector that is normalised has length one.
VectorsHold(u, v, w) ==
    LET a == Subvector(u, 3, 0)
        b == Subvector(v, 3, 1)
        two == Subvector(w, 2, 2)
    IN  \A c \in {Cross3(a, b)} :
        /\ Dot(a, c) = Zero /\ Dot(b, c) = Zero /\ Dot(two, Cross2(two)) = Zero
        /\ SquaredLength(c) = (SquaredLength(a) \otimes SquaredLength(b))
                                  \ominus (Dot(a, b) \otimes Dot(a, b))
        /\ SquaredDistance(u, v) \oplus (Whole(2) \otimes Dot(u, v))
               = SquaredLength(u) \oplus SquaredLength(v)
        /\ Cardinality({i \in 1 .. 3 : CASE i = 1 -> Before(u, v) [] i = 2 -> Before(v, u)
                                          [] OTHER -> u = v}) = 1
        /\ Same(u, v) <=> ~ Before(u, v) /\ ~ Before(v, u)
        /\ Named(c, "x") = (Named(a, "y") \otimes Named(b, "z"))
                               \ominus (Named(a, "z") \otimes Named(b, "y"))
        /\ \A name \in {"x", "y", "z"} : Named(u, name) = Named(a, name)
        /\ Named(v, "w") = Back(b) /\ Front(b) = Named(v, "g") /\ Vec(InOrder(u)) = u
        /\ Diff(PlusScalar(u, v[0]), u) = Filled(4, v[0])
        /\ IsSquare(SquaredLength(a)) /\ a # Filled(3, Zero) =>
               LET n == Normalize(a).vec
                   middle == Slerp(n, Vec(<<n[1], n[2], n[0]>>), <<1, 2>>)
                   other  == Vec(<<n[1], n[2], n[0]>>)
                   cosine == Dot(n, other)
               IN  /\ Slerp(a, n, Zero) = n /\ Slerp(n, Opposite(n), One) = n
                   /\ IsSquare(Whole(2) \otimes (One \oplus Abs(cosine))) =>
                          /\ SquaredLength(middle) = One
                          /\ Dot(middle, n) = Abs(Dot(middle, other))
        /\ Joined(Subvector(u, 2, 0), Subvector(u, 2, 2)) = u
        /\ Append1(Subvector(u, 3, 0), u[3]) = u /\ Prepend1(u[0], Subvector(u, 3, 1)) = u
        /\ AbsMax(u) = Abs(u[AbsMaxIndex(u)]) /\ \A i \in DOMAIN u : ~ AbsMax(u) \prec Abs(u[i])
        /\ Opposite(ScalarDiff(One, u)) = Diff(u, Filled(4, One))
        /\ (\A i \in DOMAIN u : u[i] # Zero) =>
               /\ Times(u, Over(v, u)) = v /\ Times(ScalarOver(One, u), u) = Filled(4, One)
               /\ ScaledDown(Scaled(v, u[0]), u[0]) = v
        /\ LET k == Clamp(Plus(u, v), Whole(-1), One)
           IN  /\ ~ One \prec AbsMax(k) /\ Clamp(k, Whole(-1), One) = k
        /\ IsSquare(SquaredLength(a)) /\ SquaredLength(a) # Zero =>
               SquaredLength(Normalize(a).vec) = One
        /\ IsSquare(SquaredLength(c)) /\ SquaredLength(c) # Zero =>
               Scaled(Normal(Filled(3, Zero), a, b), Root(SquaredLength(c))) = c

\* Not laws, but what the slips of vec_functions.hpp come to: every other element of
\* the product of three vectors has the wrong sign, and normalize() returns the
\* reciprocal of the length.
VectorsSlip(u, v, w) ==
    LET a == Subvector(u, 3, 0)
        product == Cross4(u, v, w)
        signed  == [i \in 0 .. 3 |-> IF i % 2 = 1 THEN Minus(product[i]) ELSE product[i]]
    IN  /\ \A y \in {u, v, w} : Dot(signed, y) = Zero
        /\ IsSquare(SquaredLength(a)) /\ SquaredLength(a) # Zero =>
               Scaled(a, Normalize(a).returned) = Normalize(a).vec

-----------------------------------------------------------------------------
Order(a)    == CHOOSE n \in 1 .. Size(a) : n * n = Size(a)
Index(n, r, c) == r * n + c
At(a, r, c) == a[Index(Order(a), r, c)]

\* The matrix of n rows whose element in row r and column c is entry[r, c].
Mat(n, entry) == [i \in 0 .. n * n - 1 |-> entry[i \div n, i % n]]
Indices(n)    == (0 .. n - 1) \X (0 .. n - 1)

Scalar(n, x)   == Mat(n, [p \in Indices(n) |-> IF p[1] = p[2] THEN x ELSE Zero])
Eye(n)         == Scalar(n, One)
MakeDiag(v)    == Mat(Size(v), [p \in Indices(Size(v)) |-> IF p[1] = p[2] THEN v[p[1]] ELSE Zero])
Trans(a)       == Mat(Order(a), [p \in Indices(Order(a)) |-> At(a, p[2], p[1])])
GetMinor(a, r, c) ==
    Mat(Order(a) - 1, [p \in Indices(Order(a) - 1) |->
        At(a, IF p[1] < r THEN p[1] ELSE p[1] + 1, IF p[2] < c THEN p[2] ELSE p[2] + 1)])

Diagonal(a)     == [i \in 0 .. Order(a) - 1 |-> a[i * (Order(a) + 1)]]
GetRow(a, r)    == [i \in 0 .. Order(a) - 1 |-> a[r * Order(a) + i]]
GetColumn(a, c) == [i \in 0 .. Order(a) - 1 |-> a[c + i * Order(a)]]
SetRow(a, r, v) == [i \in DOMAIN a |-> IF i \div Order(a) = r THEN v[i % Order(a)] ELSE a[i]]
SetColumn(a, c, v) == [i \in DOMAIN a |-> IF i % Order(a) = c THEN v[i \div Order(a)] ELSE a[i]]

\* The elements of two rows, or columns, change places from column, or row,
\* first on.
Swapped(i, j) == [k \in {i, j} |-> IF k = i THEN j ELSE i]
\* Broken: the columns left of the pivot do not change places in res either.
SwapRowsFromPivot(a, i, j, first) ==
    Mat(Order(a), [p \in Indices(Order(a)) |->
        At(a, IF p[1] \in {i, j} /\ p[2] >= i THEN Swapped(i, j)[p[1]] ELSE p[1], p[2])])

SwapRows(a, i, j, first) ==
    Mat(Order(a), [p \in Indices(Order(a)) |->
        At(a, IF p[1] \in {i, j} /\ p[2] >= first THEN Swapped(i, j)[p[1]] ELSE p[1], p[2])])
SwapColumns(a, i, j, first) ==
    Mat(Order(a), [p \in Indices(Order(a)) |->
        At(a, p[1], IF p[2] \in {i, j} /\ p[1] >= first THEN Swapped(i, j)[p[2]] ELSE p[2])])

\* The elements row after row, the greatest in size, a matrix of one value.
RowAfterRow(a)  == InOrder(a)
MatAbsMax(a)    == AbsMax(a)
MatFilled(n, x) == Filled(n * n, x)
MatSame(a, b)   == Same(a, b)

\* swap() stops after as many elements as a row has.
SwapMats(a, b) ==
    LET Mixed(f, s) == [i \in DOMAIN f |-> IF i < Order(f) THEN s[i] ELSE f[i]]
    IN  <<Mixed(a, b), Mixed(b, a)>>

\* What get_semimajor_diagonal() writes to res: one element more than res has.
SemimajorDiagonal(a) == [j \in 0 .. Order(a) |-> a[(Order(a) - 1) * (j + 1)]]

\* equals() returns false at an element that is near, not at one that is far.
EqualsWithin(a, b, epsilon) == \A i \in DOMAIN a : epsilon \prec Abs(b[i] \ominus a[i])

\* Element by element, and in the order of the elements.
MatPlus(a, b)   == [i \in DOMAIN a |-> a[i] \oplus b[i]]
MatDiff(a, b)   == [i \in DOMAIN a |-> a[i] \ominus b[i]]
MatScaled(a, x) == [i \in DOMAIN a |-> a[i] \otimes x]
MatBefore(a, b) ==
    \E i \in DOMAIN a : a[i] \prec b[i] /\ \A j \in 0 .. i - 1 : a[j] = b[j]

MatOverScalar(a, x) == [i \in DOMAIN a |-> a[i] \oslash x]

\* A row vector is multiplied from the right by what a column vector is
\* multiplied by from the left.
Product(a, b) ==
    Mat(Order(a), [p \in Indices(Order(a)) |-> Dot(GetRow(a, p[1]), GetColumn(b, p[2]))])
MatVec(a, v) == [r \in 0 .. Order(a) - 1 |-> Dot(v, GetRow(a, r))]
VecMat(v, a) == MatVec(a, v)

\* A scalar on the left becomes a matrix filled with it, and that is multiplied.
ScalarTimesMat(x, a) == Product(MatFilled(Order(a), x), a)

OuterProduct(u, v) == Mat(Size(u), [p \in Indices(Size(u)) |-> u[p[1]] \otimes v[p[2]]])

\* The product of the diagonal.
Trace(a) == LET upTo[i \in 0 .. Order(a)] ==
                    IF i = 0 THEN One ELSE upTo[i - 1] \otimes Diagonal(a)[i - 1]
            IN  upTo[Order(a)]

MakeScale(x) == MakeDiag(Append1(x, Zero))

\* The cosine is computed as the root of the square of the sine.
MakeRotation(axis, sine) ==
    LET cosine == Abs(sine)
        v == Normalize(Append1(axis, Zero)).vec
        Row(i) == Plus(Scaled(Scaled(v, v[i]), One \ominus cosine),
                       LET x(j) == v[j] \otimes sine
                       IN  CASE i = 0 -> Vec(<<cosine, Minus(x(2)), x(1), Zero>>)
                             [] i = 1 -> Vec(<<x(2), cosine, Minus(x(0)), Zero>>)
                             [] OTHER -> Vec(<<Minus(x(1)), x(0), cosine, Zero>>))
    IN  Mat(4, [p \in Indices(4) |-> IF p[1] < 3 THEN Row(p[1])[p[2]]
                                     ELSE IF p[2] = 3 THEN One ELSE Zero])

-----------------------------------------------------------------------------
(* Determinants: as the functions write them out.                           *)

\* The sum of the elements of t at each of the tuples in plus, multiplied, less
\* those in minus.
Expansion(t, plus, minus) ==
    LET Term(k)  == LET upTo[i \in 0 .. Len(k)] ==
                            IF i = 0 THEN One ELSE upTo[i - 1] \otimes t[k[i]]
                    IN  upTo[Len(k)]
        Terms(s) == Sum(Len(s), [i \in 0 .. Len(s) - 1 |-> Term(s[i + 1])])
    IN  Terms(plus) \ominus Terms(minus)

Det2(a) == Expansion(a, <<<<0, 3>>>>, <<<<2, 1>>>>)
Det3(a) == Expansion(a, <<<<0, 4, 8>>, <<1, 5, 6>>, <<2, 3, 7>>>>,
                        <<<<0, 5, 7>>, <<1, 3, 8>>, <<2, 4, 6>>>>)
Det4(a) ==
    Expansion(a,
        <<<<12,  9,  6, 3>>, << 4, 13, 10, 3>>, << 8,  5, 14, 3>>, << 8, 13,  2, 7>>,
          <<12,  1, 10, 7>>, << 0,  9, 14, 7>>, <<12,  5, 2, 11>>, << 0, 13, 6, 11>>,
          << 4,  1, 14, 11>>, << 4,  9, 2, 15>>, << 8,  1, 6, 15>>, << 0,  5, 10, 15>>>>,
        <<<< 8, 13,  6, 3>>, <<12,  5, 10, 3>>, << 4,  9, 14, 3>>, <<12,  9,  2, 7>>,
          << 0, 13, 10, 7>>, << 8,  1, 14, 7>>, << 4, 13, 2, 11>>, <<12,  1, 6, 11>>,
          << 0,  5, 14, 11>>, << 8,  5, 2, 15>>, << 0,  9, 6, 15>>, << 4,  1, 10, 15>>>>)

Det(a) == CASE Order(a) = 1 -> a[0] [] Order(a) = 2 -> Det2(a)
            [] Order(a) = 3 -> Det3(a) [] OTHER -> Det4(a)

\* The adjugate, for more than two rows.
Adj(a) == Mat(Order(a), [p \in Indices(Order(a)) |->
              LET d == Det(GetMinor(a, p[2], p[1]))
              IN  IF (p[1] + p[2]) % 2 = 1 THEN Minus(d) ELSE d])

-----------------------------------------------------------------------------
(* invert() by a formula, which leaves the matrix alone when its            *)
(* determinant is zero.                                                     *)

Inverted(a, adjugate, d) ==
    IF d = Zero THEN [mat |-> a, det |-> Zero]
    ELSE [mat |-> MatScaled(adjugate, One \oslash d), det |-> d]

Invert2(a) == Inverted(a, Vec(<<a[3], Minus(a[1]), Minus(a[2]), a[0]>>), Det2(a))

Invert3(a) ==
    LET C(i, j, k, l) == Expansion(a, <<<<i, j>>>>, <<<<k, l>>>>)
        adjugate == Vec(<<C(4, 8, 5, 7), C(2, 7, 1, 8), C(1, 5, 2, 4),
                          C(5, 6, 3, 8), C(0, 8, 2, 6), C(2, 3, 0, 5),
                          C(3, 7, 4, 6), C(1, 6, 0, 7), C(0, 4, 1, 3)>>)
    IN  Inverted(a, adjugate, Sum(3, [i \in 0 .. 2 |-> a[i] \otimes adjugate[3 * i]]))

\* t1 are the minors of the last two columns, t2 of the first two, for the pairs
\* of rows 01, 02, 03, 12, 13, 23.
Invert4(a) ==
    LET Pairs(c) == [p \in {<<r, s>> \in (0 .. 3) \X (0 .. 3) : r < s} |->
                        (At(a, p[1], c) \otimes At(a, p[2], c + 1)) \ominus
                        (At(a, p[2], c) \otimes At(a, p[1], c + 1))]
        t1 == Pairs(2)
        t2 == Pairs(0)
        \* Column c against the three pairs of the rows q, r and s.
        Cofactor(t, c, q, r, s) ==
            ((At(a, q, c) \otimes t[r, s]) \ominus (At(a, r, c) \otimes t[q, s]))
                \oplus (At(a, s, c) \otimes t[q, r])
        Signed(i, x) == IF i % 2 = 1 THEN Minus(x) ELSE x
        Without(i)   == CASE i = 0 -> <<1, 2, 3>> [] i = 1 -> <<0, 2, 3>>
                          [] i = 2 -> <<0, 1, 3>> [] OTHER -> <<0, 1, 2>>
        Entry(r, c)  == LET k == Without(c)
                        IN  Signed(r + c, IF r < 2 THEN Cofactor(t1, 1 - r, k[1], k[2], k[3])
                                          ELSE Cofactor(t2, 5 - r, k[1], k[2], k[3]))
        adjugate == Mat(4, [p \in Indices(4) |-> Entry(p[1], p[2])])
    IN  Inverted(a, adjugate, Sum(4, [i \in 0 .. 3 |-> a[4 * i] \otimes adjugate[i]]))

InvertSmall(a) ==
    CASE Order(a) = 1 -> Inverted(a, Eye(1), a[0])
      [] Order(a) = 2 -> Invert2(a)
      [] Order(a) = 3 -> Invert3(a)
      [] OTHER -> Invert4(a)

MatOver(a, b) == Product(a, InvertSmall(b).mat)
Square(a) == Product(a, a)

\* pow() of a whole number.
RECURSIVE Pow(_, _)
Pow(a, p) ==
    CASE p < 0 -> InvertSmall(Pow(a, -p)).mat
      [] p = 0 -> Eye(Order(a))
      [] p = 1 -> a
      [] p > 1 /\ p % 2 = 1 -> Product(Pow(a, p - 1), a)
      [] OTHER -> Square(Pow(a, p \div 2))

-----------------------------------------------------------------------------
\* The determinant by its definition, expanded along the first row.
RECURSIVE Determinant(_)
Determinant(a) ==
    IF Order(a) = 1 THEN a[0]
    ELSE Sum(Order(a), [c \in 0 .. Order(a) - 1 |->
             LET term == a[c] \otimes Determinant(GetMinor(a, 0, c))
             IN  IF c % 2 = 1 THEN Minus(term) ELSE term])

\* What a caller of mat_functions.hpp relies on, for two matrices of n rows, two
\* to four, and two vectors: products, transposes, determinants, powers and the
\* operations on rows and columns fit together.
MatricesHold(a, b, u, v) ==
    LET n  == Order(a)
    IN  \A ab \in {Product(a, b)}, d \in {Det(a)} :
        /\ MatVec(ab, v) = MatVec(a, MatVec(b, v)) /\ VecMat(v, a) = MatVec(a, v)
        /\ MatVec(MatPlus(a, b), v) = Plus(MatVec(a, v), MatVec(b, v))
        /\ MatPlus(MatDiff(a, b), b) = a
        /\ Trans(ab) = Product(Trans(b), Trans(a))
        /\ Det(ab) = d \otimes Det(b) /\ d = Determinant(a)
        /\ Det(Trans(a)) = d
        /\ n > 2 => Product(Adj(a), a) = Scalar(n, d)
        /\ MatVec(OuterProduct(u, v), u) = Scaled(u, Dot(v, u))
        /\ Diagonal(Product(MakeDiag(u), MakeDiag(v))) = Times(u, v)
        /\ n < 4 /\ d # Zero => Product(Pow(a, 3), Pow(a, -2)) = a
        /\ \A i, j \in 0 .. n - 1 :
             /\ Det(SwapRows(a, i, j, 0)) = (IF i = j THEN d ELSE Minus(d))
             /\ SwapColumns(a, i, j, 0) = Trans(SwapRows(Trans(a), i, j, 0))
             /\ GetRow(Trans(a), i) = GetColumn(a, i)
             /\ SetRow(a, i, v) = Trans(SetColumn(Trans(a), i, v))
             /\ Det(SetRow(a, i, GetRow(a, j))) = (IF i = j THEN d ELSE Zero)
        /\ Cardinality({i \in 1 .. 3 : CASE i = 1 -> MatBefore(a, b) [] i = 2 -> MatBefore(b, a)
                                          [] OTHER -> a = b}) = 1
        /\ MatSame(a, b) <=> ~ MatBefore(a, b) /\ ~ MatBefore(b, a)
        /\ RowAfterRow(a) = [k \in 1 .. n * n |-> At(a, (k - 1) \div n, (k - 1) % n)]
        /\ MatDiff(MatFilled(n, MatAbsMax(a)), a) = [i \in DOMAIN a |-> Abs(MatAbsMax(a) \ominus a[i])]
        /\ MatScaled(MatOverScalar(a, Whole(3)), Whole(3)) = a
        /\ n < 4 /\ Det(b) # Zero => MatOver(ab, b) = a
        /\ n = 4 /\ IsSquare(SquaredLength(Subvector(u, 3, 0))) /\ Subvector(u, 3, 0) # Filled(3, Zero) =>
               LET axis   == Subvector(u, 3, 0)
                   turn   == MakeRotation(axis, <<3, 5>>)
                   across == Cross3(axis, Subvector(v, 3, 0))
                   turned == MatVec(turn, Append1(across, One))
               IN  /\ MatVec(turn, Append1(axis, One)) = Append1(axis, One)
                   /\ Dot(Subvector(turned, 3, 0), axis) = Zero
                   /\ SquaredLength(Subvector(turned, 3, 0)) = <<18, 25>> \otimes SquaredLength(across)

\* Not laws, but what the slips of mat.hpp and mat_functions.hpp come to: swap()
\* exchanges the first rows, equals() is false of a matrix and itself, the
\* semimajor diagonal has an element too many, a scalar times a matrix is a product of
\* matrices, trace() multiplies, and make_scale() loses the one in the corner.
MatricesSlip(a, b, u, v) ==
    LET n == Order(a)
        lower == Mat(n, [p \in Indices(n) |-> IF p[2] > p[1] THEN Zero ELSE At(a, p[1], p[2])])
    IN  /\ SwapMats(a, b) = <<SetRow(a, 0, GetRow(b, 0)), SetRow(b, 0, GetRow(a, 0))>>
        /\ ~ EqualsWithin(a, a, Zero) /\ (EqualsWithin(a, b, Zero) => ~ MatSame(a, b))
        /\ Size(SemimajorDiagonal(a)) = n + 1
        /\ \A i \in 0 .. n - 1 : SemimajorDiagonal(a)[i] = At(a, i, n - 1 - i)
        /\ MatVec(ScalarTimesMat(Whole(2), a), v) = Filled(n, Whole(2) \otimes Sum(n, MatVec(a, v)))
        /\ Trace(lower) = Det(lower)
        /\ n = 4 => MatVec(MakeScale(Subvector(u, 3, 0)), Append1(Subvector(v, 3, 0), One))
                        = Append1(Subvector(Times(u, v), 3, 0), Zero)
=============================================================================
