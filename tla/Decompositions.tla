--------------------------- MODULE Decompositions ---------------------------
(* The inverse of a matrix (zi/vl/detail/invert.hpp) and its                *)
(* decompositions: reflections of Householder (detail/householder.hpp) and  *)
(* rotations of Jacobi (detail/jacobi.hpp).                                 *)
(* Elements are fractions, whose square roots must be fractions as well;    *)
(* an epsilon is zero.  A step is an iteration of a function's loop.        *)
EXTENDS Matrices

CONSTANT Samples        \* matrices, by rows, that are inverted

VARIABLES
    \* invert()
    given,      \* the argument of inv()
    matrix, res, determinant,
    column,     \* that is eliminated next
    done,       \* "no", "yes" or "singular"
    \* the decomposition that runs, with its arguments and its variables
    work

matVars == <<given, matrix, res, determinant, column, done>>

-----------------------------------------------------------------------------
(* invert() works in place: up to four rows by a formula, in one step;      *)
(* beyond, one step eliminates a column and one puts what is left back.     *)

MatInit ==
    /\ given \in Samples /\ matrix = given
    /\ res = Eye(Order(given)) /\ determinant = One /\ column = 0 /\ done = "no"

\* invert() of one to four rows.
InvertByFormula ==
    /\ done = "no" /\ Order(matrix) <= 4
    /\ LET i == InvertSmall(matrix)
       IN  /\ matrix' = i.mat /\ determinant' = i.det
           /\ done' = IF i.det = Zero THEN "singular" ELSE "yes"
    /\ UNCHANGED <<given, res, column>>

\* The first of the rows from column on whose element there is the largest.
PivotRow ==
    CHOOSE r \in column .. Order(matrix) - 1 :
        \A s \in column .. Order(matrix) - 1 :
            /\ ~ Abs(At(matrix, r, column)) \prec Abs(At(matrix, s, column))
            /\ s < r => Abs(At(matrix, r, column)) # Abs(At(matrix, s, column))

\* Row i of x over p; and row i, v times, taken from the rows below.
Lowered(x, i, p, v, first) ==
    LET n   == Order(x)
        top == [k \in 0 .. n - 1 |->
                  IF k >= first THEN At(x, i, k) \otimes (One \oslash p) ELSE At(x, i, k)]
    IN  Mat(n, [q \in Indices(n) |->
            CASE q[1] = i -> top[q[2]]
              [] q[1] > i /\ q[2] >= first -> At(x, q[1], q[2]) \ominus (top[q[2]] \otimes v[q[1]])
              [] OTHER -> At(x, q[1], q[2])])

EliminateColumn ==
    /\ done = "no" /\ Order(matrix) > 4 /\ column < Order(matrix)
    /\ LET swapped == SwapRows(matrix, column, PivotRow, column)
           aside   == SwapRows(res, column, PivotRow, 0)
           pivot   == At(swapped, column, column)
           below   == GetColumn(swapped, column)
       IN  IF pivot = Zero
           THEN /\ done' = "singular" /\ determinant' = Zero
                /\ UNCHANGED <<matrix, res, column>>
           ELSE /\ matrix' = Lowered(swapped, column, pivot, below, column + 1)
                /\ res' = Lowered(aside, column, pivot, below, 0)
                /\ determinant' = pivot \otimes
                     (IF PivotRow = column THEN determinant ELSE Minus(determinant))
                /\ column' = column + 1 /\ UNCHANGED done
    /\ UNCHANGED given

\* The rows above get rid of row column - 1, from the last to the second.
BackSubstitute ==
    LET n == Order(matrix)
        cleared[i \in 1 .. n] ==
            IF i = n THEN res
            ELSE LET x == cleared[i + 1]
                 IN  Mat(n, [q \in Indices(n) |->
                       IF q[1] < i THEN At(x, q[1], q[2]) \ominus (At(x, i, q[2]) \otimes At(matrix, q[1], i))
                       ELSE At(x, q[1], q[2])])
    IN  /\ done = "no" /\ n > 4 /\ column = n
        /\ matrix' = cleared[1] /\ done' = "yes"
        /\ UNCHANGED <<given, res, determinant, column>>

MatNext == InvertByFormula \/ EliminateColumn \/ BackSubstitute

-----------------------------------------------------------------------------
\* invert() makes the inverse, and returns the determinant; it refuses the
\* matrices that have none, and no others (invert.hpp, all sizes).
InversesAreExact ==
    /\ done = "yes" => /\ Product(matrix, given) = Eye(Order(given))
                       /\ Product(given, matrix) = Eye(Order(given))
                       /\ determinant = Determinant(given)
    /\ done = "singular" => Determinant(given) = Zero /\ determinant = Zero

-----------------------------------------------------------------------------

Runs(of) == work.of = of /\ ~ work.over

-----------------------------------------------------------------------------
(* Householder.  A vector d and a number l stand for the reflection         *)
(* I - l d d^T, which turns all of a vector but its element i to zero.      *)

Norm(v)    == Root(SquaredLength(v))
From(v, i) == [j \in DOMAIN v |-> IF j < i THEN Zero ELSE v[j]]

\* Whose columns, and whose rows, are reflected, from the one called first on.
ColumnsReflected(a, d, l, first) ==
    LET dr == [c \in 0 .. Order(a) - 1 |-> l \otimes Dot(d, GetColumn(a, c))]
    IN  Mat(Order(a), [p \in Indices(Order(a)) |->
            IF p[2] < first THEN At(a, p[1], p[2])
            ELSE At(a, p[1], p[2]) \ominus (dr[p[2]] \otimes d[p[1]])])
RowsReflected(a, d, l, first) == Trans(ColumnsReflected(Trans(a), d, l, first))

\* The iterations scale the vector by the sum of its absolute elements, choose the sign
\* of the root that does not cancel, and leave column i of a, or row i, as it was:
\* what becomes of it is returned.
SumAbs(v) == Sum(Size(v), [j \in DOMAIN v |-> Abs(v[j])])
SignedNorm(d, i) == IF Zero \prec d[i] THEN Minus(Norm(d)) ELSE Norm(d)

LeftHouseholderIteration(a, u, i) ==
    LET x  == From(GetColumn(a, i), i)
        s  == SumAbs(x)
        d0 == ScaledDown(x, s)
        dl == SignedNorm(d0, i)
        d  == [d0 EXCEPT ![i] = @ \ominus dl]
        l  == One \oslash (SquaredLength(d0) \ominus (d0[i] \otimes dl))
    IN  IF s = Zero THEN [a |-> a, u |-> u, returned |-> Zero]
        ELSE [a |-> ColumnsReflected(a, d, l, i + 1), u |-> RowsReflected(u, d, l, 0),
              returned |-> s \otimes dl]

RightHouseholderIteration(a, v, i) ==
    LET x  == From(GetRow(a, i), i + 1)
        s  == SumAbs(x)
        d0 == ScaledDown(x, s)
        dl == SignedNorm(d0, i + 1)
        d  == [d0 EXCEPT ![i + 1] = @ \ominus dl]
        l  == One \oslash ((d0[i + 1] \otimes dl) \ominus SquaredLength(d0))
    IN  IF s = Zero THEN [a |-> a, v |-> v, returned |-> Zero]
        ELSE [a |-> RowsReflected(a, d, Minus(l), i + 1), v |-> RowsReflected(v, d, Minus(l), 0),
              returned |-> s \otimes dl]

\* The others take the positive root.  No reflection, l = 0, when the vector is zero or
\* is what it should become.
Reflection(x, i) ==
    LET dl == Norm(x)
        l  == Whole(2) \otimes (SquaredLength(x) \ominus (x[i] \otimes dl))
    IN  IF SquaredLength(x) = Zero \/ l = Zero THEN [d |-> x, l |-> Zero]
        ELSE [d |-> [x EXCEPT ![i] = @ \ominus dl], l |-> Whole(2) \oslash l]

\* What step i reflects with: what there is of column i, or of row i.
OfColumn(w) == Reflection(From(GetColumn(w.a, w.i), w.i), w.i)
OfRow(w)    == Reflection(From(GetRow(w.a, w.i), w.i), w.i)

\* Broken: the reflection is not made of the rows of Q, but of its columns.
HouseholderStepOfColumns(w, h) ==
    IF h.l = Zero THEN [w EXCEPT !.ok = FALSE, !.over = TRUE]
    ELSE [w EXCEPT !.q = ColumnsReflected(@, h.d, h.l, 0), !.a = ColumnsReflected(@, h.d, h.l, w.i),
                   !.i = @ + 1, !.over = w.i + 2 = Order(w.a)]

\* householder() and left_householder() give up, and return false, when a column, or a
\* row, needs no reflection; householder_just_R() goes on.
HouseholderStep(w, h) ==
    IF h.l = Zero THEN [w EXCEPT !.ok = FALSE, !.over = TRUE]
    ELSE [w EXCEPT !.q = RowsReflected(@, h.d, h.l, 0), !.a = ColumnsReflected(@, h.d, h.l, w.i),
                   !.i = @ + 1, !.over = w.i + 2 = Order(w.a)]

JustRStep(w, h) ==
    [w EXCEPT !.a = ColumnsReflected(@, h.d, h.l, w.i), !.i = @ + 1, !.over = w.i + 2 = Order(w.a)]

LeftHouseholderStep(w, h) ==
    IF h.l = Zero THEN [w EXCEPT !.ok = FALSE, !.over = TRUE]
    ELSE [w EXCEPT !.q = ColumnsReflected(@, h.d, h.l, 0), !.a = RowsReflected(@, h.d, h.l, w.i),
                   !.i = @ + 1, !.over = w.i + 2 = Order(w.a)]

\* householder_inverse() goes on from there with the triangle of the transpose, whose
\* columns it takes away one by one; what they were is only printed.
EliminateStep(w) ==
    IF At(w.a, w.k, w.k) = Zero THEN [w EXCEPT !.ok = FALSE, !.over = TRUE]
    ELSE [w EXCEPT !.a = Mat(Order(w.a), [p \in Indices(Order(w.a)) |->
                             IF p[2] = w.k /\ p[1] > w.k THEN Zero ELSE At(w.a, p[1], p[2])]),
                   !.k = @ + 1, !.over = w.k + 2 = Order(w.a)]

InverseStep(w, h) ==
    IF w.i < Order(w.a) - 1
    THEN [LeftHouseholderStep(w, h) EXCEPT !.over = h.l = Zero]
    ELSE EliminateStep(w)

\* By turns from the left and from the right; then the two diagonals are put together.
BidiagonalizeStep(w) ==
    LET n     == Order(w.a)
        left  == LeftHouseholderIteration(w.a, w.q, w.i)
        right == RightHouseholderIteration(left.a, w.v, w.i)
        d     == Append1(w.diagonal, left.returned)
    IN  IF w.i < n - 1
        THEN [w EXCEPT !.a = right.a, !.q = left.u, !.v = right.v, !.i = @ + 1,
                       !.diagonal = d, !.super_diagonal = Append1(@, right.returned)]
        ELSE [w EXCEPT !.q = left.u, !.diagonal = d, !.over = TRUE,
                       !.a = Mat(n, [p \in Indices(n) |->
                           CASE p[1] = p[2]     -> d[p[1]]
                             [] p[1] + 1 = p[2] -> w.super_diagonal[p[1]]
                             [] OTHER           -> Zero])]

\* The first column alone; and all rows, beyond their diagonal.
Householder2(w) ==
    LET left == LeftHouseholderIteration(w.a, w.q, 0)
    IN  [w EXCEPT !.a = left.a, !.q = left.u, !.diagonal = Append1(@, left.returned),
                  !.i = 1, !.over = TRUE]

Householder3Step(w) ==
    LET right == RightHouseholderIteration(w.a, w.q, w.i)
    IN  [w EXCEPT !.a = right.a, !.q = right.v, !.super_diagonal = Append1(@, right.returned),
                  !.i = @ + 1, !.over = w.i + 2 = Order(w.a)]

\* Q is made the identity, and the inverse is of the transpose.
StartOf(of, argument) ==
    [of |-> of, given |-> argument, a |-> IF of = "inverse" THEN Trans(argument) ELSE argument,
     q |-> Eye(Order(argument)), v |-> Eye(Order(argument)), diagonal |-> <<>>, super_diagonal |-> <<>>,
     i |-> 0, k |-> 0, ok |-> TRUE, over |-> FALSE]

-----------------------------------------------------------------------------
(* Jacobi: the elements above the diagonal of a symmetric matrix s are      *)
(* turned to zero one after the other, the largest first.  The heap holds   *)
(* the largest of each row, as it was when the row was looked at last.      *)

UpdateIndex(j, r) ==
    LET beyond  == {c \in r + 1 .. Order(j.s) - 1 : At(j.s, r, c) # Zero}
        Weight(c) == Abs(At(j.s, r, c))
        largest == CHOOSE c \in beyond :
                       \A k \in beyond : ~ (Weight(c) \prec Weight(k)) /\ (k < c => Weight(k) # Weight(c))
    IN  IF beyond = {} \/ \E entry \in j.heap : entry.row = r THEN j
        ELSE [j EXCEPT !.heap = @ \cup {[row |-> r, column |-> largest, value |-> Weight(largest)]}]

Solver(s) ==
    LET n == Order(s)
        indexed[i \in 0 .. n] ==
            IF i = 0 THEN [of |-> "jacobi", given |-> s, s |-> s, e |-> Diagonal(s), rows |-> Eye(n), heap |-> {},
                  converged |-> {}, over |-> FALSE]
            ELSE UpdateIndex(indexed[i - 1], i - 1)
    IN  indexed[n]

\* Entries of the same value may come in any order.
Tops(j)   == {entry \in j.heap : \A other \in j.heap : ~ (entry.value \prec other.value)}
Active(j) == j.heap # {} /\ Cardinality(j.converged) < Order(j.s)

\* The angle, and how far the two elements of the diagonal go.
Angle(j, top) ==
    LET y == Fraction(1, 2) \otimes (j.e[top.column] \ominus j.e[top.row])
        p == At(j.s, top.row, top.column)
        q == (p \otimes p) \oplus (y \otimes y)
        t == Abs(y) \oplus Root(q)
        r == (p \otimes p) \oplus (t \otimes t)
        sign == IF y \prec Zero THEN Whole(-1) ELSE One
    IN  IF ~ IsSquare(q) \/ ~ IsSquare(r) \/ r = Zero THEN [known |-> FALSE]
        ELSE [known |-> TRUE, cosine |-> t \oslash Root(r), sine |-> sign \otimes (p \oslash Root(r)),
              t |-> sign \otimes ((p \otimes p) \oslash t)]

First(p1, p2, g)  == (g.cosine \otimes p1) \ominus (g.sine \otimes p2)
Second(p1, p2, g) == (g.sine \otimes p1) \oplus (g.cosine \otimes p2)

\* Where the element of rows a and b lies above the diagonal.
Above(n, a, b) == IF a < b THEN Index(n, a, b) ELSE Index(n, b, a)

Rotate(j, top, g) ==
    LET n == Order(j.s)
        k == top.row
        l == top.column
        turned == [i \in (0 .. n - 1) \ {k, l} |->
                      LET p1 == j.s[Above(n, i, k)]
                          p2 == j.s[Above(n, i, l)]
                      IN  <<First(p1, p2, g), Second(p1, p2, g)>>]
        With(x, y) == {i \in DOMAIN turned : x = Above(n, i, y)}
        Turned(x) == CASE With(x, k) # {} -> turned[CHOOSE i \in With(x, k) : TRUE][1]
                       [] With(x, l) # {} -> turned[CHOOSE i \in With(x, l) : TRUE][2]
                       [] x = Index(n, k, l) -> Zero
                       [] OTHER -> j.s[x]
        rotated == [j EXCEPT
                    !.s    = [x \in DOMAIN j.s |-> Turned(x)],
                    !.e    = [@ EXCEPT ![k] = @ \ominus g.t, ![l] = @ \oplus g.t],
                    !.rows = Mat(n, [p \in Indices(n) |->
                                 LET p1 == At(j.rows, k, p[2])
                                     p2 == At(j.rows, l, p[2])
                                 IN  CASE p[1] = k -> First(p1, p2, g) [] p[1] = l -> Second(p1, p2, g)
                                       [] OTHER -> At(j.rows, p[1], p[2])]),
                    !.heap = @ \ {top},
                    !.converged = IF g.t = Zero THEN @ \cup {k, l} ELSE @ \ {k, l}]
    IN  UpdateIndex(UpdateIndex(rotated, k), l)

\* At the end what is below the diagonal, which has not been touched, goes above it.
Restored(j) ==
    [j EXCEPT !.s = Mat(Order(@), [p \in Indices(Order(@)) |->
                        IF p[1] < p[2] THEN At(@, p[2], p[1]) ELSE At(@, p[1], p[2])]),
              !.over = TRUE]

-----------------------------------------------------------------------------
\* starts: the functions and what they are called with.
DecompositionInit(starts) ==
    \E start \in starts :
        work = IF start.of = "jacobi" THEN Solver(start.given) ELSE StartOf(start.of, start.given)

Householder     == Runs("householder") /\ \E h \in {OfColumn(work)} : work' = HouseholderStep(work, h)
JustR           == Runs("just R") /\ \E h \in {OfColumn(work)} : work' = JustRStep(work, h)
LeftHouseholder == Runs("left householder") /\ \E h \in {OfRow(work)} : work' = LeftHouseholderStep(work, h)
Inverse         == Runs("inverse") /\ \E h \in {OfRow(work)} : work' = InverseStep(work, h)
Bidiagonalize   == Runs("bidiagonalize") /\ work' = BidiagonalizeStep(work)
OneColumn       == Runs("householder 2") /\ work' = Householder2(work)
AllRows         == Runs("householder 3") /\ work' = Householder3Step(work)

\* As far as the roots of the next rotation are fractions.
JacobiRotates == /\ Runs("jacobi") /\ Active(work)
                 /\ \E top \in Tops(work) : \E g \in {Angle(work, top)} :
                        g.known /\ work' = Rotate(work, top, g)
JacobiEnds    == Runs("jacobi") /\ ~ Active(work) /\ work' = Restored(work)

DecompositionNext ==
    \/ Householder \/ JustR \/ LeftHouseholder \/ Inverse \/ Bidiagonalize \/ OneColumn \/ AllRows
    \/ JacobiRotates \/ JacobiEnds

-----------------------------------------------------------------------------
Orthogonal(q)         == Product(q, Trans(q)) = Eye(Order(q))
UpperTriangular(r, i) == \A p \in Indices(Order(r)) : p[1] > p[2] /\ p[2] < i => At(r, p[1], p[2]) = Zero
IsUpper(r)            == UpperTriangular(r, Order(r))
IsLower(r)            == IsUpper(Trans(r))

\* householder.hpp: whatever iterations have been made, Q is orthogonal, the product of
\* what there is is the matrix that was given, and as many columns have their zeros;
\* what householder_inverse() leaves is diagonal and has the determinant but for its
\* sign.  Two diagonals, and an upper triangle with one more diagonal, come out when
\* all is done.
ReflectionsHold(w) ==
    LET n == Order(w.given)
    IN  CASE w.of = "householder" ->
               Product(w.q, w.a) = w.given /\ Orthogonal(w.q) /\ UpperTriangular(w.a, w.i)
          [] w.of = "just R" ->
               Product(Trans(w.a), w.a) = Product(Trans(w.given), w.given) /\ UpperTriangular(w.a, w.i)
          [] w.of = "left householder" ->
               Product(w.a, w.q) = w.given /\ Orthogonal(w.q) /\ UpperTriangular(Trans(w.a), w.i)
          [] w.of = "inverse" ->
               w.over /\ w.ok => IsUpper(w.a) /\ IsLower(w.a) /\ Abs(Det(w.a)) = Abs(Det(w.given))
          [] w.of = "bidiagonalize" ->
               /\ Orthogonal(w.q) /\ Orthogonal(w.v)
               /\ w.over => Product(w.q, Product(w.a, Trans(w.v))) = w.given
          [] w.of = "householder 2" ->
               w.over => /\ Orthogonal(w.q)
                         /\ Product(Trans(w.q), w.given) =
                               SetColumn(w.a, 0, [r \in 0 .. n - 1 |-> IF r = 0 THEN w.diagonal[0] ELSE Zero])
          [] w.of = "householder 3" ->
               /\ Orthogonal(w.q)
               /\ w.over => Product(w.given, w.q) = Mat(n, [p \in Indices(n) |->
                                CASE p[1] + 1 = p[2] -> w.super_diagonal[p[1]]
                                  [] p[1] + 1 < p[2] -> Zero
                                  [] OTHER           -> At(w.a, p[1], p[2])])

\* jacobi.hpp: whatever rotations have been made, E turns the matrix given into what
\* is on the diagonal e and above that of S; when the heap is empty e are the numbers
\* and E the vectors of the matrix; and S is in the end what it was.
RotationsHold(j) ==
    LET turned == Product(Product(j.rows, j.given), Trans(j.rows))
    IN  /\ Orthogonal(j.rows)
        /\ j.over \/ turned = Mat(Order(j.s), [p \in Indices(Order(j.s)) |->
                                  IF p[1] = p[2] THEN j.e[p[1]] ELSE j.s[Above(Order(j.s), p[1], p[2])]])
        /\ j.heap = {} => turned = MakeDiag(j.e)
        /\ j.over => j.s = j.given

DecompositionsHold == IF work.of = "jacobi" THEN RotationsHold(work) ELSE ReflectionsHold(work)
=============================================================================
