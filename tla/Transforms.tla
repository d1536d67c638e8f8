----------------------------- MODULE Transforms -----------------------------
(* The Fourier transforms of zi/math/transforms and the reversal of bits of *)
(* zi/math/bit_reverse.hpp.                                                  *)
(*                                                                           *)
(* The scalars are the integers modulo 97.  There -1 has a root, and so have *)
(* the roots of unity up to the 32nd: a cosine and a sine are what they are  *)
(* in Euler's formulas, and every identity of them holds that the transforms *)
(* rely on.  A complex number is a pair, as in std::complex.                 *)
EXTENDS Integers, SequencesExt, FiniteSets

Modulus == 97
Scalars == 0 .. Modulus - 1

Power[a \in Scalars, k \in 0 .. Modulus] ==
    IF k = 0 THEN 1 ELSE (a * Power[a, k - 1]) % Modulus

\* e to the i times k nths of the full turn, and i.
Unit(k, n) == Power[28, ((32 \div n) * k) % 32]
ImaginaryUnit == 22
OneOver(a) == Power[a % Modulus, Modulus - 2]

Cos(k, n) == ((Unit(k, n) + OneOver(Unit(k, n))) * OneOver(2)) % Modulus
Sin(k, n) == ((Unit(k, n) - OneOver(Unit(k, n))) * OneOver(2 * ImaginaryUnit)) % Modulus

Complex(re, im) == <<re % Modulus, im % Modulus>>
a ++ b  == Complex(a[1] + b[1], a[2] + b[2])
a -- b == Complex(a[1] - b[1], a[2] - b[2])
a ** b == Complex(a[1] * b[1] - a[2] * b[2], a[1] * b[2] + a[2] * b[1])

\* A vector is a function from 0 .. n - 1; resize() appends zeros.
Size(data) == Cardinality(DOMAIN data)
Resized(data, n) == [i \in 0 .. n - 1 |-> IF i < Size(data) THEN data[i] ELSE Complex(0, 0)]
UpTo(n)    == [i \in 1 .. n |-> i]

-----------------------------------------------------------------------------
(* size_log2.hpp, permuter.hpp, roots_table.hpp                              *)

\* The logarithm, rounded up, of an integer of so many bytes (less than 2^30 here).
SizeLog2(x, bytes) ==
    LET Shifted(i, t) == IF t > 30 THEN 0 ELSE i \div 2^t
        Halve(s, t)   == IF s.x = 1 \/ Shifted(s.x, t) = 0 THEN s
                         ELSE [x |-> Shifted(s.x, t), r |-> s.r + t]
        IsPower       == \E k \in 0 .. 29 : x = 2^k
        shifts        == SelectSeq(<<32, 16, 8, 4, 2, 1>>, LAMBDA t : t <= 4 * bytes)
    IN  FoldLeft(Halve, [x |-> x, r |-> IF IsPower THEN 0 ELSE 1], shifts).r

\* permuter_applier<T, 1>: the least logarithm from 1 on.
PermuterLog(n) == CHOOSE s \in 1 .. 26 : n <= 2^s /\ \A r \in 1 .. s - 1 : n > 2^r

Reversers(size) ==
    [i \in 0 .. 2^size - 1 |->
        FoldLeft(LAMBDA sum, j : sum + IF (i \div 2^(j - 1)) % 2 = 1 THEN 2^(size - j) ELSE 0,
                 0, UpTo(size))]

Pairs(size) ==
    LET reversers == Reversers(size)
    IN  SelectSeq([k \in 1 .. 2^size |-> <<k - 1, reversers[k - 1]>>], LAMBDA p : p[1] < p[2])

SwapEach(data, pairs) ==
    FoldLeft(LAMBDA d, p : [d EXCEPT ![p[1]] = d[p[2]], ![p[2]] = d[p[1]]], data, pairs)

ApplyPermutation(data) ==
    LET size == PermuterLog(Size(data))
    IN  SwapEach(Resized(data, 2^size), Pairs(size))

RootsTable(size) ==
    LET n       == 2^size
        half(i) == Complex(Cos(i, n), Sin(i, n))
    IN  [i \in 0 .. n |-> IF i \in {0, n} THEN Complex(1, 0)
                          ELSE IF i <= n \div 2 THEN half(i)
                          ELSE Complex(0, 0) -- half(i - n \div 2)]
GetRootsTable(s) == RootsTable(PermuterLog(s))

-----------------------------------------------------------------------------
(* fft_radix2.hpp.  At a level the elements i and i + mh are combined, by    *)
(* means of the root w; the two versions of a transform differ in the order. *)

RowsFirst(n, mh) ==
    [k \in 1 .. n \div 2 |->
        LET j == (k - 1) % mh
        IN  [i |-> ((k - 1) \div mh) * 2 * mh + j, w |-> j * (n \div (2 * mh))]]
OffsetsFirst(n, mh) ==
    LET rows == n \div (2 * mh)
    IN  [k \in 1 .. n \div 2 |->
            LET j == (k - 1) \div rows
            IN  [i |-> ((k - 1) % rows) * 2 * mh + j, w |-> j * rows]]

\* Broken: the inverse takes the roots from the wrong end by one.
RootAtPast(roots, n, w, inv) == roots[IF inv /\ w > 0 THEN n - w + 1 ELSE w]

RootAt(roots, n, w, inv) == roots[IF inv THEN n - w ELSE w]

DitAlong(data, walk, mh, roots, inv) ==
    FoldLeft(LAMBDA d, b :
                LET v == d[b.i + mh] ** RootAt(roots, Size(d), b.w, inv)
                IN  [d EXCEPT ![b.i] = d[b.i] ++ v, ![b.i + mh] = d[b.i] -- v],
             data, walk)
DifAlong(data, walk, mh, roots, inv) ==
    FoldLeft(LAMBDA d, b :
                [d EXCEPT ![b.i] = d[b.i] ++ d[b.i + mh],
                          ![b.i + mh] = (d[b.i] -- d[b.i + mh])
                                            ** RootAt(roots, Size(d), b.w, inv)],
             data, walk)

DfsRadixDit2(data, inv) ==
    LET start == ApplyPermutation(data)
        n     == Size(start)
    IN  FoldLeft(LAMBDA d, l : DitAlong(d, RowsFirst(n, 2^(l - 1)), 2^(l - 1), GetRootsTable(n), inv),
                 start, UpTo(PermuterLog(n)))
RadixDit2(data, inv) ==
    LET start == ApplyPermutation(data)
        n     == Size(start)
    IN  FoldLeft(LAMBDA d, l : DitAlong(d, OffsetsFirst(n, 2^(l - 1)), 2^(l - 1), GetRootsTable(n), inv),
                 start, UpTo(PermuterLog(n)))

DfsRadixDif2(data, inv) ==
    LET log == SizeLog2(Size(data), 8)
        n   == 2^log
    IN  IF data = <<>> THEN data
        ELSE ApplyPermutation(
                FoldLeft(LAMBDA d, l : DifAlong(d, RowsFirst(n, 2^(l - 1)), 2^(l - 1), GetRootsTable(n), inv),
                         Resized(data, n), Reverse(UpTo(log))))
RadixDif2(data, inv) ==
    LET log == SizeLog2(Size(data), 8)
        n   == 2^log
    IN  IF data = <<>> THEN data
        ELSE ApplyPermutation(
                FoldLeft(LAMBDA d, l : DifAlong(d, OffsetsFirst(n, 2^(l - 1)), 2^(l - 1), GetRootsTable(n), inv),
                         Resized(data, n), Reverse(UpTo(log))))

-----------------------------------------------------------------------------
(* fft_splitradix.hpp                                                        *)

\* The i0 that the passes over a level of blocks of n2 find for an offset: every
\* pass begins later than the one before, and goes four times as far at a step.
Starts(first, step, gap, n) ==
    LET pass[k \in 0 .. n] ==
            LET ix == IF k = 0 THEN first ELSE 2 * step * 4^(k - 1) - gap + first
            IN  IF ix >= n THEN {} ELSE {i \in ix .. n - 1 : (i - ix) % (step * 4^k) = 0} \cup pass[k + 1]
    IN  pass[0]

\* Four elements, n4 apart, with the angle of the j-th of n2 parts of a turn.
SplitQuad(d, i0, n4, j) ==
    LET n2   == 4 * n4
        t0   == d[i0] -- d[i0 + 2 * n4]
        t1   == d[i0 + n4] -- d[i0 + 3 * n4]
        t3   == t0[1] - t1[2]
        t0r  == -(t1[2] + t0[1])
        t4   == t0[2] - t1[1]
        t1r  == t1[1] + t0[2]
        cos1 == Cos(j, n2)    sin1 == Sin(j, n2)
        cos2 == Cos(3 * j, n2) sin2 == Sin(3 * j, n2)
    IN  [d EXCEPT ![i0] = @ ++ d[i0 + 2 * n4],
                  ![i0 + n4] = @ ++ d[i0 + 3 * n4],
                  ![i0 + 2 * n4] = Complex(t4 * sin1 - t0r * cos1, sin1 * t0r + cos1 * t4),
                  ![i0 + 3 * n4] = Complex(t3 * cos2 + t1r * sin2, t1r * cos2 - t3 * sin2)]

SplitLevel(data, n2) ==
    FoldLeft(LAMBDA d, j :
                FoldLeft(LAMBDA x, i0 : SplitQuad(x, i0, n2 \div 4, j - 1), d,
                         SetToSortSeq(Starts(j - 1, 2 * n2, n2, Size(data)), <)),
             data, UpTo(n2 \div 4))

SplitPairs(data) ==
    FoldLeft(LAMBDA d, i : [d EXCEPT ![i] = d[i] ++ d[i + 1], ![i + 1] = d[i] -- d[i + 1]],
             data, SetToSortSeq(Starts(0, 4, 2, Size(data)), <))

SplitradixDif(data) ==
    LET n == 2^SizeLog2(Size(data), 8)
    IN  SplitPairs(FoldLeft(LAMBDA d, l : SplitLevel(d, n \div 2^(l - 1)), data,
                            UpTo(SizeLog2(Size(data), 8))))

Exchanged(data) == [i \in DOMAIN data |-> <<data[i][2], data[i][1]>>]

SplitradixForward(data) ==
    ApplyPermutation(Exchanged(SplitradixDif(Exchanged(Resized(data, 2^SizeLog2(Size(data), 8))))))
SplitradixInverse(data) ==
    ApplyPermutation(SplitradixDif(Resized(data, 2^SizeLog2(Size(data), 8))))

-----------------------------------------------------------------------------
(* fft8.hpp: one macro makes the four functions.                             *)

Fft8(f, oneOrFour, forward) ==
    LET fourOrOne  == 5 - oneOrFour
        threeOrSix == IF oneOrFour = 1 THEN 3 ELSE 6
        sixOrThree == 9 - threeOrSix
        c1 == IF forward THEN -Cos(1, 8) ELSE Cos(1, 8)
        t1 == f[0] ++ f[oneOrFour]            m3 == f[0] -- f[oneOrFour]
        t4 == f[fourOrOne] ++ f[5]            t3 == f[fourOrOne] -- f[5]
        t5 == f[sixOrThree] ++ f[7]           t6 == f[sixOrThree] -- f[7]
        t2 == f[2] ++ f[threeOrSix]           t7 == t1 ++ t2
        m2 == t1 -- t2                       t8 == t4 ++ t5
        m4 == Complex(Cos(1, 8), 0) ** (t3 -- t6)
        m7 == Complex(0, c1) ** (t3 ++ t6)
        m5 == (IF forward THEN t5 -- t4 ELSE t4 -- t5) ** Complex(0, 1)
        m6 == (IF forward THEN f[threeOrSix] -- f[2] ELSE f[2] -- f[threeOrSix])
                ** Complex(0, 1)
        u1 == m3 ++ m4    u2 == m3 -- m4    u3 == m6 ++ m7    u4 == m6 -- m7
    IN  [f EXCEPT ![0] = t7 ++ t8, ![fourOrOne] = t7 -- t8,
                  ![7] = u1 ++ u3, ![oneOrFour] = u1 -- u3,
                  ![threeOrSix] = u2 ++ u4, ![5] = u2 -- u4,
                  ![sixOrThree] = m2 ++ m5, ![2] = m2 -- m5]

-----------------------------------------------------------------------------
(* bit_reverse.hpp.  A word is its bytes, from the lowest.                   *)

Table ==
    <<\h00, \h80, \h40, \hC0, \h20, \hA0, \h60, \hE0, \h10, \h90, \h50, \hD0, \h30, \hB0, \h70, \hF0,
      \h08, \h88, \h48, \hC8, \h28, \hA8, \h68, \hE8, \h18, \h98, \h58, \hD8, \h38, \hB8, \h78, \hF8,
      \h04, \h84, \h44, \hC4, \h24, \hA4, \h64, \hE4, \h14, \h94, \h54, \hD4, \h34, \hB4, \h74, \hF4,
      \h0C, \h8C, \h4C, \hCC, \h2C, \hAC, \h6C, \hEC, \h1C, \h9C, \h5C, \hDC, \h3C, \hBC, \h7C, \hFC,
      \h02, \h82, \h42, \hC2, \h22, \hA2, \h62, \hE2, \h12, \h92, \h52, \hD2, \h32, \hB2, \h72, \hF2,
      \h0A, \h8A, \h4A, \hCA, \h2A, \hAA, \h6A, \hEA, \h1A, \h9A, \h5A, \hDA, \h3A, \hBA, \h7A, \hFA,
      \h06, \h86, \h46, \hC6, \h26, \hA6, \h66, \hE6, \h16, \h96, \h56, \hD6, \h36, \hB6, \h76, \hF6,
      \h0E, \h8E, \h4E, \hCE, \h2E, \hAE, \h6E, \hEE, \h1E, \h9E, \h5E, \hDE, \h3E, \hBE, \h7E, \hFE,
      \h01, \h81, \h41, \hC1, \h21, \hA1, \h61, \hE1, \h11, \h91, \h51, \hD1, \h31, \hB1, \h71, \hF1,
      \h09, \h89, \h49, \hC9, \h29, \hA9, \h69, \hE9, \h19, \h99, \h59, \hD9, \h39, \hB9, \h79, \hF9,
      \h05, \h85, \h45, \hC5, \h25, \hA5, \h65, \hE5, \h15, \h95, \h55, \hD5, \h35, \hB5, \h75, \hF5,
      \h0D, \h8D, \h4D, \hCD, \h2D, \hAD, \h6D, \hED, \h1D, \h9D, \h5D, \hDD, \h3D, \hBD, \h7D, \hFD,
      \h03, \h83, \h43, \hC3, \h23, \hA3, \h63, \hE3, \h13, \h93, \h53, \hD3, \h33, \hB3, \h73, \hF3,
      \h0B, \h8B, \h4B, \hCB, \h2B, \hAB, \h6B, \hEB, \h1B, \h9B, \h5B, \hDB, \h3B, \hBB, \h7B, \hFB,
      \h07, \h87, \h47, \hC7, \h27, \hA7, \h67, \hE7, \h17, \h97, \h57, \hD7, \h37, \hB7, \h77, \hF7,
      \h0F, \h8F, \h4F, \hCF, \h2F, \hAF, \h6F, \hEF, \h1F, \h9F, \h5F, \hDF, \h3F, \hBF, \h7F, \hFF>>
Reversed(byte) == Table[byte + 1]

\* In a word of eight bytes the four lower ones are shifted as an int, whose sign
\* is carried into the upper ones.
ReverseWord(x) ==
    LET last == Size(x) - 1
    IN  [k \in DOMAIN x |-> IF last = 7 /\ k >= 4 /\ Reversed(x[4]) >= 128 THEN 255
                            ELSE Reversed(x[last - k])]

BitOf(x, i) == (x[i \div 8] \div 2^(i % 8)) % 2

\* The bits of the reversed word, shifted to the right by what the width leaves.
ReverseWidth(x, width) ==
    LET shift == 8 * Size(x) - width
    IN  [i \in 0 .. 8 * Size(x) - 1 |->
            IF i + shift < 8 * Size(x) THEN BitOf(ReverseWord(x), i + shift) ELSE 0]

ReverseEach(words, width) ==
    [k \in DOMAIN words |->
        ReverseWidth(words[k], IF width >= 0 THEN width ELSE 8 * Size(words[k]))]

-----------------------------------------------------------------------------
\* The sums that define the transform, of as many elements as a power of two.
Fourier(data, inv) ==
    LET n == 2^PermuterLog(Size(data))
        x == Resized(data, n)
        Root(k) == Complex(Cos(k % n, n), Sin(k % n, n))
    IN  [k \in 0 .. n - 1 |->
            FoldLeft(LAMBDA sum, j : sum ++ (x[j - 1] ** Root(IF inv THEN -(j - 1) * k ELSE (j - 1) * k)),
                     Complex(0, 0), UpTo(n))]

\* All the transforms of fft_radix2.hpp and fft_splitradix.hpp compute the sums.  (Of
\* a single element they do different things.)
TransformsAreSums(data) ==
    LET sums == [inv \in BOOLEAN |-> Fourier(data, inv)]
    IN  /\ \A inv \in BOOLEAN : /\ DfsRadixDit2(data, inv) = sums[inv]
                                /\ RadixDit2(data, inv) = sums[inv]
                                /\ DfsRadixDif2(data, inv) = sums[inv]
                                /\ RadixDif2(data, inv) = sums[inv]
        /\ SplitradixForward(data) = sums[FALSE]
        /\ SplitradixInverse(data) = sums[TRUE]

\* Those of fft8.hpp compute them too, but, and this is not a law but a slip, the one
\* that is called forward gives what the others call the inverse.
Fft8Slips(data) ==
    Size(data) = 8 => \A inv \in BOOLEAN :
        /\ Fft8(ApplyPermutation(data), 1, ~ inv) = Fourier(data, inv)
        /\ ApplyPermutation(Fft8(data, 4, ~ inv)) = Fourier(data, inv)

\* bit_reverse() reverses the bits of a word, or those of its lowest width bits; of
\* a word of eight bytes if bit 32 is not set.
BitsAreReversed(word, width) ==
    LET bits == 8 * Size(word)
    IN  \/ Size(word) = 8 /\ BitOf(word, 32) = 1
        \/ /\ \A i \in 0 .. bits - 1 :
                 BitOf(ReverseWord(word), i) = BitOf(word, bits - 1 - i)
           /\ \A i \in 0 .. width - 1 :
                 ReverseWidth(word, width)[i] = BitOf(word, width - 1 - i)

\* size_log2.hpp rounds up, for all the integers of as many bytes.
LogarithmsRoundUp(bytes) ==
    \A x \in 1 .. 2^(8 * bytes) - 1 :
        LET l == SizeLog2(x, bytes) IN x <= 2^l /\ (l = 0 \/ x > 2^(l - 1))
=============================================================================
