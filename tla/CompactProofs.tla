---------------------------- MODULE CompactProofs ----------------------------
(***************************************************************************)
(* Proofs about the compact form, for words of any number of bytes.        *)
(***************************************************************************)
EXTENDS CompactWords, Codec, WellFoundedInduction, TLAPS

-----------------------------------------------------------------------------
\* Natural numbers.

\* A set of natural numbers has a least one.
LEMMA LeastOf ==
    ASSUME NEW S \in SUBSET Nat, S # {}
    PROVE  \E k \in S : \A l \in S : k <= l
<1> DEFINE R == OpToRel(<, Nat)
<1>1. PICK k \in S : \A l \in S : ~(<<l, k>> \in R)
  <2>1. IsWellFoundedOn(R, Nat)
    BY NatLessThanWellFounded
  <2> HIDE DEF R
  <2> QED BY <2>1, WFMin
<1>2. ASSUME NEW l \in S, ~(k <= l) PROVE FALSE
  <2>1. l \in Nat /\ k \in Nat /\ l < k
    BY <1>2
  <2>2. <<l, k>> \in R
    BY <2>1 DEF OpToRel
  <2> QED BY <1>1, <2>2
<1> QED BY <1>2

\* What holds of m and of the successor of each number it holds of, up to N.
LEMMA FromTo ==
    ASSUME NEW m \in Nat, NEW N \in Nat, NEW S,
           m \in S, \A n \in m .. (N - 1) : n \in S => n + 1 \in S
    PROVE  \A n \in m .. N : n \in S
<1> DEFINE T == {n \in m .. N : n \notin S}
<1> SUFFICES ASSUME T # {} PROVE FALSE
  OBVIOUS
<1>1. T \in SUBSET Nat
  OBVIOUS
<1>2. PICK k \in T : \A l \in T : k <= l
  <2> HIDE DEF T
  <2> QED BY <1>1, LeastOf
<1>3. k \in Nat /\ k # m /\ k - 1 \in m .. (N - 1) /\ k - 1 \notin T
  BY <1>2
<1> QED BY <1>3

\* Values of S, each made of the one before it and of its place.
IsRun(f, S, x, g, N) ==
    f \in [0 .. N -> S] /\ f[0] = x /\ \A n \in 1 .. N : f[n] = g[n][f[n - 1]]

\* A step that can be taken from every value can be taken any number of times.
LEMMA RunExists ==
    ASSUME NEW S, NEW x \in S, NEW N \in Nat, NEW g \in [1 .. N -> [S -> S]]
    PROVE  \E f : IsRun(f, S, x, g, N)
<1> DEFINE Upto(m, f) == f[0] = x /\ \A n \in 1 .. m : f[n] = g[n][f[n - 1]]
           Good == {m \in Nat : \E f \in [0 .. m -> S] : Upto(m, f)}
<1>1. 0 \in Good
  <2> DEFINE f == [n \in 0 .. 0 |-> x]
  <2>1. f \in [0 .. 0 -> S] /\ Upto(0, f)
    OBVIOUS
  <2> QED BY <2>1
<1>2. ASSUME NEW n \in 0 .. (N - 1), n \in Good PROVE n + 1 \in Good
  <2>1. PICK f \in [0 .. n -> S] : Upto(n, f)
    BY <1>2
  <2> DEFINE last == g[n + 1][f[n]]
             h == [k \in 0 .. (n + 1) |-> IF k = n + 1 THEN last ELSE f[k]]
  <2>2. last \in S
    <3>1. n + 1 \in 1 .. N /\ f[n] \in S
      OBVIOUS
    <3> QED BY <3>1
  <2>3. h \in [0 .. (n + 1) -> S] /\ h[n + 1] = last /\ \A k \in 0 .. n : h[k] = f[k]
    <3> HIDE DEF last
    <3> QED BY <2>2
  <2> HIDE DEF h
  <2>4. ASSUME NEW k \in 1 .. (n + 1) PROVE h[k] = g[k][h[k - 1]]
    <3>1. CASE k = n + 1
      BY <2>3, <3>1
    <3>2. CASE k # n + 1
      <4>1. k \in 1 .. n /\ k - 1 \in 0 .. n
        BY <3>2
      <4> QED BY <2>1, <2>3, <4>1
    <3> QED BY <3>1, <3>2
  <2>5. h[0] = x
    BY <2>1, <2>3
  <2>6. n + 1 \in Nat /\ h \in [0 .. (n + 1) -> S] /\ Upto(n + 1, h)
    BY <2>3, <2>4, <2>5
  <2> HIDE DEF Upto
  <2> QED BY <2>6
<1>3. N \in Good
  <2> HIDE DEF Good
  <2>1. \A n \in 0 .. N : n \in Good
    BY <1>1, <1>2, FromTo
  <2> QED BY <2>1
<1> QED BY <1>3 DEF IsRun

-----------------------------------------------------------------------------
\* How many values some bytes have.

\* ValuesIn is the function its equation describes.
LEMMA ValuesInIs ==
    /\ ValuesIn \in [0 .. WORD_BYTES -> Nat]
    /\ ValuesIn[0] = 1
    /\ \A k \in 1 .. WORD_BYTES : ValuesIn[k] = 256 * ValuesIn[k - 1]
<1> DEFINE W == WORD_BYTES
           g == [k \in 1 .. W |-> [v \in Nat |-> 256 * v]]
           Eq(f) == f = [k \in 0 .. W |-> IF k = 0 THEN 1 ELSE 256 * f[k - 1]]
<1>1. W \in Nat
  BY WordBytesAssumption
<1>2. g \in [1 .. W -> [Nat -> Nat]]
  OBVIOUS
<1>3. PICK f : IsRun(f, Nat, 1, g, W)
  <2>1. 1 \in Nat
    OBVIOUS
  <2> HIDE DEF g, W
  <2> QED BY <1>1, <1>2, <2>1, RunExists
<1>4. f \in [0 .. W -> Nat] /\ f[0] = 1 /\ \A k \in 1 .. W : f[k] = g[k][f[k - 1]]
  BY <1>3 DEF IsRun
<1>5. \A k \in 1 .. W : f[k] = 256 * f[k - 1]
  <2> TAKE k \in 1 .. W
  <2>1. k - 1 \in 0 .. W /\ f[k - 1] \in Nat
    BY <1>1, <1>4
  <2> QED BY <1>4, <2>1
<1>6. Eq(f)
  <2> DEFINE h == [k \in 0 .. W |-> IF k = 0 THEN 1 ELSE 256 * f[k - 1]]
  <2>1. \A k \in 0 .. W : h[k] = f[k]
    BY <1>1, <1>4, <1>5
  <2> QED BY <1>4, <2>1
<1>7. Eq(CHOOSE v : Eq(v))
  <2> HIDE DEF Eq
  <2> QED BY <1>6
<1>8. Eq(ValuesIn)
  BY <1>7 DEF ValuesIn
<1>9. ValuesIn[0] = 1 /\ \A k \in 1 .. W : ValuesIn[k] = 256 * ValuesIn[k - 1]
  BY <1>1, <1>8
<1>10. \A k \in 0 .. W : ValuesIn[k] \in Nat
  <2> DEFINE S == {k \in 0 .. W : ValuesIn[k] \in Nat}
  <2>1. 0 \in S
    BY <1>1, <1>9
  <2>2. ASSUME NEW k \in 0 .. W - 1, k \in S PROVE k + 1 \in S
    BY <1>1, <1>9, <2>2
  <2>3. \A k \in 0 .. W : k \in S
    <3> HIDE DEF S
    <3> QED BY <1>1, <2>1, <2>2, FromTo
  <2> QED BY <2>3
<1> QED BY <1>8, <1>9, <1>10

\* They are some, and 256 times as many for each byte.
LEMMA ValuesInGrows ==
    /\ ValuesIn[0] = 1
    /\ \A k \in 0 .. WORD_BYTES : ValuesIn[k] \in Nat /\ ValuesIn[k] > 0
    /\ \A k \in 1 .. WORD_BYTES : ValuesIn[k] = 256 * ValuesIn[k - 1]
    /\ \A j \in 0 .. WORD_BYTES : \A k \in j .. WORD_BYTES : ValuesIn[j] <= ValuesIn[k]
<1> DEFINE W == WORD_BYTES
           S == {k \in 0 .. W : ValuesIn[k] > 0}
<1>1. W \in Nat
  BY WordBytesAssumption
<1>2. /\ \A k \in 0 .. W : ValuesIn[k] \in Nat
      /\ ValuesIn[0] = 1
      /\ \A k \in 1 .. W : ValuesIn[k] = 256 * ValuesIn[k - 1]
  BY ValuesInIs
<1>3. 0 \in S
  BY <1>1, <1>2
<1>4. ASSUME NEW k \in 0 .. W - 1, k \in S PROVE k + 1 \in S
  BY <1>1, <1>2, <1>4
<1>5. \A k \in 0 .. W : k \in S
  <2> HIDE DEF S, W
  <2> QED BY <1>1, <1>3, <1>4, FromTo
<1>6. ASSUME NEW j \in 0 .. W PROVE \A k \in j .. W : ValuesIn[j] <= ValuesIn[k]
  <2> DEFINE T == {k \in j .. W : ValuesIn[j] <= ValuesIn[k]}
  <2>1. j \in T
    BY <1>1, <1>2
  <2>2. ASSUME NEW k \in j .. W - 1, k \in T PROVE k + 1 \in T
    <3>1. k + 1 \in 1 .. W /\ k \in 0 .. W /\ k + 1 - 1 = k
      BY <1>1
    <3>2. ValuesIn[k + 1] = 256 * ValuesIn[k] /\ ValuesIn[k] \in Nat /\ ValuesIn[j] \in Nat
      BY <1>2, <3>1
    <3>3. ValuesIn[j] <= ValuesIn[k]
      BY <2>2
    <3> QED BY <3>1, <3>2, <3>3
  <2>3. \A k \in j .. W : k \in T
    <3> HIDE DEF T, W
    <3> QED BY <1>1, <2>1, <2>2, FromTo
  <2> QED BY <2>3
<1> QED BY <1>1, <1>2, <1>5, <1>6

\* The values of some bytes and of the rest make those of a word.
LEMMA Complement ==
    \A k \in 0 .. WORD_BYTES : Modulus = ValuesIn[k] * ValuesIn[WORD_BYTES - k]
<1> DEFINE W == WORD_BYTES
           S == {k \in 0 .. W : Modulus = ValuesIn[k] * ValuesIn[W - k]}
<1>1. W \in Nat
  BY WordBytesAssumption
<1>2. 0 \in S
  <2>1. Modulus \in Nat /\ ValuesIn[0] = 1 /\ W - 0 = W
    BY <1>1, ValuesInGrows DEF Modulus
  <2> QED BY <1>1, <2>1 DEF Modulus
<1>3. ASSUME NEW k \in 0 .. W - 1, k \in S PROVE k + 1 \in S
  <2>1. k + 1 \in 1 .. W /\ W - k \in 1 .. W /\ k + 1 - 1 = k /\ W - k - 1 = W - (k + 1)
    BY <1>1
  <2> DEFINE a == ValuesIn[k]
             b == ValuesIn[W - (k + 1)]
  <2>2. ValuesIn[k + 1] = 256 * a /\ ValuesIn[W - k] = 256 * b
    BY <2>1, ValuesInGrows
  <2>3. a \in Nat /\ b \in Nat
    BY <1>1, ValuesInGrows
  <2>4. Modulus = a * (256 * b)
    BY <1>3, <2>2
  <2> HIDE DEF a, b
  <2>5. a * (256 * b) = (256 * a) * b
    BY <2>3
  <2>6. Modulus = ValuesIn[k + 1] * ValuesIn[W - (k + 1)]
    BY <2>2, <2>4, <2>5 DEF b
  <2> QED BY <2>1, <2>6
<1>4. \A k \in 0 .. W : k \in S
  <2> HIDE DEF S, W
  <2> QED BY <1>1, <1>2, <1>3, FromTo
<1> QED BY <1>4

-----------------------------------------------------------------------------
\* Sizes.

\* The number a word stands for.
NumberOf(w, isSigned) == IF isSigned THEN AsSigned(w) ELSE w

\* The numbers that have one byte, two, and k counted bytes.
FitsOne(n, isSigned) == IF isSigned THEN n >= -64 /\ n <= 63 ELSE n >= 0 /\ n <= 127
FitsTwo(n, isSigned) == IF isSigned THEN n >= -8192 /\ n <= 8191 ELSE n >= 0 /\ n <= 16383
FitsCounted(n, k, isSigned) ==
    IF isSigned THEN n >= -(ValuesIn[k] \div 2) /\ n < ValuesIn[k] \div 2
    ELSE n >= 0 /\ n < ValuesIn[k]

\* The words, in bytes less by one and by two.
LEMMA Words ==
    /\ WORD_BYTES \in Nat /\ WORD_BYTES >= 2
    /\ \E v \in Nat : /\ v > 0
                      /\ ValuesIn[WORD_BYTES - 2] = v
                      /\ ValuesIn[WORD_BYTES - 1] = 256 * v
                      /\ ValuesIn[WORD_BYTES] = 65536 * v
                      /\ Modulus = 65536 * v
                      /\ Modulus \div 256 = 256 * v
                      /\ Modulus \div 64 = 1024 * v
                      /\ Half = 32768 * v
<1> DEFINE W == WORD_BYTES
           v == ValuesIn[W - 2]
<1>1. W \in Nat /\ W >= 2 /\ W - 2 \in 0 .. W /\ W - 1 \in 1 .. W /\ W \in 1 .. W /\ W - 1 - 1 = W - 2
  BY WordBytesAssumption
<1>2. v \in Nat /\ v > 0
  BY <1>1, ValuesInGrows
<1>3. ValuesIn[W - 1] = 256 * v /\ ValuesIn[W] = 256 * ValuesIn[W - 1]
  BY <1>1, ValuesInGrows
<1> HIDE DEF v
<1>4. Modulus = 65536 * v
  BY <1>2, <1>3 DEF Modulus
<1>5. Modulus \div 256 = 256 * v /\ Modulus \div 64 = 1024 * v /\ Modulus \div 2 = 32768 * v
  BY <1>2, <1>4
<1>6. v = ValuesIn[W - 2]
  BY DEF v
<1> QED BY <1>1, <1>2, <1>3, <1>4, <1>5, <1>6 DEF Half, Modulus

\* Words are natural numbers, and the numbers they stand for are those of a word.
LEMMA NumberIs ==
    ASSUME NEW w \in 0 .. Modulus - 1, NEW isSigned \in BOOLEAN
    PROVE  /\ Modulus \in Nat /\ Half \in Nat /\ w \in Nat
           /\ NumberOf(w, isSigned) \in Int
           /\ FitsCounted(NumberOf(w, isSigned), WORD_BYTES, isSigned)
           /\ \/ NumberOf(w, isSigned) = w /\ NumberOf(w, isSigned) >= 0
              \/ isSigned /\ NumberOf(w, isSigned) = w - Modulus /\ NumberOf(w, isSigned) < 0
<1>1. PICK v \in Nat : v > 0 /\ Modulus = 65536 * v /\ Half = 32768 * v /\ ValuesIn[WORD_BYTES] = 65536 * v
  BY Words
<1>2. ValuesIn[WORD_BYTES] \div 2 = 32768 * v
  BY <1>1
<1>3. w \in Nat /\ w < 65536 * v
  BY <1>1
<1> QED BY <1>1, <1>2, <1>3 DEF NumberOf, AsSigned, FitsCounted

\* The fewest bytes that a number can be counted in.
IsFewest(k, n, isSigned) ==
    /\ k \in 2 .. WORD_BYTES
    /\ FitsCounted(n, k, isSigned)
    /\ \A j \in 2 .. (k - 1) : ~FitsCounted(n, j, isSigned)

\* The size of a number is that of the first class it fits in.
IsSizeOf(size, n, isSigned) ==
    \/ FitsOne(n, isSigned) /\ size = 1
    \/ ~FitsOne(n, isSigned) /\ FitsTwo(n, isSigned) /\ size = 2
    \/ /\ ~FitsOne(n, isSigned) /\ ~FitsTwo(n, isSigned)
       /\ \E k \in 2 .. WORD_BYTES : size = 1 + k /\ IsFewest(k, n, isSigned)

\* A number of a word can be counted in the fewest bytes.
LEMMA FewestExist ==
    ASSUME NEW n, NEW isSigned, FitsCounted(n, WORD_BYTES, isSigned)
    PROVE  \E k : IsFewest(k, n, isSigned)
<1> DEFINE S == {k \in 2 .. WORD_BYTES : FitsCounted(n, k, isSigned)}
<1>1. WORD_BYTES \in 2 .. WORD_BYTES
  BY Words
<1>2. PICK k \in S : \A l \in S : k <= l
  <2>1. S \in SUBSET Nat /\ S # {}
    BY <1>1
  <2> HIDE DEF S
  <2> QED BY <2>1, LeastOf
<1>3. ASSUME NEW j \in 2 .. (k - 1), FitsCounted(n, j, isSigned) PROVE FALSE
  <2>1. j \in S /\ j < k
    BY <1>3, Words
  <2> QED BY <1>2, <2>1
<1> QED BY <1>2, <1>3 DEF IsFewest

\* The sizes of numbers without a sign.
LEMMA SizeofUnsignedIs ==
    ASSUME NEW w \in Nat, FitsCounted(w, WORD_BYTES, FALSE)
    PROVE  IsSizeOf(SizeofUnsigned(w), w, FALSE)
<1> DEFINE one == w <= 127
           two == w <= 16383
           fits(k) == w < ValuesIn[k]
           fewest(k) == fits(k) /\ \A j \in 2 .. (k - 1) : ~fits(j)
           least == CHOOSE k \in 2 .. WORD_BYTES : fewest(k)
           size == SizeofUnsigned(w)
<1>1. \A k : FitsCounted(w, k, FALSE) <=> fits(k)
  BY DEF FitsCounted
<1>2. size = IF one THEN 1 ELSE IF two THEN 2 ELSE 1 + least
  BY DEF SizeofUnsigned, FewestBytes
<1>3. FitsOne(w, FALSE) <=> one
  BY DEF FitsOne
<1>4. FitsTwo(w, FALSE) <=> two
  BY DEF FitsTwo
<1> HIDE DEF one, two, fits, size
<1>5. IsFewest(least, w, FALSE)
  <2>1. \E k \in 2 .. WORD_BYTES : fewest(k)
    BY <1>1, FewestExist DEF IsFewest
  <2>2. least \in 2 .. WORD_BYTES /\ fewest(least)
    <3> HIDE DEF fewest
    <3> QED BY <2>1
  <2> HIDE DEF least
  <2> QED BY <1>1, <2>2 DEF IsFewest
<1>6. least \in 2 .. WORD_BYTES
  BY <1>5 DEF IsFewest
<1> HIDE DEF least, fewest
<1>7. IsSizeOf(size, w, FALSE)
  BY <1>2, <1>3, <1>4, <1>5, <1>6 DEF IsSizeOf
<1> QED BY <1>7 DEF size

\* The sizes of numbers with a sign.
LEMMA SizeofSignedIs ==
    ASSUME NEW n \in Int, FitsCounted(n, WORD_BYTES, TRUE)
    PROVE  IsSizeOf(SizeofSigned(n), n, TRUE)
<1> DEFINE one == n >= -64 /\ n <= 63
           two == n >= -8192 /\ n <= 8191
           fits(k) == n >= -(ValuesIn[k] \div 2) /\ n < ValuesIn[k] \div 2
           fewest(k) == fits(k) /\ \A j \in 2 .. (k - 1) : ~fits(j)
           least == CHOOSE k \in 2 .. WORD_BYTES : fewest(k)
           size == SizeofSigned(n)
<1>1. \A k : FitsCounted(n, k, TRUE) <=> fits(k)
  BY DEF FitsCounted
<1>2. size = IF one THEN 1 ELSE IF two THEN 2 ELSE 1 + least
  BY DEF SizeofSigned, FewestBytes
<1>3. FitsOne(n, TRUE) <=> one
  BY DEF FitsOne
<1>4. FitsTwo(n, TRUE) <=> two
  BY DEF FitsTwo
<1> HIDE DEF one, two, fits, size
<1>5. IsFewest(least, n, TRUE)
  <2>1. \E k \in 2 .. WORD_BYTES : fewest(k)
    BY <1>1, FewestExist DEF IsFewest
  <2>2. least \in 2 .. WORD_BYTES /\ fewest(least)
    <3> HIDE DEF fewest
    <3> QED BY <2>1
  <2> HIDE DEF least
  <2> QED BY <1>1, <2>2 DEF IsFewest
<1>6. least \in 2 .. WORD_BYTES
  BY <1>5 DEF IsFewest
<1> HIDE DEF least, fewest
<1>7. IsSizeOf(size, n, TRUE)
  BY <1>2, <1>3, <1>4, <1>5, <1>6 DEF IsSizeOf
<1> QED BY <1>7 DEF size

\* The sizes of words.
LEMMA SizeofIs ==
    ASSUME NEW w \in 0 .. Modulus - 1, NEW isSigned \in BOOLEAN
    PROVE  IsSizeOf(Sizeof(w, isSigned), NumberOf(w, isSigned), isSigned)
<1>1. CASE isSigned
  <2>1. Sizeof(w, TRUE) = SizeofSigned(NumberOf(w, TRUE)) /\ isSigned = TRUE
    BY <1>1 DEF Sizeof, NumberOf
  <2>2. NumberOf(w, TRUE) \in Int /\ FitsCounted(NumberOf(w, TRUE), WORD_BYTES, TRUE)
    BY NumberIs
  <2> QED BY <2>1, <2>2, SizeofSignedIs
<1>2. CASE ~isSigned
  <2>1. Sizeof(w, FALSE) = SizeofUnsigned(w) /\ NumberOf(w, FALSE) = w /\ isSigned = FALSE
    BY <1>2 DEF Sizeof, NumberOf
  <2>2. w \in Nat /\ FitsCounted(w, WORD_BYTES, FALSE)
    BY <2>1, NumberIs
  <2> QED BY <2>1, <2>2, SizeofUnsignedIs
<1> QED BY <1>1, <1>2

-----------------------------------------------------------------------------
\* Counted bytes.

\* A shift by a byte, in a word: of what has room, of a negative number, and of a negative
\* number whose sign was extended by the constant that is one byte short.
LEMMA ShiftByteIs ==
    /\ ValuesIn[WORD_BYTES - 1] \in Nat /\ Modulus \div 256 = ValuesIn[WORD_BYTES - 1]
    /\ \A u \in Nat : u < ValuesIn[WORD_BYTES - 1] => ShiftByte(u) = 256 * u
    /\ \A u \in Int : u < 0 /\ u >= -ValuesIn[WORD_BYTES - 1] =>
            /\ ShiftByte(u + Modulus) = 256 * u + Modulus
            /\ ShiftByte(u + (Modulus \div 256)) = 256 * u + Modulus
<1>1. PICK v \in Nat : /\ v > 0 /\ ValuesIn[WORD_BYTES - 1] = 256 * v
                       /\ Modulus = 65536 * v /\ Modulus \div 256 = 256 * v
  BY Words
<1> DEFINE q == 256 * v
<1>2. q \in Nat /\ q > 0 /\ ValuesIn[WORD_BYTES - 1] = q /\ Modulus = 256 * q /\ Modulus \div 256 = q
  BY <1>1
<1> HIDE DEF q
<1>3. \A x : ShiftByte(x) = (x % q) * 256
  BY <1>2 DEF ShiftByte
<1>4. ASSUME NEW u \in Nat, u < q PROVE ShiftByte(u) = 256 * u
  <2>1. u % q = u
    BY <1>2, <1>4
  <2> QED BY <1>3, <2>1
<1>5. ASSUME NEW u \in Int, u < 0, u >= -q
      PROVE  ShiftByte(u + 256 * q) = 256 * u + 256 * q /\ ShiftByte(u + q) = 256 * u + 256 * q
  <2> DEFINE r == u + q
             x == u + 256 * q
  <2>1. r \in Nat /\ r < q /\ x = q * 255 + r /\ x \in Nat
    BY <1>2, <1>5
  <2>2. r * 256 = 256 * u + 256 * q
    BY <1>2
  <2> HIDE DEF r, x
  <2>3. x % q = r /\ r % q = r
    BY <1>2, <2>1
  <2>4. ShiftByte(x) = 256 * u + 256 * q /\ ShiftByte(r) = 256 * u + 256 * q
    BY <1>3, <2>2, <2>3
  <2> QED BY <2>4 DEF r, x
<1> QED BY <1>2, <1>4, <1>5

\* A number and one more byte below it.
WithByte(u, c) == 256 * u + c

\* What becomes of a number of k bytes with one more byte.
GrowsBy(u, c, k, isSigned) ==
    /\ WithByte(u, c) \in Int
    /\ FitsCounted(WithByte(u, c), k + 1, isSigned)
    /\ u < ValuesIn[WORD_BYTES - 1] /\ u >= -ValuesIn[WORD_BYTES - 1]
    /\ u < 0 <=> WithByte(u, c) < 0

\* One more byte keeps the sign of a number, and the number in one more byte.
LEMMA OneMoreByte ==
    ASSUME NEW k \in 1 .. WORD_BYTES - 1, NEW isSigned \in BOOLEAN, NEW c \in 0 .. 255,
           NEW u \in Int, FitsCounted(u, k, isSigned)
    PROVE  GrowsBy(u, c, k, isSigned)
<1> DEFINE W == WORD_BYTES
           a == ValuesIn[k - 1]
           q == ValuesIn[W - 1]
<1>1. /\ W \in Nat /\ k - 1 \in 0 .. W /\ k \in 1 .. W /\ k \in 0 .. W /\ k + 1 \in 1 .. W
      /\ W - 1 \in 0 .. W /\ W - 1 \in k .. W /\ k + 1 - 1 = k
  BY Words
<1>2. a \in Nat /\ a > 0 /\ ValuesIn[k] = 256 * a /\ ValuesIn[k + 1] = 256 * (256 * a) /\ 256 * a <= q /\ q \in Nat
  BY <1>1, ValuesInGrows
<1> HIDE DEF a, q
<1>3. ValuesIn[k] \div 2 = 128 * a /\ ValuesIn[k + 1] \div 2 = 32768 * a
  BY <1>2
<1>6. 256 * u + c \in Int
  OBVIOUS
<1>4. CASE isSigned
  <2>1. u >= -(128 * a) /\ u < 128 * a
    BY <1>3, <1>4 DEF FitsCounted
  <2>2. 256 * u + c >= -(32768 * a) /\ 256 * u + c < 32768 * a
    BY <1>2, <2>1
  <2>3. FitsCounted(256 * u + c, k + 1, isSigned)
    BY <1>3, <1>4, <2>2 DEF FitsCounted
  <2>4. u < q /\ u >= -q /\ (u < 0 <=> 256 * u + c < 0)
    BY <1>2, <2>1
  <2> QED BY <2>3, <2>4, <1>6 DEF q, WithByte, GrowsBy
<1>5. CASE ~isSigned
  <2>1. u >= 0 /\ u < 256 * a
    BY <1>2, <1>5 DEF FitsCounted
  <2>2. 256 * u + c >= 0 /\ 256 * u + c < 256 * (256 * a)
    BY <1>2, <2>1
  <2>3. FitsCounted(256 * u + c, k + 1, isSigned)
    BY <1>2, <1>5, <2>2 DEF FitsCounted
  <2>4. u < q /\ u >= -q /\ (u < 0 <=> 256 * u + c < 0)
    BY <1>2, <2>1
  <2> QED BY <2>3, <2>4, <1>6 DEF q, WithByte, GrowsBy
<1> QED BY <1>4, <1>5

\* The numbers the last bytes of p stand for: all of them from the last one on.
AreNumbersIn(v, p, n, isSigned) ==
    /\ v \in [1 .. n -> Int]
    /\ v[n] = IF isSigned /\ p[n] >= 128 THEN p[n] - 256 ELSE p[n]
    /\ \A i \in 1 .. n - 1 : v[i] = WithByte(v[i + 1], p[i])
    /\ \A i \in 1 .. n : FitsCounted(v[i], n - i + 1, isSigned)
    /\ \A i \in 1 .. n : v[i] < 0 <=> isSigned /\ p[n] >= 128

\* Bytes stand for numbers.
LEMMA NumbersExist ==
    ASSUME NEW n \in 1 .. WORD_BYTES, NEW p \in [1 .. n -> 0 .. 255], NEW isSigned \in BOOLEAN
    PROVE  \E v : AreNumbersIn(v, p, n, isSigned)
<1> DEFINE first == IF isSigned /\ p[n] >= 128 THEN p[n] - 256 ELSE p[n]
           g == [i \in 1 .. n - 1 |-> [u \in Int |-> WithByte(u, p[n - i])]]
<1>1. n \in Nat /\ n - 1 \in Nat /\ n >= 1 /\ n <= WORD_BYTES /\ WORD_BYTES \in Nat
  BY Words
<1>2. p[n] \in 0 .. 255 /\ p[n] \in Int /\ p[n] >= 0 /\ p[n] < 256 /\ first \in Int
  <2>1. n \in 1 .. n
    BY <1>1
  <2> DEFINE top == p[n]
  <2>2. top \in 0 .. 255
    BY <2>1
  <2> HIDE DEF top
  <2>3. (IF isSigned /\ top >= 128 THEN top - 256 ELSE top) \in Int
    BY <2>2
  <2>4. top \in Int /\ top >= 0 /\ top < 256
    BY <2>2
  <2> QED BY <2>2, <2>3, <2>4 DEF top
<1>3. \A i \in 1 .. n - 1 : n - i \in 1 .. n - 1 /\ p[n - i] \in 0 .. 255
  BY <1>1
<1>4. g \in [1 .. n - 1 -> [Int -> Int]]
  <2> SUFFICES ASSUME NEW i \in 1 .. n - 1 PROVE [u \in Int |-> WithByte(u, p[n - i])] \in [Int -> Int]
    OBVIOUS
  <2> DEFINE c == p[n - i]
  <2>1. c \in 0 .. 255
    BY <1>3
  <2> HIDE DEF c
  <2>2. [u \in Int |-> WithByte(u, c)] \in [Int -> Int]
    BY <2>1 DEF WithByte
  <2> QED BY <2>2 DEF c
<1>5. PICK b : IsRun(b, Int, first, g, n - 1)
  <2> HIDE DEF first, g
  <2> QED BY <1>1, <1>2, <1>4, RunExists
<1>6. b \in [0 .. n - 1 -> Int] /\ b[0] = first /\ \A m \in 1 .. n - 1 : b[m] = g[m][b[m - 1]]
  BY <1>5 DEF IsRun
<1>7. \A m \in 1 .. n - 1 : b[m] = WithByte(b[m - 1], p[n - m])
  <2> TAKE m \in 1 .. n - 1
  <2>1. b[m - 1] \in Int
    BY <1>1, <1>6
  <2> QED BY <1>6, <2>1
<1> DEFINE Right(m) == /\ FitsCounted(b[m], m + 1, isSigned)
                       /\ b[m] < 0 <=> isSigned /\ p[n] >= 128
           S == {m \in 0 .. n - 1 : Right(m)}
<1>8. 0 \in S
  <2>1. ValuesIn[1] = 256
    <3>1. 1 \in 1 .. WORD_BYTES /\ 1 - 1 = 0
      BY <1>1
    <3> QED BY <3>1, ValuesInGrows
  <2>2. ValuesIn[1] \div 2 = 128
    BY <2>1
  <2> DEFINE top == p[n]
  <2>0. top \in Int /\ top >= 0 /\ top < 256 /\ b[0] = IF isSigned /\ top >= 128 THEN top - 256 ELSE top
    BY <1>2, <1>6
  <2> HIDE DEF top
  <2>3. b[0] < 0 <=> isSigned /\ p[n] >= 128
    <3>1. b[0] < 0 <=> isSigned /\ top >= 128
      <4>1. CASE isSigned /\ top >= 128
        BY <2>0, <4>1
      <4>2. CASE ~(isSigned /\ top >= 128)
        BY <2>0, <4>2
      <4> QED BY <4>1, <4>2
    <3> QED BY <3>1 DEF top
  <2>4. CASE isSigned
    <3>1. b[0] >= -128 /\ b[0] < 128
      <4>1. CASE top >= 128
        BY <2>0, <2>4, <4>1
      <4>2. CASE ~(top >= 128)
        BY <2>0, <4>2
      <4> QED BY <4>1, <4>2
    <3> QED BY <1>1, <2>2, <2>3, <2>4, <3>1 DEF FitsCounted
  <2>5. CASE ~isSigned
    <3>1. b[0] >= 0 /\ b[0] < 256
      BY <2>0, <2>5
    <3> QED BY <1>1, <2>1, <2>3, <2>5, <3>1 DEF FitsCounted
  <2> QED BY <2>4, <2>5
<1>9. ASSUME NEW m \in 0 .. n - 1 - 1, m \in S PROVE m + 1 \in S
  <2>1. m + 1 \in 1 .. n - 1 /\ m + 1 - 1 = m /\ m + 1 \in 1 .. WORD_BYTES - 1 /\ m \in 0 .. n - 1
    BY <1>1
  <2> DEFINE c == p[n - (m + 1)]
             u == b[m]
  <2>2. c \in 0 .. 255 /\ u \in Int /\ b[m + 1] = WithByte(u, c)
    <3>1. c \in 0 .. 255
      BY <1>3, <2>1
    <3>2. u \in Int
      BY <1>6, <2>1
    <3>3. b[m + 1] = WithByte(b[m + 1 - 1], p[n - (m + 1)])
      BY <1>7, <2>1
    <3> QED BY <2>1, <3>1, <3>2, <3>3
  <2>3. FitsCounted(u, m + 1, isSigned) /\ (u < 0 <=> isSigned /\ p[n] >= 128)
    BY <1>9
  <2> HIDE DEF c, u
  <2> DEFINE k == m + 1
  <2>4. FitsCounted(WithByte(u, c), k + 1, isSigned) /\ (u < 0 <=> WithByte(u, c) < 0)
    <3>1. k \in 1 .. WORD_BYTES - 1 /\ FitsCounted(u, k, isSigned)
      BY <2>1, <2>3
    <3> HIDE DEF k
    <3>2. c \in 0 .. 255 /\ u \in Int
      BY <2>2
    <3>3. GrowsBy(u, c, k, isSigned)
      BY <3>1, <3>2, OneMoreByte, Zenon
    <3> QED BY <3>3 DEF GrowsBy
  <2>5. Right(m + 1)
    BY <2>2, <2>3, <2>4
  <2> QED BY <2>1, <2>5
<1>10. \A m \in 0 .. n - 1 : Right(m)
  <2>1. \A m \in 0 .. n - 1 : m \in S
    <3> HIDE DEF S
    <3> QED BY <1>1, <1>8, <1>9, FromTo, ZenonT(40)
  <2> QED BY <2>1
<1> DEFINE v == [i \in 1 .. n |-> b[n - i]]
<1>11. \A i \in 1 .. n : n - i \in 0 .. n - 1 /\ v[i] = b[n - i]
  BY <1>1
<1>12. v \in [1 .. n -> Int]
  BY <1>6, <1>11
<1>13. v[n] = first
  BY <1>1, <1>6, <1>11
<1>14. \A i \in 1 .. n - 1 : v[i] = WithByte(v[i + 1], p[i])
  <2> TAKE i \in 1 .. n - 1
  <2>1. n - i \in 1 .. n - 1 /\ n - i - 1 = n - (i + 1) /\ n - (n - i) = i /\ i \in 1 .. n /\ i + 1 \in 1 .. n
    BY <1>1
  <2>2. b[n - i] = WithByte(b[n - i - 1], p[n - (n - i)])
    BY <1>7, <2>1
  <2>3. v[i] = b[n - i] /\ v[i + 1] = b[n - (i + 1)]
    BY <1>11, <2>1
  <2> HIDE DEF v
  <2> QED BY <2>1, <2>2, <2>3
<1>15. ASSUME NEW i \in 1 .. n
       PROVE  FitsCounted(v[i], n - i + 1, isSigned) /\ (v[i] < 0 <=> isSigned /\ p[n] >= 128)
  <2> HIDE DEF v
  <2>1. v[i] = b[n - i] /\ n - i \in 0 .. n - 1
    BY <1>11
  <2> QED BY <1>10, <2>1
<1> HIDE DEF v
<1> QED BY <1>12, <1>13, <1>14, <1>15 DEF AreNumbersIn

\* The word the code makes of a number whose bytes are n: it extends the sign by a constant
\* that is one byte short, which the shift for a second byte makes up for.
WordOf(x, n) ==
    IF x >= 0 THEN x ELSE IF n = 1 THEN x + (Modulus \div 256) ELSE x + Modulus

\* One more byte of a word is one more of its number.
LEMMA WordWithByte ==
    ASSUME NEW k \in 1 .. WORD_BYTES - 1, NEW isSigned \in BOOLEAN, NEW c \in 0 .. 255,
           NEW u \in Int, FitsCounted(u, k, isSigned)
    PROVE  ShiftByte(WordOf(u, k)) + c = WordOf(WithByte(u, c), k + 1)
<1>1. /\ WithByte(u, c) \in Int /\ WithByte(u, c) = 256 * u + c
      /\ u < ValuesIn[WORD_BYTES - 1] /\ u >= -ValuesIn[WORD_BYTES - 1]
      /\ u < 0 <=> WithByte(u, c) < 0
  <2>1. WithByte(u, c) = 256 * u + c
    BY DEF WithByte
  <2>2. /\ WithByte(u, c) \in Int
        /\ u < ValuesIn[WORD_BYTES - 1] /\ u >= -ValuesIn[WORD_BYTES - 1]
        /\ u < 0 <=> WithByte(u, c) < 0
    <3>1. GrowsBy(u, c, k, isSigned)
      BY OneMoreByte, Zenon
    <3> QED BY <3>1 DEF GrowsBy
  <2> QED BY <2>1, <2>2
<1>2. Modulus \in Nat /\ Modulus \div 256 \in Int
  BY Words
<1> DEFINE y == WithByte(u, c)
           n == k + 1
<1>3. n # 1
  OBVIOUS
<1>4. CASE u >= 0
  <2>1. WordOf(u, k) = u
    BY <1>4 DEF WordOf
  <2>2. ShiftByte(u) = 256 * u
    BY <1>1, <1>4, ShiftByteIs
  <2>3. y \in Int /\ y >= 0 /\ y = 256 * u + c
    BY <1>1, <1>4
  <2> HIDE DEF y, n
  <2>4. WordOf(y, n) = y
    BY <2>3 DEF WordOf
  <2> QED BY <2>1, <2>2, <2>3, <2>4 DEF y, n
<1>5. CASE ~(u >= 0)
  <2>1. WordOf(u, k) = u + Modulus \/ WordOf(u, k) = u + (Modulus \div 256)
    BY <1>5 DEF WordOf
  <2>2. ShiftByte(WordOf(u, k)) = 256 * u + Modulus
    BY <1>1, <1>5, <2>1, ShiftByteIs
  <2>3. y \in Int /\ ~(y >= 0) /\ y = 256 * u + c
    BY <1>1, <1>5
  <2> HIDE DEF y, n
  <2>4. WordOf(y, n) = y + Modulus
    BY <1>3, <2>3 DEF WordOf
  <2>5. 256 * u + Modulus + c = y + Modulus
    BY <1>2, <2>3
  <2> QED BY <2>2, <2>4, <2>5 DEF y, n
<1> QED BY <1>4, <1>5

\* What the code makes of counted bytes.
LEMMA CountedIs ==
    ASSUME NEW n \in 1 .. WORD_BYTES, NEW p \in [1 .. n -> 0 .. 255], NEW isSigned \in BOOLEAN,
           NEW v, AreNumbersIn(v, p, n, isSigned)
    PROVE  CountedBytes(p, isSigned) = WordOf(v[1], n)
<1> DEFINE start == IF isSigned /\ p[n] >= 128 THEN (Modulus \div 256) - 256 + p[n] ELSE p[n]
           Eq(f) == f = [i \in 1 .. n |-> IF i = n THEN start ELSE ShiftByte(f[i + 1]) + p[i]]
           f0 == [i \in 1 .. n |-> WordOf(v[i], n - i + 1)]
           word0 == CHOOSE f : Eq(f)
<1>1. n \in Nat /\ n >= 1 /\ n <= WORD_BYTES /\ WORD_BYTES \in Nat /\ n \in 1 .. n /\ 1 \in 1 .. n
  BY Words
<1>2. /\ \A i \in 1 .. n : v[i] \in Int /\ FitsCounted(v[i], n - i + 1, isSigned)
      /\ v[n] = IF isSigned /\ p[n] >= 128 THEN p[n] - 256 ELSE p[n]
      /\ \A i \in 1 .. n - 1 : v[i] = WithByte(v[i + 1], p[i])
  BY DEF AreNumbersIn
<1>3. f0[n] = start
  <2> DEFINE top == p[n]
             d == Modulus \div 256
  <2>1. top \in 0 .. 255 /\ d \in Int
    BY <1>1, Words
  <2>2. f0[n] = WordOf(v[n], 1)
    <3>1. n - n + 1 = 1
      BY <1>1
    <3> QED BY <1>1, <3>1
  <2>3. v[n] = IF isSigned /\ top >= 128 THEN top - 256 ELSE top
    BY <1>2
  <2>4. start = IF isSigned /\ top >= 128 THEN d - 256 + top ELSE top
    OBVIOUS
  <2>5. WordOf(v[n], 1) = IF v[n] >= 0 THEN v[n] ELSE v[n] + d
    BY DEF WordOf
  <2> HIDE DEF top, d, start, f0
  <2>6. CASE isSigned /\ top >= 128
    <3>1. v[n] = top - 256 /\ ~(v[n] >= 0) /\ start = d - 256 + top
      BY <2>1, <2>3, <2>4, <2>6
    <3> QED BY <2>1, <2>2, <2>5, <3>1
  <2>7. CASE ~(isSigned /\ top >= 128)
    <3>1. v[n] = top /\ v[n] >= 0 /\ start = top
      BY <2>1, <2>3, <2>4, <2>7
    <3> QED BY <2>2, <2>5, <3>1
  <2> QED BY <2>6, <2>7
<1>4. ASSUME NEW i \in 1 .. n - 1 PROVE f0[i] = ShiftByte(f0[i + 1]) + p[i]
  <2>1. /\ i \in 1 .. n /\ i + 1 \in 1 .. n /\ n - i \in 1 .. WORD_BYTES - 1
        /\ n - (i + 1) + 1 = n - i
    BY <1>1
  <2>2. f0[i] = WordOf(v[i], n - i + 1) /\ f0[i + 1] = WordOf(v[i + 1], n - i)
    BY <2>1
  <2> HIDE DEF f0
  <2> DEFINE u == v[i + 1]
             k == n - i
             c == p[i]
  <2>3. u \in Int /\ FitsCounted(u, k, isSigned) /\ k \in 1 .. WORD_BYTES - 1
    BY <1>2, <2>1
  <2>4. c \in 0 .. 255
    BY <2>1
  <2>5. v[i] = WithByte(u, c)
    BY <1>2
  <2> HIDE DEF u, k, c
  <2>6. ShiftByte(WordOf(u, k)) + c = WordOf(WithByte(u, c), k + 1)
    BY <2>3, <2>4, WordWithByte, ZenonT(40)
  <2> QED BY <2>2, <2>5, <2>6 DEF u, k, c
<1>5. Eq(f0)
  <2> DEFINE h == [i \in 1 .. n |-> IF i = n THEN start ELSE ShiftByte(f0[i + 1]) + p[i]]
  <2>1. ASSUME NEW i \in 1 .. n PROVE h[i] = f0[i]
    <3> HIDE DEF f0, start
    <3>1. CASE i = n
      BY <1>3, <3>1
    <3>2. CASE i # n
      <4>1. i \in 1 .. n - 1
        BY <1>1, <3>2
      <4> QED BY <1>4, <3>2, <4>1
    <3> QED BY <3>1, <3>2
  <2>2. f0 = [i \in 1 .. n |-> f0[i]]
    OBVIOUS
  <2>3. h = [i \in 1 .. n |-> f0[i]]
    <3> HIDE DEF f0, start
    <3> QED BY <2>1
  <2> HIDE DEF f0, start
  <2> QED BY <2>2, <2>3
<1>6. Eq(word0)
  <2> HIDE DEF Eq, f0
  <2> QED BY <1>5
<1>7. CountedBytes(p, isSigned) = word0[1]
  <2>1. Len(p) = n
    BY <1>1
  <2> QED BY <2>1 DEF CountedBytes
<1> HIDE DEF word0, start
<1>8. word0[n] = start /\ \A i \in 1 .. n - 1 : word0[i] = ShiftByte(word0[i + 1]) + p[i]
  <2>1. \A i \in 1 .. n : word0[i] = IF i = n THEN start ELSE ShiftByte(word0[i + 1]) + p[i]
    BY <1>6
  <2>2. \A i \in 1 .. n - 1 : i \in 1 .. n /\ i # n
    BY <1>1
  <2> QED BY <1>1, <2>1, <2>2
<1> DEFINE S == {m \in 0 .. n - 1 : word0[n - m] = f0[n - m]}
<1> HIDE DEF f0
<1>9. 0 \in S
  <2>1. n - 0 = n /\ 0 \in 0 .. n - 1
    BY <1>1
  <2> QED BY <1>3, <1>8, <2>1
<1>10. ASSUME NEW m \in 0 .. n - 1 - 1, m \in S PROVE m + 1 \in S
  <2> DEFINE i == n - (m + 1)
  <2>1. i \in 1 .. n - 1 /\ i + 1 = n - m /\ m + 1 \in 0 .. n - 1
    BY <1>1
  <2>2. word0[n - m] = f0[n - m]
    BY <1>10
  <2> HIDE DEF i
  <2>3. word0[i] = ShiftByte(word0[i + 1]) + p[i] /\ f0[i] = ShiftByte(f0[i + 1]) + p[i]
    BY <1>4, <1>8, <2>1
  <2>4. word0[i] = f0[i]
    BY <2>1, <2>2, <2>3
  <2> QED BY <2>1, <2>4 DEF i
<1>11. n - 1 \in S
  <2>1. \A m \in 0 .. n - 1 : m \in S
    <3>1. n - 1 \in Nat
      BY <1>1
    <3> HIDE DEF S
    <3> QED BY <1>9, <1>10, <3>1, FromTo
  <2>2. n - 1 \in 0 .. n - 1
    BY <1>1
  <2> HIDE DEF S
  <2> QED BY <2>1, <2>2
<1>12. word0[1] = f0[1]
  <2>1. n - (n - 1) = 1
    BY <1>1
  <2> QED BY <1>11, <2>1
<1>13. f0[1] = WordOf(v[1], n)
  <2>1. n - 1 + 1 = n
    BY <1>1
  <2> QED BY <1>1, <2>1 DEF f0
<1> QED BY <1>7, <1>12, <1>13

-----------------------------------------------------------------------------
\* Reading.

\* A buffer stream that can be read.
Reader(s) ==
    /\ s \in [in : {TRUE}, out : BOOLEAN, mem : {s.mem}, max : Nat, pos : Nat, eof : BOOLEAN]
    /\ s.pos <= s.max

\* The stream some bytes further on, and after a read that was refused.
Moved(s, n) == [s EXCEPT !.pos = s.pos + n]
Refused(s) == [s EXCEPT !.eof = TRUE]

\* A stream that has moved is one that can be read, over the same bytes.
LEMMA MovedIs ==
    ASSUME NEW s, Reader(s), NEW n \in Nat, s.pos + n <= s.max
    PROVE  /\ Reader(Moved(s, n))
           /\ Moved(s, n).pos = s.pos + n
           /\ Moved(s, n).max = s.max
           /\ Moved(s, n).mem = s.mem
<1> DEFINE x == s.pos + n
           t == [s EXCEPT !.pos = x]
<1>1. s \in [in : {TRUE}, out : BOOLEAN, mem : {s.mem}, max : Nat, pos : Nat, eof : BOOLEAN]
  BY DEF Reader
<1>2. x \in Nat
  BY <1>1
<1> HIDE DEF x
<1>3. t \in [in : {TRUE}, out : BOOLEAN, mem : {s.mem}, max : Nat, pos : Nat, eof : BOOLEAN]
  BY <1>1, <1>2
<1>4. t.pos = x /\ t.max = s.max /\ t.mem = s.mem
  BY <1>1
<1>5. Moved(s, n) = t /\ x = s.pos + n
  BY DEF Moved, x
<1> HIDE DEF t
<1>6. Reader(t)
  BY <1>3, <1>4, <1>5 DEF Reader
<1> QED BY <1>4, <1>5, <1>6

\* A stream that moves twice moves by the sum.
LEMMA MovedTwice ==
    ASSUME NEW s, Reader(s), NEW m \in Nat, NEW n \in Nat
    PROVE  Moved(Moved(s, m), n) = Moved(s, m + n)
<1> DEFINE x == s.pos + m
           y == s.pos + (m + n)
           t == [s EXCEPT !.pos = x]
<1>1. s \in [in : {TRUE}, out : BOOLEAN, mem : {s.mem}, max : Nat, pos : Nat, eof : BOOLEAN]
  BY DEF Reader
<1>2. x + n = y
  BY <1>1
<1>3. Moved(s, m) = t /\ Moved(s, m + n) = [s EXCEPT !.pos = y]
  BY DEF Moved
<1> HIDE DEF x, y
<1>4. t.pos = x
  BY <1>1
<1>5. [t EXCEPT !.pos = y] = [s EXCEPT !.pos = y]
  BY <1>1
<1>6. Moved(t, n) = [t EXCEPT !.pos = y]
  BY <1>2, <1>4 DEF Moved
<1> QED BY <1>3, <1>5, <1>6

\* A refused read leaves the stream where it was, at its end.
LEMMA RefusedIs ==
    ASSUME NEW s, Reader(s)
    PROVE  Refused(s).pos = s.pos /\ Refused(s).max = s.max /\ Refused(s).mem = s.mem /\ Refused(s).eof = TRUE
<1>1. s \in [in : {TRUE}, out : BOOLEAN, mem : {s.mem}, max : Nat, pos : Nat, eof : BOOLEAN]
  BY DEF Reader
<1> QED BY <1>1 DEF Refused

\* A read gives what there is, all of it or nothing.
LEMMA ReadIs ==
    ASSUME NEW s, Reader(s), NEW n \in Nat, n <= INT_MAX
    PROVE  /\ s.pos + n <= s.max => BufferRead(s, n) = [ok |-> TRUE, s |-> Moved(s, n)]
           /\ ~(s.pos + n <= s.max) => BufferRead(s, n) = [ok |-> FALSE, s |-> Refused(s)]
<1>1. s.in = TRUE /\ s.max \in Nat /\ s.pos \in Nat /\ s.pos <= s.max
  BY DEF Reader
<1>2. Room(s) = s.max - s.pos
  BY <1>1 DEF Room, UintMinus
<1>3. ReadFits(s, n) <=> s.pos + n <= s.max
  BY <1>1, <1>2 DEF ReadFits
<1>4. (s.eof \/ (n <= INT_MAX /\ s.in)) = TRUE
  BY <1>1
<1> QED BY <1>3, <1>4 DEF BufferRead, Moved, Refused

\* What is decoded, by the first byte.
LEMMA DecodeAtEnd ==
    ASSUME NEW s, Reader(s), s.pos = s.max, NEW isSigned
    PROVE  DecodeVLC(s, isSigned) = Failed(Refused(s))
<1>1. ~(s.pos + 1 <= s.max) /\ 1 <= INT_MAX
  BY IntMaxAssumption DEF Reader
<1>2. BufferRead(s, 1) = [ok |-> FALSE, s |-> Refused(s)]
  BY <1>1, ReadIs
<1>3. ~BufferRead(s, 1).ok /\ BufferRead(s, 1).s = Refused(s)
  BY <1>2
<1> QED BY <1>3, SMTT(40) DEF DecodeVLC

\* One byte, or none for a null.
LEMMA DecodeOne ==
    ASSUME NEW s, Reader(s), s.pos < s.max, NEW isSigned, s.mem[s.pos] \in Nat
    PROVE  /\ s.mem[s.pos] < 128 =>
                DecodeVLC(s, isSigned) = Value(OneByte(s.mem[s.pos], isSigned), Moved(s, 1))
           /\ s.mem[s.pos] = 192 => DecodeVLC(s, isSigned) = Null(Moved(s, 1))
           /\ s.mem[s.pos] > 192 + WORD_BYTES => DecodeVLC(s, isSigned) = Failed(Moved(s, 1))
<1> DEFINE first == s.mem[s.pos]
<1>1. BufferRead(s, 1) = [ok |-> TRUE, s |-> Moved(s, 1)]
  <2>1. s.pos + 1 <= s.max /\ 1 <= INT_MAX
    BY IntMaxAssumption DEF Reader
  <2> QED BY <2>1, ReadIs
<1>2. first \in Nat /\ WORD_BYTES \in Nat
  BY Words
<1>3. CASE first < 128
  <2>1. ~(first = 192) /\ ~(first > 192) /\ first \notin (128 .. 191) \union (193 .. (192 + WORD_BYTES))
    BY <1>2, <1>3
  <2> HIDE DEF first
  <2>2. DecodeVLC(s, isSigned) = Value(OneByte(first, isSigned), Moved(s, 1))
    BY <1>1, <1>3, <2>1, SMTT(40) DEF DecodeVLC, first
  <2> QED BY <1>3, <2>1, <2>2, <1>2 DEF first
<1>4. CASE first = 192
  <2>1. DecodeVLC(s, isSigned) = Null(Moved(s, 1))
    BY <1>1, <1>2, <1>4 DEF DecodeVLC
  <2> QED BY <1>2, <1>4, <2>1
<1>5. CASE first > 192 + WORD_BYTES
  <2>1. /\ ~(first < 128) /\ ~(first = 192) /\ ~(first < 192) /\ first > 192 /\ first - 192 > WORD_BYTES
        /\ first \notin (128 .. 191) \union (193 .. (192 + WORD_BYTES))
    BY <1>2, <1>5
  <2> HIDE DEF first
  <2>2. DecodeVLC(s, isSigned) = Failed(Moved(s, 1))
    BY <1>1, <2>1, SMTT(40) DEF DecodeVLC, first
  <2> QED BY <2>1, <2>2 DEF first
<1>6. CASE ~(first < 128) /\ ~(first = 192) /\ ~(first > 192 + WORD_BYTES)
  BY <1>6
<1> QED BY <1>3, <1>4, <1>5, <1>6

\* Two bytes, or counted ones.
LEMMA DecodeMore ==
    ASSUME NEW s, Reader(s), s.pos < s.max, NEW isSigned, NEW more \in 1 .. WORD_BYTES,
           \/ s.mem[s.pos] \in 128 .. 191 /\ more = 1
           \/ s.mem[s.pos] = 192 + more
    PROVE  LET first == s.mem[s.pos]
               rest == [i \in 1 .. more |-> s.mem[s.pos + i]]
           IN  IF s.pos + 1 + more <= s.max
               THEN DecodeVLC(s, isSigned) =
                        Value(IF first < 192 THEN TwoBytes(first, rest[1], isSigned)
                                             ELSE CountedBytes(rest, isSigned),
                              Moved(s, 1 + more))
               ELSE DecodeVLC(s, isSigned) = Failed(Refused(Moved(s, 1)))
<1> DEFINE first == s.mem[s.pos]
           rest == [i \in 1 .. more |-> s.mem[s.pos + i]]
           s1 == Moved(s, 1)
<1>1. BufferRead(s, 1) = [ok |-> TRUE, s |-> s1]
  <2>1. s.pos + 1 <= s.max /\ 1 <= INT_MAX
    BY IntMaxAssumption DEF Reader
  <2> QED BY <2>1, ReadIs
<1>2. s.pos \in Nat /\ s.max \in Nat /\ s.pos + 1 <= s.max /\ more \in Nat /\ more >= 1
      /\ WORD_BYTES \in Nat /\ more <= WORD_BYTES /\ more <= INT_MAX /\ INT_MAX \in Nat
  BY Words, WordBytesAssumption, IntMaxAssumption DEF Reader
<1>3. Reader(s1) /\ s1.pos = s.pos + 1 /\ s1.max = s.max /\ s1.mem = s.mem
  BY <1>2, MovedIs
<1> HIDE DEF s1
<1>4. BytesAt(s1.mem, s1.pos, more) = rest
  <2>1. \A i \in 1 .. more : s.pos + 1 + i - 1 = s.pos + i
    BY <1>2
  <2> QED BY <1>3, <2>1 DEF BytesAt
<1>5. first \in Nat /\ more = (IF first < 192 THEN 1 ELSE first - 192)
  BY <1>2
<1>6. /\ ~(first < 128) /\ ~(first = 192)
      /\ ~(first > 192 /\ more > WORD_BYTES)
      /\ first \in (128 .. 191) \union (193 .. (192 + WORD_BYTES))
  BY <1>2
<1>7. DecodeVLC(s, isSigned) =
        IF ~BufferRead(s1, more).ok THEN Failed(BufferRead(s1, more).s)
        ELSE IF first < 192 THEN Value(TwoBytes(first, rest[1], isSigned), BufferRead(s1, more).s)
        ELSE Value(CountedBytes(rest, isSigned), BufferRead(s1, more).s)
  <2> DEFINE r1 == BufferRead(s, 1)
             m == IF first < 192 THEN 1 ELSE first - 192
             r2 == BufferRead(r1.s, m)
             bytes == BytesAt(r1.s.mem, r1.s.pos, m)
             many == IF ~r2.ok THEN Failed(r2.s)
                     ELSE IF first < 192 THEN Value(TwoBytes(first, bytes[1], isSigned), r2.s)
                     ELSE Value(CountedBytes(bytes, isSigned), r2.s)
             result == CASE ~r1.ok -> Failed(r1.s)
                         [] r1.ok /\ first < 128 -> Value(OneByte(first, isSigned), r1.s)
                         [] r1.ok /\ first = 192 -> Null(r1.s)
                         [] r1.ok /\ first > 192 /\ m > WORD_BYTES -> Failed(r1.s)
                         [] r1.ok /\ first \in (128 .. 191) \union (193 .. (192 + WORD_BYTES)) -> many
  <2>1. DecodeVLC(s, isSigned) = result
    BY DEF DecodeVLC
  <2>2. r1.ok = TRUE /\ r1.s = s1 /\ m = more
    BY <1>1, <1>5
  <2>3. bytes = rest /\ r2 = BufferRead(s1, more)
    BY <1>4, <2>2
  <2> HIDE DEF first, rest, r1, m, many
  <2>4. result = many
    BY <1>6, <2>2
  <2> HIDE DEF result, bytes, r2
  <2> QED BY <2>1, <2>3, <2>4 DEF many
<1>8. CASE s.pos + 1 + more <= s.max
  <2>1. BufferRead(s1, more) = [ok |-> TRUE, s |-> Moved(s1, more)]
    BY <1>2, <1>3, <1>8, ReadIs
  <2>2. Moved(s1, more) = Moved(s, 1 + more)
    BY <1>2, MovedTwice DEF s1
  <2> HIDE DEF first, rest
  <2>3. DecodeVLC(s, isSigned) =
            Value(IF first < 192 THEN TwoBytes(first, rest[1], isSigned)
                                 ELSE CountedBytes(rest, isSigned),
                  Moved(s, 1 + more))
    BY <1>7, <2>1, <2>2
  <2> QED BY <1>8, <2>3 DEF first, rest
<1>9. CASE ~(s.pos + 1 + more <= s.max)
  <2>1. BufferRead(s1, more) = [ok |-> FALSE, s |-> Refused(s1)]
    BY <1>2, <1>3, <1>9, ReadIs
  <2>2. DecodeVLC(s, isSigned) = Failed(Refused(Moved(s, 1)))
    BY <1>7, <2>1 DEF s1
  <2> QED BY <1>9, <2>2
<1> QED BY <1>8, <1>9

-----------------------------------------------------------------------------
\* What is decoded from one byte, two bytes and counted bytes has the size it came in.

\* The numbers of a size.
FitsIn(n, size, isSigned) ==
    IF size = 1 THEN FitsOne(n, isSigned)
    ELSE IF size = 2 THEN FitsTwo(n, isSigned)
    ELSE FitsCounted(n, size - 1, isSigned)

\* One byte.
LEMMA OneByteFits ==
    ASSUME NEW first \in 0 .. 127, NEW isSigned \in BOOLEAN
    PROVE  /\ OneByte(first, isSigned) \in 0 .. Modulus - 1
           /\ FitsOne(NumberOf(OneByte(first, isSigned), isSigned), isSigned)
<1>1. PICK v \in Nat : v > 0 /\ Modulus = 65536 * v /\ Half = 32768 * v
  BY Words
<1>2. CASE isSigned /\ first >= 64
  <2> DEFINE x == Modulus - 128 + first
  <2>1. x \in 0 .. Modulus - 1 /\ x >= Half /\ x - Modulus = first - 128 /\ first - 128 >= -64 /\ first - 128 <= 63
    BY <1>1, <1>2
  <2>2. OneByte(first, isSigned) = x
    BY <1>2 DEF OneByte
  <2> HIDE DEF x
  <2>3. NumberOf(x, isSigned) = first - 128
    BY <1>2, <2>1 DEF NumberOf, AsSigned
  <2>4. FitsOne(first - 128, isSigned)
    BY <1>2, <2>1 DEF FitsOne
  <2> QED BY <2>1, <2>2, <2>3, <2>4
<1>3. CASE ~(isSigned /\ first >= 64)
  <2>1. first \in 0 .. Modulus - 1 /\ ~(first >= Half)
    BY <1>1
  <2>2. OneByte(first, isSigned) = first
    BY <1>3 DEF OneByte
  <2>3. NumberOf(first, isSigned) = first
    BY <2>1 DEF NumberOf, AsSigned
  <2>4. FitsOne(first, isSigned)
    BY <1>3 DEF FitsOne
  <2> QED BY <2>1, <2>2, <2>3, <2>4
<1> QED BY <1>2, <1>3

\* The number in two bytes: its low six bits, and the rest.
PairOf(first, second, isSigned) ==
    64 * (IF isSigned /\ second >= 128 THEN second - 256 ELSE second) + (first - 128)

\* Two bytes.
LEMMA TwoBytesAre ==
    ASSUME NEW first \in 128 .. 191, NEW second \in 0 .. 255, NEW isSigned \in BOOLEAN
    PROVE  /\ TwoBytes(first, second, isSigned) =
                    IF PairOf(first, second, isSigned) < 0
                    THEN PairOf(first, second, isSigned) + Modulus ELSE PairOf(first, second, isSigned)
           /\ TwoBytes(first, second, isSigned) \in 0 .. Modulus - 1
           /\ NumberOf(TwoBytes(first, second, isSigned), isSigned) = PairOf(first, second, isSigned)
           /\ FitsTwo(NumberOf(TwoBytes(first, second, isSigned), isSigned), isSigned)
<1>1. PICK v \in Nat : v > 0 /\ Modulus = 65536 * v /\ Modulus \div 64 = 1024 * v /\ Half = 32768 * v
  BY Words
<1> DEFINE low == first - 128
           d == 1024 * v
<1>2. low \in 0 .. 63 /\ first % 64 = low /\ d \in Nat /\ d >= 1024 /\ Modulus = 64 * d
      /\ Modulus \div 64 = d /\ Half = 32 * d
  BY <1>1
<1> HIDE DEF low, d
<1>3. CASE isSigned /\ second >= 128
  <2> DEFINE h == second - 256
             high == Modulus - 256 + second
             r == d + h
             n == 64 * h + low
  <2>1. h \in Int /\ h >= -128 /\ h < 0 /\ high = d * 63 + r /\ r \in Nat /\ r < d /\ high \in Nat
    BY <1>2, <1>3
  <2> HIDE DEF high, r
  <2>2. high % (Modulus \div 64) = r
    <3>1. high % d = r
      BY <1>2, <2>1
    <3> QED BY <1>2, <3>1
  <2>3. ShiftSix(high) = r * 64
    BY <2>2 DEF ShiftSix
  <2>4. TwoBytes(first, second, isSigned) = r * 64 + low
    BY <1>2, <1>3, <2>3 DEF TwoBytes, high
  <2>5. r * 64 = 64 * h + Modulus
    BY <1>2, <2>1 DEF r
  <2> HIDE DEF h
  <2>6. r * 64 + low = n + Modulus /\ n \in Int /\ n < 0 /\ n >= -8192 /\ n <= 8191
    BY <1>2, <2>1, <2>5
  <2> DEFINE x == n + Modulus
  <2> HIDE DEF n
  <2>7. x \in 0 .. Modulus - 1 /\ x >= Half /\ x - Modulus = n
    BY <1>2, <2>6
  <2> HIDE DEF x
  <2>8. NumberOf(x, isSigned) = n
    BY <1>3, <2>7 DEF NumberOf, AsSigned
  <2>9. FitsTwo(n, isSigned)
    BY <1>3, <2>6 DEF FitsTwo
  <2>10. TwoBytes(first, second, isSigned) = x
    BY <2>4, <2>6 DEF x
  <2>11. x = IF n < 0 THEN n + Modulus ELSE n
    BY <2>6 DEF x
  <2>12. PairOf(first, second, isSigned) = n
    BY <1>3 DEF PairOf, n, h, low
  <2> QED BY <2>7, <2>8, <2>9, <2>10, <2>11, <2>12
<1>4. CASE ~(isSigned /\ second >= 128)
  <2> DEFINE n == 64 * second + low
  <2>1. second % (Modulus \div 64) = second
    <3>1. second % d = second
      BY <1>2
    <3> QED BY <1>2, <3>1
  <2>2. ShiftSix(second) = second * 64
    BY <2>1 DEF ShiftSix
  <2>3. TwoBytes(first, second, isSigned) = n
    BY <1>2, <1>4, <2>2 DEF TwoBytes
  <2>4. n \in Int /\ n >= 0 /\ n <= 16383
    BY <1>2
  <2>5. isSigned => n <= 8191
    BY <1>2, <1>4
  <2> HIDE DEF n
  <2>6. n \in 0 .. Modulus - 1 /\ (isSigned => ~(n >= Half))
    BY <1>2, <2>4, <2>5
  <2>7. NumberOf(n, isSigned) = n
    BY <2>6 DEF NumberOf, AsSigned
  <2>8. FitsTwo(n, isSigned)
    BY <2>4, <2>5 DEF FitsTwo
  <2>9. n = IF n < 0 THEN n + Modulus ELSE n
    BY <2>4
  <2>10. PairOf(first, second, isSigned) = n
    BY <1>4 DEF PairOf, n, low
  <2> QED BY <2>3, <2>6, <2>7, <2>8, <2>9, <2>10
<1> QED BY <1>3, <1>4

\* A number in counted bytes, and its word.
LEMMA WordOfIs ==
    ASSUME NEW n \in 1 .. WORD_BYTES, NEW isSigned \in BOOLEAN, NEW u \in Int,
           FitsCounted(u, n, isSigned), n > 1 \/ u >= 0
    PROVE  WordOf(u, n) \in 0 .. Modulus - 1 /\ NumberOf(WordOf(u, n), isSigned) = u
<1> DEFINE a == ValuesIn[n]
<1>1. PICK v \in Nat : v > 0 /\ Modulus = 65536 * v /\ Half = 32768 * v /\ ValuesIn[WORD_BYTES] = Modulus
  BY Words
<1>2. a \in Nat /\ a <= Modulus
  <2>1. n \in 0 .. WORD_BYTES /\ WORD_BYTES \in n .. WORD_BYTES
    BY Words
  <2> QED BY <1>1, <2>1, ValuesInGrows
<1>3. isSigned => u >= -(a \div 2) /\ u < a \div 2
  BY DEF FitsCounted
<1>4. ~isSigned => u >= 0 /\ u < a
  BY DEF FitsCounted
<1> HIDE DEF a
<1>5. isSigned => u >= -Half /\ u < Half
  BY <1>1, <1>2, <1>3
<1>6. CASE u >= 0
  <2>1. WordOf(u, n) = u
    BY <1>6 DEF WordOf
  <2>2. u \in 0 .. Modulus - 1 /\ (isSigned => ~(u >= Half))
    BY <1>1, <1>2, <1>4, <1>5, <1>6
  <2>3. NumberOf(u, isSigned) = u
    BY <2>2 DEF NumberOf, AsSigned
  <2> QED BY <2>1, <2>2, <2>3
<1>7. CASE ~(u >= 0)
  <2> DEFINE x == u + Modulus
  <2>1. WordOf(u, n) = x
    <3>1. n # 1
      BY <1>7
    <3> QED BY <1>7, <3>1 DEF WordOf
  <2>2. isSigned /\ x \in 0 .. Modulus - 1 /\ x >= Half /\ x - Modulus = u
    BY <1>1, <1>4, <1>5, <1>7
  <2> HIDE DEF x
  <2>3. NumberOf(x, isSigned) = u
    BY <2>2 DEF NumberOf, AsSigned
  <2> QED BY <2>1, <2>2, <2>3
<1> QED BY <1>6, <1>7

\* Counted bytes, but for one that is negative.
LEMMA CountedFits ==
    ASSUME NEW n \in 1 .. WORD_BYTES, NEW p \in [1 .. n -> 0 .. 255], NEW isSigned \in BOOLEAN,
           n > 1 \/ ~(isSigned /\ p[n] >= 128)
    PROVE  /\ CountedBytes(p, isSigned) \in 0 .. Modulus - 1
           /\ FitsCounted(NumberOf(CountedBytes(p, isSigned), isSigned), n, isSigned)
<1>1. PICK v : AreNumbersIn(v, p, n, isSigned)
  BY NumbersExist
<1>2. CountedBytes(p, isSigned) = WordOf(v[1], n)
  BY <1>1, CountedIs
<1>3. v[1] \in Int /\ FitsCounted(v[1], n, isSigned) /\ (v[1] < 0 => isSigned /\ p[n] >= 128)
  <2>1. 1 \in 1 .. n /\ n - 1 + 1 = n
    OBVIOUS
  <2> QED BY <1>1, <2>1 DEF AreNumbersIn
<1>4. n > 1 \/ v[1] >= 0
  BY <1>3
<1>5. WordOf(v[1], n) \in 0 .. Modulus - 1 /\ NumberOf(WordOf(v[1], n), isSigned) = v[1]
  BY <1>3, <1>4, WordOfIs
<1> QED BY <1>2, <1>3, <1>5

\* A number has no size that is greater than one it fits in.
LEMMA SizeIsLeast ==
    ASSUME NEW n \in Int, NEW isSigned \in BOOLEAN, NEW size, IsSizeOf(size, n, isSigned),
           NEW other \in 1 .. WORD_BYTES + 1, FitsIn(n, other, isSigned)
    PROVE  size <= other /\ size \in Nat
<1>1. WORD_BYTES \in Nat
  BY Words
<1>2. CASE size = 1
  BY <1>2
<1>3. CASE ~FitsOne(n, isSigned) /\ size = 2
  <2>1. other # 1
    BY <1>3 DEF FitsIn
  <2> QED BY <1>3, <2>1
<1>4. CASE ~FitsOne(n, isSigned) /\ ~FitsTwo(n, isSigned)
  <2>1. PICK k \in 2 .. WORD_BYTES : size = 1 + k /\ IsFewest(k, n, isSigned)
    BY <1>4 DEF IsSizeOf
  <2>2. other # 1 /\ other # 2 /\ FitsCounted(n, other - 1, isSigned)
    BY <1>4 DEF FitsIn
  <2>3. ~(other - 1 \in 2 .. (k - 1))
    BY <2>1, <2>2 DEF IsFewest
  <2>4. other - 1 >= k
    BY <1>1, <2>2, <2>3
  <2> QED BY <2>1, <2>4
<1> QED BY <1>2, <1>3, <1>4 DEF IsSizeOf

-----------------------------------------------------------------------------
\* A number laid out in the bytes of its size.

\* The bytes of a word that are counted.
PayloadOf(w, k) == [i \in 1 .. k |-> (w \div ValuesIn[i - 1]) % 256]

\* What the code makes of the bytes of a word.
LaidOut(w, size, isSigned) ==
    IF size = 1 THEN OneByte(w % 128, isSigned)
    ELSE IF size = 2 THEN TwoBytes(128 + (w % 64), (w \div 64) % 256, isSigned)
    ELSE CountedBytes(PayloadOf(w, size - 1), isSigned)

\* The counted bytes of a word are bytes.
LEMMA PayloadIs ==
    ASSUME NEW w \in Nat, NEW k \in 1 .. WORD_BYTES
    PROVE  PayloadOf(w, k) \in [1 .. k -> 0 .. 255] /\ PayloadOf(w, k) \in [1 .. k -> Nat]
<1>1. ASSUME NEW i \in 1 .. k
      PROVE  (w \div ValuesIn[i - 1]) % 256 \in 0 .. 255 /\ (w \div ValuesIn[i - 1]) % 256 \in Nat
  <2> DEFINE b == ValuesIn[i - 1]
  <2>1. i - 1 \in 0 .. WORD_BYTES
    BY Words
  <2>2. b \in Nat /\ b > 0
    BY <2>1, ValuesInGrows
  <2> HIDE DEF b
  <2>3. w \div b \in Nat
    BY <2>2
  <2>4. (w \div b) % 256 \in 0 .. 255 /\ (w \div b) % 256 \in Nat
    BY <2>3
  <2> QED BY <2>4 DEF b
<1> QED BY <1>1, SMTT(40) DEF PayloadOf

\* Whatever the word, its bytes make a word whose number has their size.
LEMMA LaidOutFits ==
    ASSUME NEW w \in Nat, NEW size \in 1 .. WORD_BYTES + 1, NEW isSigned \in BOOLEAN
    PROVE  /\ LaidOut(w, size, isSigned) \in 0 .. Modulus - 1
           /\ FitsIn(NumberOf(LaidOut(w, size, isSigned), isSigned), size, isSigned)
<1>1. CASE size = 1
  <2>1. w % 128 \in 0 .. 127
    OBVIOUS
  <2> QED BY <1>1, <2>1, OneByteFits DEF LaidOut, FitsIn
<1>2. CASE size = 2
  <2> DEFINE first == 128 + (w % 64)
             second == (w \div 64) % 256
  <2>1. first \in 128 .. 191 /\ second \in 0 .. 255
    OBVIOUS
  <2>2. LaidOut(w, size, isSigned) = TwoBytes(first, second, isSigned)
    BY <1>2 DEF LaidOut
  <2> HIDE DEF first, second
  <2>3. /\ TwoBytes(first, second, isSigned) \in 0 .. Modulus - 1
        /\ FitsTwo(NumberOf(TwoBytes(first, second, isSigned), isSigned), isSigned)
    BY <2>1, TwoBytesAre
  <2> QED BY <1>2, <2>2, <2>3 DEF FitsIn
<1>3. CASE size # 1 /\ size # 2
  <2> DEFINE k == size - 1
             p == PayloadOf(w, k)
  <2>1. k \in 1 .. WORD_BYTES /\ k > 1
    BY <1>3, Words
  <2>2. p \in [1 .. k -> 0 .. 255]
    BY <2>1, PayloadIs
  <2>3. LaidOut(w, size, isSigned) = CountedBytes(p, isSigned)
    BY <1>3 DEF LaidOut
  <2>4. FitsIn(NumberOf(CountedBytes(p, isSigned), isSigned), size, isSigned)
            <=> FitsCounted(NumberOf(CountedBytes(p, isSigned), isSigned), k, isSigned)
    BY <1>3 DEF FitsIn
  <2> HIDE DEF p, k
  <2>5. /\ CountedBytes(p, isSigned) \in 0 .. Modulus - 1
        /\ FitsCounted(NumberOf(CountedBytes(p, isSigned), isSigned), k, isSigned)
    BY <2>1, <2>2, CountedFits
  <2> QED BY <2>3, <2>4, <2>5
<1> QED BY <1>1, <1>2, <1>3

\* A number that fits in one byte is found there.
LEMMA OneByteIsIt ==
    ASSUME NEW w \in 0 .. Modulus - 1, NEW isSigned \in BOOLEAN,
           FitsOne(NumberOf(w, isSigned), isSigned)
    PROVE  OneByte(w % 128, isSigned) = w
<1> DEFINE n == NumberOf(w, isSigned)
<1>1. PICK v \in Nat : v > 0 /\ Modulus = 65536 * v
  BY Words
<1>2. /\ n \in Int /\ w \in Nat
      /\ (n = w /\ n >= 0) \/ (isSigned /\ n = w - Modulus /\ n < 0)
  BY NumberIs
<1>3. IF isSigned THEN n >= -64 /\ n <= 63 ELSE n >= 0 /\ n <= 127
  BY DEF FitsOne
<1> HIDE DEF n
<1>4. CASE n = w /\ n >= 0
  <2>1. w % 128 = w /\ (isSigned => ~(w >= 64))
    BY <1>2, <1>3, <1>4
  <2> QED BY <2>1 DEF OneByte
<1>5. CASE isSigned /\ n = w - Modulus /\ n < 0
  <2> DEFINE first == n + 128
             q == 512 * v - 1
  <2>1. w = 128 * q + first /\ first \in 0 .. 127 /\ first >= 64 /\ Modulus - 128 + first = w /\ q \in Int
    BY <1>1, <1>2, <1>3, <1>5
  <2> HIDE DEF first, q
  <2>2. w % 128 = first
    BY <1>2, <2>1
  <2> QED BY <1>5, <2>1, <2>2 DEF OneByte
<1> QED BY <1>2, <1>4, <1>5

\* A number that fits in two bytes is found there.
LEMMA TwoBytesAreIt ==
    ASSUME NEW w \in 0 .. Modulus - 1, NEW isSigned \in BOOLEAN,
           FitsTwo(NumberOf(w, isSigned), isSigned)
    PROVE  TwoBytes(128 + (w % 64), (w \div 64) % 256, isSigned) = w
<1> DEFINE n == NumberOf(w, isSigned)
           first == 128 + (w % 64)
           second == (w \div 64) % 256
           h == IF isSigned /\ second >= 128 THEN second - 256 ELSE second
<1>1. PICK v \in Nat : v > 0 /\ Modulus = 65536 * v
  BY Words
<1>2. /\ n \in Int /\ w \in Nat
      /\ (n = w /\ n >= 0) \/ (isSigned /\ n = w - Modulus /\ n < 0)
  BY NumberIs
<1>3. IF isSigned THEN n >= -8192 /\ n <= 8191 ELSE n >= 0 /\ n <= 16383
  BY DEF FitsTwo
<1>4. first \in 128 .. 191 /\ second \in 0 .. 255
  BY <1>2
<1>5. PICK q \in Int, r \in 0 .. 63 : n = 64 * q + r
  <2>1. n \div 64 \in Int /\ n % 64 \in 0 .. 63 /\ n = 64 * (n \div 64) + (n % 64)
    BY <1>2
  <2> QED BY <2>1
<1>6. IF isSigned THEN q >= -128 /\ q <= 127 ELSE q >= 0 /\ q <= 255
  BY <1>3, <1>5
<1> HIDE DEF n
<1>7. w % 64 = r /\ second = q % 256
  <2>1. CASE n = w /\ n >= 0
    <3>1. w \div 64 = q /\ w % 64 = r
      BY <1>2, <1>5, <2>1
    <3> QED BY <3>1
  <2>2. CASE isSigned /\ n = w - Modulus /\ n < 0
    <3> DEFINE u == q + 256 * (4 * v)
    <3>1. w = 64 * u + r /\ u \in Int
      BY <1>1, <1>2, <1>5, <2>2
    <3>2. w \div 64 = u /\ w % 64 = r
      <4> HIDE DEF u
      <4> QED BY <1>2, <3>1
    <3>3. u % 256 = q % 256
      BY <1>1
    <3> QED BY <3>2, <3>3
  <2> QED BY <1>2, <2>1, <2>2
<1>8. h = q
  <2>1. CASE q >= 0
    <3>1. second = q /\ (isSigned => ~(second >= 128))
      BY <1>6, <1>7, <2>1
    <3> QED BY <3>1
  <2>2. CASE ~(q >= 0)
    <3>1. isSigned /\ q % 256 = q + 256
      BY <1>6, <2>2
    <3>2. second = q + 256 /\ second >= 128
      BY <1>6, <1>7, <3>1
    <3> QED BY <3>1, <3>2
  <2> QED BY <2>1, <2>2
<1>9. PairOf(first, second, isSigned) = n
  BY <1>4, <1>5, <1>7, <1>8 DEF PairOf
<1> HIDE DEF first, second
<1>10. TwoBytes(first, second, isSigned) = IF n < 0 THEN n + Modulus ELSE n
  BY <1>4, <1>9, TwoBytesAre
<1>11. TwoBytes(first, second, isSigned) = w
  BY <1>1, <1>2, <1>10
<1> QED BY <1>11 DEF first, second

\* A byte of a word is that of the number it stands for.
LEMMA ByteIs ==
    ASSUME NEW w \in 0 .. Modulus - 1, NEW isSigned \in BOOLEAN, NEW i \in 0 .. WORD_BYTES - 1
    PROVE  (w \div ValuesIn[i]) % 256 = (NumberOf(w, isSigned) \div ValuesIn[i]) % 256
<1> DEFINE n == NumberOf(w, isSigned)
           b == ValuesIn[i]
           c == ValuesIn[WORD_BYTES - i - 1]
<1>1. /\ n \in Int /\ w \in Nat
      /\ n = w \/ n = w - Modulus
  BY NumberIs
<1>2. /\ i \in 0 .. WORD_BYTES /\ WORD_BYTES - i \in 1 .. WORD_BYTES
      /\ WORD_BYTES - i - 1 \in 0 .. WORD_BYTES
  BY Words
<1>3. b \in Nat /\ b > 0 /\ c \in Nat
  BY <1>2, ValuesInGrows
<1>4. ValuesIn[WORD_BYTES - i] = 256 * c
  BY <1>2, ValuesInGrows
<1>5. Modulus = b * (256 * c)
  BY <1>2, <1>4, Complement
<1> HIDE DEF n, b, c
<1>6. CASE n = w
  BY <1>6 DEF n, b
<1>7. CASE n = w - Modulus
  <2> DEFINE q == n \div b
             r == n % b
  <2>1. q \in Int /\ r \in Int /\ r >= 0 /\ r < b /\ n = (b * q) + r
    BY <1>1, <1>3
  <2> HIDE DEF q, r
  <2> DEFINE u == q + 256 * c
  <2>2. b * u = b * q + b * (256 * c) /\ u \in Int
    BY <1>3, <2>1
  <2>3. u % 256 = q % 256
    BY <1>3, <2>1
  <2> HIDE DEF u
  <2>4. w = (b * u) + r
    BY <1>1, <1>3, <1>5, <1>7, <2>1, <2>2
  <2>5. w \div b = u
    BY <1>1, <1>3, <2>1, <2>2, <2>4
  <2> QED BY <2>3, <2>5 DEF n, b, q
<1> QED BY <1>1, <1>6, <1>7

\* The last of the bytes that a number fits in has its sign.
LEMMA LastByteIs ==
    ASSUME NEW k \in 1 .. WORD_BYTES, NEW isSigned \in BOOLEAN, NEW n \in Int,
           FitsCounted(n, k, isSigned), NEW c, c = (n \div ValuesIn[k - 1]) % 256
    PROVE  n \div ValuesIn[k - 1] = IF isSigned /\ c >= 128 THEN c - 256 ELSE c
<1> DEFINE a == ValuesIn[k - 1]
<1>1. k - 1 \in 0 .. WORD_BYTES
  BY Words
<1>2. a \in Nat /\ a > 0 /\ ValuesIn[k] = 256 * a
  BY <1>1, ValuesInGrows
<1> DEFINE q == n \div a
           r == n % a
<1>3. (256 * a) \div 2 = 128 * a
  BY <1>2
<1>4. IF isSigned THEN n >= -(128 * a) /\ n < 128 * a ELSE n >= 0 /\ n < 256 * a
  BY <1>2, <1>3 DEF FitsCounted
<1>5. q \in Int /\ r \in Int /\ r >= 0 /\ r < a /\ n = (a * q) + r
  BY <1>2
<1> HIDE DEF a, r
<1>6. c = q % 256
  BY DEF a
<1> HIDE DEF q
<1>7. isSigned => q >= -128 /\ q <= 127
  <2>1. ASSUME isSigned, q < -128 PROVE FALSE
    <3>1. a * q <= a * (-129)
      BY <1>2, <1>5, <2>1
    <3> QED BY <1>2, <1>4, <1>5, <2>1, <3>1
  <2>2. ASSUME isSigned, q > 127 PROVE FALSE
    <3>1. a * q >= a * 128
      BY <1>2, <1>5, <2>2
    <3> QED BY <1>2, <1>4, <1>5, <2>2, <3>1
  <2> QED BY <1>5, <2>1, <2>2
<1>8. ~isSigned => q >= 0 /\ q <= 255
  <2>1. ASSUME ~isSigned, q < 0 PROVE FALSE
    <3>1. a * q <= a * (-1)
      BY <1>2, <1>5, <2>1
    <3> QED BY <1>2, <1>4, <1>5, <2>1, <3>1
  <2>2. ASSUME ~isSigned, q > 255 PROVE FALSE
    <3>1. a * q >= a * 256
      BY <1>2, <1>5, <2>2
    <3> QED BY <1>2, <1>4, <1>5, <2>2, <3>1
  <2> QED BY <1>5, <2>1, <2>2
<1>9. CASE q >= 0
  <2>1. c = q /\ (isSigned => ~(c >= 128))
    BY <1>5, <1>6, <1>7, <1>8, <1>9
  <2> QED BY <2>1 DEF q, a
<1>10. CASE ~(q >= 0)
  <2>1. isSigned /\ q % 256 = q + 256
    BY <1>5, <1>7, <1>8, <1>10
  <2>2. c = q + 256 /\ c >= 128 /\ c - 256 = q
    BY <1>5, <1>6, <1>7, <2>1
  <2> QED BY <2>1, <2>2 DEF q, a
<1> QED BY <1>9, <1>10

\* A number that fits in counted bytes is found there.
LEMMA CountedBytesAreIt ==
    ASSUME NEW w \in 0 .. Modulus - 1, NEW isSigned \in BOOLEAN, NEW k \in 2 .. WORD_BYTES,
           FitsCounted(NumberOf(w, isSigned), k, isSigned)
    PROVE  CountedBytes(PayloadOf(w, k), isSigned) = w
<1> DEFINE n == NumberOf(w, isSigned)
           p == PayloadOf(w, k)
<1>1. /\ n \in Int /\ w \in Nat /\ Modulus \in Nat
      /\ (n = w /\ n >= 0) \/ (n = w - Modulus /\ n < 0)
  BY NumberIs
<1>2. k \in 1 .. WORD_BYTES /\ k \in Nat /\ k > 1 /\ WORD_BYTES \in Nat /\ k <= WORD_BYTES
  BY Words
<1>3. p \in [1 .. k -> 0 .. 255]
  BY <1>1, <1>2, PayloadIs
<1>4. \A i \in 1 .. k : p[i] = (n \div ValuesIn[i - 1]) % 256
  <2>1. ASSUME NEW i \in 1 .. k PROVE p[i] = (n \div ValuesIn[i - 1]) % 256
    <3>1. i - 1 \in 0 .. WORD_BYTES - 1
      BY <1>2
    <3>2. (w \div ValuesIn[i - 1]) % 256 = (n \div ValuesIn[i - 1]) % 256
      BY <3>1, ByteIs
    <3> QED BY <3>2 DEF PayloadOf
  <2> QED BY <2>1
<1>5. FitsCounted(n, k, isSigned)
  OBVIOUS
<1> HIDE DEF n, p
<1>6. PICK v : AreNumbersIn(v, p, k, isSigned)
  BY <1>2, <1>3, NumbersExist
<1> DEFINE S == {m \in 0 .. k - 1 : v[k - m] = n \div ValuesIn[k - m - 1]}
<1>7. 0 \in S
  <2>1. p[k] = (n \div ValuesIn[k - 1]) % 256
    BY <1>2, <1>4
  <2>2. n \div ValuesIn[k - 1] = IF isSigned /\ p[k] >= 128 THEN p[k] - 256 ELSE p[k]
    BY <1>1, <1>2, <1>5, <2>1, LastByteIs
  <2>3. v[k] = n \div ValuesIn[k - 1]
    BY <1>6, <2>2 DEF AreNumbersIn
  <2>4. k - 0 = k /\ k - 0 - 1 = k - 1 /\ 0 \in 0 .. k - 1
    BY <1>2
  <2> QED BY <2>3, <2>4
<1>8. ASSUME NEW m \in 0 .. (k - 1) - 1, m \in S PROVE m + 1 \in S
  <2> DEFINE i == k - (m + 1)
             b == ValuesIn[i - 1]
  <2>1. i \in 1 .. k - 1 /\ i + 1 = k - m /\ i = k - m - 1 /\ m + 1 \in 0 .. k - 1 /\ i \in 1 .. WORD_BYTES
        /\ i - 1 \in 0 .. WORD_BYTES /\ i \in 1 .. k
    BY <1>2
  <2>2. b \in Nat /\ b > 0 /\ ValuesIn[i] = 256 * b
    BY <2>1, ValuesInGrows
  <2>3. v[i + 1] = n \div ValuesIn[i]
    BY <1>8, <2>1
  <2>4. v[i] = WithByte(v[i + 1], p[i])
    BY <1>6, <2>1 DEF AreNumbersIn
  <2>5. p[i] = (n \div b) % 256
    BY <1>4, <2>1
  <2> HIDE DEF b
  <2>6. (n \div b) \div 256 = n \div (256 * b) /\ n \div b \in Int
    BY <1>1, <2>2
  <2> DEFINE q == n \div b
  <2> HIDE DEF q
  <2>7. WithByte(q \div 256, q % 256) = q
    BY <2>6 DEF WithByte, q
  <2>8. v[i] = q
    BY <2>2, <2>3, <2>4, <2>5, <2>6, <2>7 DEF q
  <2> QED BY <2>1, <2>8 DEF q, b
<1>9. \A m \in 0 .. k - 1 : m \in S
  <2>1. k - 1 \in Nat
    BY <1>2
  <2> HIDE DEF S
  <2> QED BY <1>7, <1>8, <2>1, FromTo
<1>10. v[1] = n
  <2>1. k - 1 \in S /\ k - (k - 1) = 1 /\ k - (k - 1) - 1 = 0
    BY <1>2, <1>9
  <2>2. v[1] = n \div ValuesIn[0] /\ ValuesIn[0] = 1
    BY <2>1, ValuesInGrows
  <2> QED BY <1>1, <2>2
<1>11. CountedBytes(p, isSigned) = WordOf(n, k)
  BY <1>2, <1>3, <1>6, <1>10, CountedIs
<1>12. WordOf(n, k) = w
  BY <1>1, <1>2 DEF WordOf
<1> QED BY <1>11, <1>12 DEF p

\* A number that fits in a size is found in its bytes.
LEMMA LaidOutIsIt ==
    ASSUME NEW w \in 0 .. Modulus - 1, NEW isSigned \in BOOLEAN, NEW size \in 1 .. WORD_BYTES + 1,
           FitsIn(NumberOf(w, isSigned), size, isSigned)
    PROVE  LaidOut(w, size, isSigned) = w
<1>1. CASE size = 1
  BY <1>1, OneByteIsIt DEF FitsIn, LaidOut
<1>2. CASE size = 2
  BY <1>2, TwoBytesAreIt DEF FitsIn, LaidOut
<1>3. CASE size # 1 /\ size # 2
  <2>1. size - 1 \in 2 .. WORD_BYTES
    BY <1>3, Words
  <2>2. FitsCounted(NumberOf(w, isSigned), size - 1, isSigned)
    BY <1>3 DEF FitsIn
  <2>3. CountedBytes(PayloadOf(w, size - 1), isSigned) = w
    BY <2>1, <2>2, CountedBytesAreIt
  <2> QED BY <1>3, <2>3 DEF LaidOut
<1> QED BY <1>1, <1>2, <1>3

-----------------------------------------------------------------------------
\* What is decoded from the bytes that were encoded.

\* The bytes of a word laid out in a size, one by one.
IsLayout(d, w, size) ==
    /\ d \in Seq(Nat)
    /\ Len(d) = size
    /\ size = 1 => d[1] = w % 128
    /\ size = 2 => d[1] = 128 + (w % 64) /\ d[2] = (w \div 64) % 256
    /\ size > 2 => /\ d[1] = 192 + (size - 1)
                   /\ \A i \in 1 .. size - 1 : d[1 + i] = PayloadOf(w, size - 1)[i]

\* The bytes of a word.
LEMMA LayoutIs ==
    ASSUME NEW w \in Nat, NEW size \in 1 .. WORD_BYTES + 1
    PROVE  IsLayout(VLCBytes(w, size), w, size)
<1> DEFINE d == VLCBytes(w, size)
<1>1. CASE size = 1
  <2>1. d = <<w % 128>>
    BY <1>1 DEF VLCBytes
  <2>2. w % 128 \in Nat
    OBVIOUS
  <2> HIDE DEF d
  <2>3. d \in Seq(Nat) /\ Len(d) = 1 /\ d[1] = w % 128
    BY <2>1, <2>2
  <2> QED BY <1>1, <2>3 DEF IsLayout, d
<1>2. CASE size = 2
  <2>1. d = <<128 + (w % 64), (w \div 64) % 256>>
    BY <1>2 DEF VLCBytes
  <2>2. 128 + (w % 64) \in Nat /\ (w \div 64) % 256 \in Nat
    OBVIOUS
  <2> HIDE DEF d
  <2>3. d \in Seq(Nat) /\ Len(d) = 2 /\ d[1] = 128 + (w % 64) /\ d[2] = (w \div 64) % 256
    BY <2>1, <2>2
  <2> QED BY <1>2, <2>3 DEF IsLayout, d
<1>3. CASE size # 1 /\ size # 2
  <2> DEFINE k == size - 1
             p == PayloadOf(w, k)
  <2>1. k \in 1 .. WORD_BYTES /\ k \in Nat /\ size = 1 + k /\ size > 2
    BY <1>3, Words
  <2>2. d = <<192 + k>> \o p
    BY <1>3 DEF VLCBytes, PayloadOf
  <2>3. p \in [1 .. k -> Nat]
    BY <2>1, PayloadIs
  <2> HIDE DEF d, p, k
  <2>4. p \in Seq(Nat) /\ Len(p) = k
    BY <2>1, <2>3
  <2>5. d \in Seq(Nat) /\ Len(d) = size /\ d[1] = 192 + k
    BY <2>1, <2>2, <2>4
  <2>6. \A i \in 1 .. k : d[1 + i] = p[i]
    BY <2>1, <2>2, <2>4
  <2>7. IsLayout(d, w, size)
    <3>1. size # 1 /\ size # 2 /\ size - 1 = k
      BY <1>3 DEF k
    <3> QED BY <2>5, <2>6, <3>1, SMTT(40) DEF IsLayout, p
  <2> QED BY <2>7 DEF d
<1> QED BY <1>1, <1>2, <1>3

\* The bytes a stream is to read next.
Holds(s, d) == \A i \in 1 .. Len(d) : s.mem[s.pos + (i - 1)] = d[i]

\* What decoding does to a stream that it refuses.
IsRefused(r, s) ==
    r = Failed(Refused(s)) \/ (s.pos < s.max /\ r = Failed(Refused(Moved(s, 1))))

\* A word laid out in a size is decoded if all of its bytes are there, and refused if not.
LEMMA Decoded ==
    ASSUME NEW s, Reader(s), NEW w \in Nat, NEW size \in 1 .. WORD_BYTES + 1,
           NEW isSigned \in BOOLEAN, Holds(s, VLCBytes(w, size))
    PROVE  /\ s.pos + size <= s.max =>
                DecodeVLC(s, isSigned) = Value(LaidOut(w, size, isSigned), Moved(s, size))
           /\ ~(s.pos + size <= s.max) => IsRefused(DecodeVLC(s, isSigned), s)
<1> DEFINE d == VLCBytes(w, size)
           first == s.mem[s.pos]
<1>1. IsLayout(d, w, size)
  BY LayoutIs
<1>2. s.pos \in Nat /\ s.max \in Nat /\ s.pos <= s.max
  BY DEF Reader
<1> HIDE DEF d
<1>3. size \in Nat /\ size >= 1 /\ Len(d) = size
  BY <1>1, Words DEF IsLayout
<1>4. \A i \in 1 .. size : s.mem[s.pos + (i - 1)] = d[i]
  BY <1>3 DEF Holds, d
<1>5. first = d[1]
  BY <1>2, <1>3, <1>4
<1>6. CASE s.pos = s.max
  <2>1. ~(s.pos + size <= s.max)
    BY <1>2, <1>3, <1>6
  <2> QED BY <1>6, <2>1, DecodeAtEnd DEF IsRefused
<1>7. CASE s.pos < s.max /\ size = 1
  <2>1. first = w % 128 /\ first \in Nat /\ first < 128
    BY <1>1, <1>5, <1>7 DEF IsLayout
  <2>2. DecodeVLC(s, isSigned) = Value(OneByte(first, isSigned), Moved(s, 1))
    BY <1>7, <2>1, DecodeOne
  <2>3. s.pos + size <= s.max
    BY <1>2, <1>7
  <2> QED BY <1>7, <2>1, <2>2, <2>3 DEF LaidOut
<1>8. CASE s.pos < s.max /\ size = 2
  <2> DEFINE rest == [i \in 1 .. 1 |-> s.mem[s.pos + i]]
  <2>1. first = 128 + (w % 64) /\ first \in 128 .. 191 /\ first < 192
    <3>1. first = 128 + (w % 64)
      BY <1>1, <1>5, <1>8 DEF IsLayout
    <3> HIDE DEF first
    <3> QED BY <3>1
  <2>2. rest[1] = (w \div 64) % 256
    <3>1. s.mem[s.pos + (2 - 1)] = d[2]
      BY <1>4, <1>8
    <3>2. s.pos + (2 - 1) = s.pos + 1
      OBVIOUS
    <3> QED BY <1>1, <1>8, <3>1, <3>2 DEF IsLayout
  <2> HIDE DEF rest, first
  <2>3. IF s.pos + 1 + 1 <= s.max
        THEN DecodeVLC(s, isSigned) =
                Value(IF first < 192 THEN TwoBytes(first, rest[1], isSigned)
                                     ELSE CountedBytes(rest, isSigned), Moved(s, 1 + 1))
        ELSE DecodeVLC(s, isSigned) = Failed(Refused(Moved(s, 1)))
    <3>1. 1 \in 1 .. WORD_BYTES
      BY Words
    <3> QED BY <1>8, <2>1, <3>1, DecodeMore DEF first, rest
  <2>4. (s.pos + size <= s.max <=> s.pos + 1 + 1 <= s.max) /\ 1 + 1 = size
    BY <1>2, <1>8
  <2>5. LaidOut(w, size, isSigned) = TwoBytes(first, rest[1], isSigned)
    BY <1>8, <2>1, <2>2 DEF LaidOut
  <2> QED BY <1>8, <2>1, <2>3, <2>4, <2>5 DEF IsRefused
<1>9. CASE s.pos < s.max /\ size # 1 /\ size # 2
  <2> DEFINE k == size - 1
             rest == [i \in 1 .. k |-> s.mem[s.pos + i]]
  <2>1. k \in 1 .. WORD_BYTES /\ k \in Nat /\ size > 2 /\ size = 1 + k /\ k >= 2
    BY <1>3, <1>9, Words
  <2>2. first = 192 + k /\ ~(first < 192)
    BY <1>1, <1>5, <2>1 DEF IsLayout
  <2>3. rest = PayloadOf(w, k)
    <3>1. ASSUME NEW i \in 1 .. k PROVE s.mem[s.pos + i] = PayloadOf(w, k)[i]
      <4>1. 1 + i \in 1 .. size /\ s.pos + (1 + i - 1) = s.pos + i
        BY <1>2, <2>1
      <4>2. s.mem[s.pos + i] = d[1 + i]
        BY <1>4, <4>1
      <4> QED BY <1>1, <2>1, <4>2 DEF IsLayout
    <3>2. PayloadOf(w, k) = [i \in 1 .. k |-> PayloadOf(w, k)[i]]
      BY DEF PayloadOf
    <3> QED BY <3>1, <3>2
  <2> HIDE DEF rest, k
  <2>4. IF s.pos + 1 + k <= s.max
        THEN DecodeVLC(s, isSigned) =
                Value(IF first < 192 THEN TwoBytes(first, rest[1], isSigned)
                                     ELSE CountedBytes(rest, isSigned), Moved(s, 1 + k))
        ELSE DecodeVLC(s, isSigned) = Failed(Refused(Moved(s, 1)))
    BY <1>9, <2>1, <2>2, DecodeMore DEF rest
  <2>5. s.pos + size <= s.max <=> s.pos + 1 + k <= s.max
    BY <1>2, <2>1
  <2>6. LaidOut(w, size, isSigned) = CountedBytes(rest, isSigned)
    BY <1>9, <2>3 DEF LaidOut, k
  <2> HIDE DEF first
  <2> QED BY <1>9, <2>1, <2>2, <2>4, <2>5, <2>6 DEF IsRefused
<1> QED BY <1>2, <1>6, <1>7, <1>8, <1>9

-----------------------------------------------------------------------------
\* Every word.

\* The words visited are words.
IsWord == word \in 0 .. Modulus - 1

\* They are: the first is 0, and none follows the last.
LEMMA Visited == EveryWord => []IsWord
<1>1. PICK v \in Nat : v > 0 /\ Modulus = 65536 * v
  BY Words
<1>2. FirstWord => IsWord
  BY <1>1 DEF FirstWord, IsWord
<1>3. IsWord /\ [Visit]_word => IsWord'
  BY <1>1 DEF Visit, IsWord
<1> QED BY <1>2, <1>3, PTL DEF EveryWord

\* A stream of some bytes can be read from the first of them on.
LEMMA InputIs ==
    ASSUME NEW bytes \in Seq(Nat)
    PROVE  /\ Reader(Input(bytes))
           /\ Input(bytes).pos = 0 /\ Input(bytes).max = Len(bytes) /\ Input(bytes).eof = FALSE
           /\ Holds(Input(bytes), bytes)
<1> DEFINE n == Len(bytes)
           mem == [i \in 0 .. (n - 1) |-> bytes[i + 1]]
           s == Input(bytes)
<1>1. s = [in |-> TRUE, out |-> FALSE, mem |-> mem, max |-> n, pos |-> 0, eof |-> FALSE]
  BY DEF Input, NewBuffer
<1>2. n \in Nat
  OBVIOUS
<1>3. \A i \in 1 .. n : mem[0 + (i - 1)] = bytes[i]
  <2>1. ASSUME NEW i \in 1 .. n PROVE mem[0 + (i - 1)] = bytes[i]
    <3>1. 0 + (i - 1) \in 0 .. (n - 1) /\ 0 + (i - 1) + 1 = i
      BY <1>2
    <3> QED BY <3>1
  <2> QED BY <2>1
<1> HIDE DEF n, mem, s
<1>4. s.pos = 0 /\ s.max = n /\ s.eof = FALSE /\ s.mem = mem
  BY <1>1
<1>5. Reader(s)
  <2>1. s \in [in : {TRUE}, out : BOOLEAN, mem : {s.mem}, max : Nat, pos : Nat, eof : BOOLEAN]
    <3>1. [in |-> TRUE, out |-> FALSE, mem |-> mem, max |-> n, pos |-> 0, eof |-> FALSE]
            \in [in : {TRUE}, out : BOOLEAN, mem : {mem}, max : Nat, pos : Nat, eof : BOOLEAN]
      BY <1>2
    <3> QED BY <1>1, <1>4, <3>1
  <2>2. s.pos <= s.max
    BY <1>2, <1>4
  <2> QED BY <2>1, <2>2 DEF Reader
<1>6. \A i \in 1 .. n : s.mem[s.pos + (i - 1)] = bytes[i]
  BY <1>3, <1>4
<1> QED BY <1>4, <1>5, <1>6 DEF Holds, n, s

\* A word laid out in a size is decoded as the code makes it of its bytes.
LEMMA InputDecoded ==
    ASSUME NEW w \in 0 .. Modulus - 1, NEW size \in 1 .. WORD_BYTES + 1, NEW isSigned \in BOOLEAN
    PROVE  LET d == VLCBytes(w, size)
           IN  /\ Len(d) = size
               /\ DecodeVLC(Input(d), isSigned) = Value(LaidOut(w, size, isSigned), Moved(Input(d), size))
               /\ Moved(Input(d), size).pos = size
<1> DEFINE d == VLCBytes(w, size)
           s == Input(d)
<1>1. w \in Nat /\ size \in Nat
  BY NumberIs, Words
<1>2. d \in Seq(Nat) /\ Len(d) = size
  BY <1>1, LayoutIs DEF IsLayout
<1>3. Reader(s) /\ s.pos = 0 /\ s.max = size /\ Holds(s, d)
  BY <1>2, InputIs
<1> HIDE DEF s
<1>4. s.pos + size <= s.max /\ s.pos + size = size
  BY <1>1, <1>3
<1>5. DecodeVLC(s, isSigned) = Value(LaidOut(w, size, isSigned), Moved(s, size))
  BY <1>1, <1>3, <1>4, Decoded
<1>6. Moved(s, size).pos = size
  BY <1>1, <1>3, <1>4, MovedIs
<1> QED BY <1>2, <1>5, <1>6 DEF s

\* The size of a word is one of the sizes, and its number fits in it.
LEMMA SizeofFits ==
    ASSUME NEW w \in 0 .. Modulus - 1, NEW isSigned \in BOOLEAN
    PROVE  /\ Sizeof(w, isSigned) \in 1 .. WORD_BYTES + 1
           /\ FitsIn(NumberOf(w, isSigned), Sizeof(w, isSigned), isSigned)
<1> DEFINE n == NumberOf(w, isSigned)
           size == Sizeof(w, isSigned)
<1>1. WORD_BYTES \in Nat /\ WORD_BYTES >= 2
  BY Words
<1>2. IsSizeOf(size, n, isSigned)
  BY SizeofIs
<1> HIDE DEF size, n
<1>3. CASE FitsOne(n, isSigned) /\ size = 1
  BY <1>1, <1>3 DEF FitsIn, size, n
<1>4. CASE FitsTwo(n, isSigned) /\ size = 2
  BY <1>1, <1>4 DEF FitsIn, size, n
<1>5. ASSUME NEW k \in 2 .. WORD_BYTES, size = 1 + k, IsFewest(k, n, isSigned)
      PROVE  size \in 1 .. WORD_BYTES + 1 /\ FitsIn(n, size, isSigned)
  <2>1. size # 1 /\ size # 2 /\ size - 1 = k /\ size \in 1 .. WORD_BYTES + 1
    BY <1>1, <1>5
  <2> QED BY <1>5, <2>1 DEF FitsIn, IsFewest
<1> QED BY <1>2, <1>3, <1>4, <1>5 DEF IsSizeOf, size, n

\* Decoding gives back what was encoded.
LEMMA WordsReturn ==
    ASSUME NEW w \in 0 .. Modulus - 1, NEW isSigned \in BOOLEAN
    PROVE  LaidOut(w, Sizeof(w, isSigned), isSigned) = w
BY SizeofFits, LaidOutIsIt

\* No number has a longer encoding than the size it fits in.
LEMMA EncodedIsShort ==
    ASSUME NEW w \in 0 .. Modulus - 1, NEW isSigned \in BOOLEAN, NEW size \in 1 .. WORD_BYTES + 1,
           FitsIn(NumberOf(w, isSigned), size, isSigned)
    PROVE  Len(EncodeVLC(w, isSigned)) <= size
<1>1. Len(EncodeVLC(w, isSigned)) = Sizeof(w, isSigned)
  BY SizeofFits, InputDecoded DEF EncodeVLC
<1>2. NumberOf(w, isSigned) \in Int
  BY NumberIs
<1> QED BY <1>1, <1>2, SizeofIs, SizeIsLeast

\* RoundTrip of one word.
LEMMA WordRoundTrip ==
    ASSUME NEW w \in 0 .. Modulus - 1, NEW isSigned \in BOOLEAN
    PROVE  LET bytes == EncodeVLC(w, isSigned)
               r == DecodeVLC(Input(bytes), isSigned)
           IN  r.ok /\ ~r.null /\ r.val = w /\ r.s.pos = Len(bytes)
<1> DEFINE size == Sizeof(w, isSigned)
           d == VLCBytes(w, size)
<1>1. size \in 1 .. WORD_BYTES + 1
  BY SizeofFits
<1>2. LaidOut(w, size, isSigned) = w
  BY WordsReturn
<1> HIDE DEF size
<1>3. Len(d) = size /\ DecodeVLC(Input(d), isSigned) = Value(w, Moved(Input(d), size))
      /\ Moved(Input(d), size).pos = size
  BY <1>1, <1>2, InputDecoded
<1>4. EncodeVLC(w, isSigned) = d
  BY DEF EncodeVLC, size
<1> HIDE DEF d
<1> QED BY <1>3, <1>4 DEF Value

\* Shortest of one word.
LEMMA WordShortest ==
    ASSUME NEW w \in 0 .. Modulus - 1, NEW isSigned \in BOOLEAN,
           NEW bytes \in 1 .. (Sizeof(w, isSigned) - 1)
    PROVE  DecodeVLC(Input(VLCBytes(w, bytes)), isSigned).val # w
<1> DEFINE size == Sizeof(w, isSigned)
           other == LaidOut(w, bytes, isSigned)
<1>1. size \in 1 .. WORD_BYTES + 1 /\ WORD_BYTES \in Nat
  BY SizeofFits, Words
<1>2. w \in Nat /\ NumberOf(w, isSigned) \in Int
  BY NumberIs
<1>3. IsSizeOf(size, NumberOf(w, isSigned), isSigned)
  BY SizeofIs
<1>4. bytes \in 1 .. WORD_BYTES + 1 /\ ~(size <= bytes)
  BY <1>1
<1> HIDE DEF size
<1>5. FitsIn(NumberOf(other, isSigned), bytes, isSigned)
  BY <1>2, <1>4, LaidOutFits
<1>6. DecodeVLC(Input(VLCBytes(w, bytes)), isSigned).val = other
  BY <1>4, InputDecoded DEF Value
<1> HIDE DEF other
<1>7. ASSUME other = w PROVE FALSE
  BY <1>2, <1>3, <1>4, <1>5, <1>7, SizeIsLeast
<1> QED BY <1>6, <1>7

\* Decoding what was encoded gives the value back and uses every byte, for the encoder
\* BLINK_Compact_encodeVLC and the decoder BLINK_Compact_decodeVLC, whatever the word.
THEOREM CompactRoundTrip == EveryWord => []RoundTrip
<1>1. IsWord => RoundTrip
  BY WordRoundTrip DEF RoundTrip, IsWord
<1> QED BY <1>1, Visited, PTL

\* The encoder takes the fewest bytes: in fewer, the decoder finds another value.
THEOREM CompactShortest == EveryWord => []Shortest
<1>1. IsWord => Shortest
  BY WordShortest DEF Shortest, IsWord
<1> QED BY <1>1, Visited, PTL

\* DecodesWithinInput of one or two bytes.
LEMMA InputWithin ==
    ASSUME NEW bytes \in Seq(Nat), Len(bytes) \in 1 .. 2, bytes[1] \in 0 .. 255,
           Len(bytes) = 2 => bytes[2] \in 0 .. 255, NEW isSigned \in BOOLEAN
    PROVE  LET r == DecodeVLC(Input(bytes), isSigned) IN
           /\ r.s.pos <= Len(bytes)
           /\ ~r.ok => r.s.eof \/ bytes[1] > 192 + WORD_BYTES
           /\ r.ok /\ ~r.null /\ ~(isSigned /\ bytes[1] = 193 /\ bytes[2] >= 128)
                => Len(EncodeVLC(r.val, isSigned)) <= r.s.pos
<1> DEFINE s == Input(bytes)
           first == s.mem[s.pos]
           r == DecodeVLC(s, isSigned)
<1>1. first = bytes[1] /\ Reader(s) /\ s.pos = 0 /\ s.max = Len(bytes)
      /\ Holds(s, bytes) /\ s.pos < s.max
  <2>1. Reader(s) /\ s.pos = 0 /\ s.max = Len(bytes) /\ Holds(s, bytes)
    BY InputIs
  <2> HIDE DEF s
  <2>2. s.mem[s.pos + (1 - 1)] = bytes[1] /\ s.pos + (1 - 1) = s.pos
    BY <2>1 DEF Holds
  <2> QED BY <2>1, <2>2
<1>2. first \in 0 .. 255 /\ WORD_BYTES \in Nat /\ WORD_BYTES >= 2
  BY <1>1, Words
<1>3. 1 \in 1 .. WORD_BYTES + 1 /\ 2 \in 1 .. WORD_BYTES + 1
  BY <1>2, SMTT(40)
<1> HIDE DEF s, first
<1>4. Moved(s, 1).pos = 1 /\ Reader(Moved(s, 1)) /\ Refused(Moved(s, 1)).pos = 1
      /\ Refused(Moved(s, 1)).eof = TRUE
  <2>1. s.pos + 1 <= s.max /\ s.pos + 1 = 1
    BY <1>1
  <2>2. Reader(Moved(s, 1)) /\ Moved(s, 1).pos = 1
    BY <1>1, <2>1, MovedIs
  <2> QED BY <2>2, RefusedIs
<1> DEFINE Goal == /\ r.s.pos <= Len(bytes)
                   /\ ~r.ok => r.s.eof \/ bytes[1] > 192 + WORD_BYTES
                   /\ r.ok /\ ~r.null /\ ~(isSigned /\ bytes[1] = 193 /\ bytes[2] >= 128)
                        => Len(EncodeVLC(r.val, isSigned)) <= r.s.pos
<1>5. ASSUME first < 128 PROVE Goal
  <2> DEFINE val == OneByte(first, isSigned)
  <2>1. r = Value(val, Moved(s, 1))
    BY <1>1, <1>2, <1>5, DecodeOne DEF first
  <2>2. val \in 0 .. Modulus - 1 /\ FitsIn(NumberOf(val, isSigned), 1, isSigned)
    <3>1. first \in 0 .. 127
      BY <1>2, <1>5
    <3> QED BY <3>1, OneByteFits DEF FitsIn
  <2> HIDE DEF val, r
  <2>3. Len(EncodeVLC(val, isSigned)) <= 1
    BY <1>3, <2>2, EncodedIsShort
  <2>4. r.ok /\ r.val = val /\ r.s.pos = 1
    BY <1>4, <2>1 DEF Value
  <2> QED BY <1>1, <2>3, <2>4
<1>6. ASSUME first = 192 PROVE Goal
  <2>1. r = Null(Moved(s, 1))
    BY <1>1, <1>2, <1>6, DecodeOne DEF first
  <2> HIDE DEF r
  <2>2. r.ok /\ r.null /\ r.s.pos = 1
    BY <1>4, <2>1 DEF Null
  <2> QED BY <1>1, <2>2
<1>7. ASSUME first > 192 + WORD_BYTES PROVE Goal
  <2>1. r = Failed(Moved(s, 1))
    BY <1>1, <1>2, <1>7, DecodeOne, SMTT(40) DEF first
  <2> HIDE DEF r
  <2>2. ~r.ok /\ r.s.pos = 1
    BY <1>4, <2>1 DEF Failed
  <2> QED BY <1>1, <1>7, <2>2
<1>8. ASSUME NEW more \in 1 .. WORD_BYTES,
             \/ first \in 128 .. 191 /\ more = 1
             \/ first = 192 + more
      PROVE  Goal
  <2> DEFINE rest == [i \in 1 .. more |-> s.mem[s.pos + i]]
             val == IF first < 192 THEN TwoBytes(first, rest[1], isSigned) ELSE CountedBytes(rest, isSigned)
  <2>1. IF s.pos + 1 + more <= s.max THEN r = Value(val, Moved(s, 1 + more))
                                     ELSE r = Failed(Refused(Moved(s, 1)))
    BY <1>1, <1>8, DecodeMore DEF first
  <2>2. CASE s.pos + 1 + more <= s.max
    <3>1. more = 1 /\ Len(bytes) = 2
      <4>1. more \in Nat /\ more >= 1
        BY <1>2
      <4> DEFINE n == Len(bytes)
      <4>2. n \in 1 .. 2
        OBVIOUS
      <4>3. 0 + 1 + more <= n
        BY <1>1, <2>2
      <4> HIDE DEF n
      <4>4. more = 1 /\ n = 2
        BY <4>1, <4>2, <4>3
      <4> QED BY <4>4 DEF n
    <3>2. rest[1] = bytes[2] /\ bytes[2] \in 0 .. 255
      <4>1. s.mem[s.pos + (2 - 1)] = bytes[2]
        BY <1>1, <3>1 DEF Holds
      <4>2. s.pos + (2 - 1) = s.pos + 1
        OBVIOUS
      <4> QED BY <3>1, <4>1, <4>2
    <3>3. rest \in [1 .. 1 -> 0 .. 255]
      <4>1. rest = [i \in 1 .. 1 |-> rest[1]]
        BY <3>1
      <4> HIDE DEF rest
      <4> QED BY <3>2, <4>1
    <3>4. Moved(s, 2).pos = 2
      <4>1. s.pos + 2 <= s.max /\ s.pos + 2 = 2
        BY <1>1, <3>1
      <4> QED BY <1>1, <4>1, MovedIs
    <3>5. r = Value(val, Moved(s, 2))
      <4>1. 1 + more = 2
        BY <3>1
      <4> QED BY <2>1, <2>2, <4>1
    <3> HIDE DEF rest
    <3>6. CASE first \in 128 .. 191
      <4>1. val = TwoBytes(first, rest[1], isSigned)
        BY <3>6
      <4>2. val \in 0 .. Modulus - 1 /\ FitsIn(NumberOf(val, isSigned), 2, isSigned)
        <5> DEFINE second == rest[1]
        <5>1. second \in 0 .. 255
          BY <3>2
        <5> HIDE DEF val, second
        <5>2. /\ TwoBytes(first, second, isSigned) \in 0 .. Modulus - 1
              /\ FitsTwo(NumberOf(TwoBytes(first, second, isSigned), isSigned), isSigned)
          BY <3>6, <5>1, TwoBytesAre
        <5>3. val = TwoBytes(first, second, isSigned)
          BY <4>1 DEF second
        <5> QED BY <5>2, <5>3 DEF FitsIn
      <4> HIDE DEF val, r
      <4>3. Len(EncodeVLC(val, isSigned)) <= 2
        BY <1>3, <4>2, EncodedIsShort
      <4>4. r.ok /\ r.val = val /\ r.s.pos = 2
        BY <3>4, <3>5 DEF Value
      <4> QED BY <1>1, <3>1, <4>3, <4>4
    <3>7. CASE ~(first \in 128 .. 191)
      <4>1. first = 193 /\ val = CountedBytes(rest, isSigned)
        BY <1>8, <3>1, <3>7
      <4>2. ASSUME ~(isSigned /\ bytes[2] >= 128) PROVE Len(EncodeVLC(val, isSigned)) <= 2
        <5>1. 1 \in 1 .. WORD_BYTES
          BY <1>2
        <5>2. val \in 0 .. Modulus - 1 /\ FitsCounted(NumberOf(val, isSigned), 1, isSigned)
          <6>1. ~(isSigned /\ rest[1] >= 128)
            BY <3>2, <4>2
          <6>2. /\ CountedBytes(rest, isSigned) \in 0 .. Modulus - 1
                /\ FitsCounted(NumberOf(CountedBytes(rest, isSigned), isSigned), 1, isSigned)
            <7> HIDE DEF val
            <7> QED BY <3>3, <5>1, <6>1, CountedFits, ZenonT(40)
          <6> HIDE DEF val
          <6> QED BY <4>1, <6>2, ZenonT(40)
        <5> HIDE DEF val
        <5> DEFINE n == NumberOf(val, isSigned)
        <5>3. ValuesIn[1] = 256 /\ n \in Int
          <6>1. 1 - 1 = 0
            OBVIOUS
          <6>2. ValuesIn[1] = 256 * ValuesIn[0] /\ ValuesIn[0] = 1
            BY <5>1, <6>1, ValuesInGrows
          <6>3. n \in Int
            BY <5>2, NumberIs
          <6> QED BY <6>2, <6>3
        <5>4. FitsCounted(n, 1, isSigned)
          BY <5>2
        <5> HIDE DEF n
        <5>5. 256 \div 2 = 128
          OBVIOUS
        <5>6. FitsTwo(n, isSigned)
          BY <5>3, <5>4, <5>5 DEF FitsCounted, FitsTwo
        <5>7. FitsIn(NumberOf(val, isSigned), 2, isSigned)
          BY <5>6 DEF FitsIn, n
        <5> QED BY <1>3, <5>2, <5>7, EncodedIsShort
      <4> HIDE DEF val, r
      <4>3. r.ok /\ r.val = val /\ r.s.pos = 2
        BY <3>4, <3>5 DEF Value
      <4> QED BY <1>1, <3>1, <4>1, <4>2, <4>3
    <3> QED BY <3>6, <3>7
  <2>3. CASE ~(s.pos + 1 + more <= s.max)
    <3>1. r = Failed(Refused(Moved(s, 1)))
      BY <2>1, <2>3
    <3> HIDE DEF r
    <3>2. ~r.ok /\ r.s.pos = 1 /\ r.s.eof
      BY <1>4, <3>1 DEF Failed
    <3> QED BY <1>1, <3>2
  <2> QED BY <2>2, <2>3
<1>9. ASSUME ~(first < 128), ~(first = 192), ~(first > 192 + WORD_BYTES) PROVE Goal
  <2> DEFINE more == IF first < 192 THEN 1 ELSE first - 192
  <2>1. more \in 1 .. WORD_BYTES /\ ((first \in 128 .. 191 /\ more = 1) \/ first = 192 + more)
    BY <1>2, <1>9
  <2> HIDE DEF more, Goal
  <2> QED BY <1>8, <2>1
<1>10. Goal
  <2> HIDE DEF Goal
  <2> QED BY <1>5, <1>6, <1>7, <1>9
<1> QED BY <1>10 DEF s

\* Whatever one or two bytes arrive, BLINK_Compact_decodeVLC stays inside the input, fails
\* only at its end or on a length no word has, and finds a value whose encoding is no longer,
\* but for a negative number in one counted byte.
THEOREM CompactWithinInput == EveryWord => []DecodesWithinInput
<1>1. ASSUME IsWord PROVE DecodesWithinInput
  <2>1. word \in Nat
    BY <1>1, NumberIs DEF IsWord
  <2> DEFINE low == word % 256
             high == (word \div 256) % 256
  <2>2. low \in 0 .. 255 /\ high \in 0 .. 255
    BY <2>1
  <2> HIDE DEF low, high
  <2>3. ASSUME NEW bytes \in {<<low, high>>, <<low>>}
        PROVE  /\ bytes \in Seq(Nat) /\ Len(bytes) \in 1 .. 2 /\ bytes[1] \in 0 .. 255
               /\ Len(bytes) = 2 => bytes[2] \in 0 .. 255
    <3>1. CASE bytes = <<low, high>>
      BY <2>2, <3>1
    <3>2. CASE bytes = <<low>>
      BY <2>2, <3>2
    <3> QED BY <3>1, <3>2
  <2>4. Inputs = {<<low, high>>, <<low>>}
    BY DEF Inputs, TwoByteInput, low, high
  <2>5. ASSUME NEW isSigned \in BOOLEAN, NEW bytes \in Inputs
        PROVE  LET r == DecodeVLC(Input(bytes), isSigned) IN
               /\ r.s.pos <= Len(bytes)
               /\ ~r.ok => r.s.eof \/ bytes[1] > 192 + WORD_BYTES
               /\ r.ok /\ ~r.null /\ ~(isSigned /\ bytes[1] = 193 /\ bytes[2] >= 128)
                    => Len(EncodeVLC(r.val, isSigned)) <= r.s.pos
    <3>1. /\ bytes \in Seq(Nat) /\ Len(bytes) \in 1 .. 2 /\ bytes[1] \in 0 .. 255
          /\ Len(bytes) = 2 => bytes[2] \in 0 .. 255
      BY <2>3, <2>4, ZenonT(40)
    <3> QED BY <3>1, InputWithin
  <2> QED BY <2>5 DEF DecodesWithinInput
<1> QED BY <1>1, Visited, PTL

-----------------------------------------------------------------------------
\* Writing.

\* A buffer stream that can be written.
Writer(s) ==
    /\ s \in [in : BOOLEAN, out : {TRUE}, mem : {s.mem}, max : Nat, pos : Nat, eof : BOOLEAN]
    /\ DOMAIN s.mem = 0 .. (s.max - 1)
    /\ s.pos <= s.max

\* Bytes that are in a buffer.
Chunk(mem, at, d) == \A i \in 1 .. Len(d) : mem[at + (i - 1)] = d[i]

\* Nothing is lost of what was written before.
Keeps(s, t) ==
    /\ Writer(t)
    /\ t.max = s.max
    /\ s.pos <= t.pos
    /\ \A i \in 0 .. (s.pos - 1) : t.mem[i] = s.mem[i]

\* A writer keeps what it has.
LEMMA KeepsSame ==
    ASSUME NEW s, Writer(s) PROVE Keeps(s, s)
<1>1. s.pos \in Nat
  BY DEF Writer
<1> QED BY <1>1 DEF Keeps

\* Nor by two writes.
LEMMA KeepsTwice ==
    ASSUME NEW s, Writer(s), NEW t, Keeps(s, t), NEW u, Keeps(t, u) PROVE Keeps(s, u)
<1>1. s.pos \in Nat /\ t.pos \in Nat /\ u.pos \in Nat
  BY DEF Keeps, Writer
<1>2. Writer(u) /\ u.max = s.max /\ s.pos <= t.pos /\ t.pos <= u.pos
  BY DEF Keeps
<1>3. ASSUME NEW i \in 0 .. (s.pos - 1) PROVE u.mem[i] = s.mem[i]
  <2>1. i \in 0 .. (t.pos - 1)
    BY <1>1, <1>2
  <2> QED BY <2>1 DEF Keeps
<1> QED BY <1>1, <1>2, <1>3 DEF Keeps

\* Bytes that were written stay.
LEMMA ChunkStays ==
    ASSUME NEW s, Writer(s), NEW t, Keeps(s, t), NEW at \in Nat, NEW d \in Seq(Nat),
           at + Len(d) <= s.pos, Chunk(s.mem, at, d)
    PROVE  Chunk(t.mem, at, d)
<1>1. s.pos \in Nat /\ Len(d) \in Nat
  BY DEF Writer
<1>2. ASSUME NEW i \in 1 .. Len(d) PROVE t.mem[at + (i - 1)] = d[i]
  <2>1. at + (i - 1) \in 0 .. (s.pos - 1)
    BY <1>1
  <2> QED BY <2>1 DEF Keeps, Chunk
<1> QED BY <1>2 DEF Chunk

\* A write is all or nothing.
LEMMA WriteIs ==
    ASSUME NEW s, Writer(s), NEW d \in Seq(Nat)
    PROVE  LET r == BufferWrite(s, d) IN
           /\ r.ok \in BOOLEAN
           /\ r.ok => /\ Keeps(s, r.s)
                      /\ r.s.pos = s.pos + Len(d)
                      /\ Chunk(r.s.mem, s.pos, d)
           /\ ~r.ok => r.s = s
<1> DEFINE n == Len(d)
           mem == [i \in DOMAIN s.mem |->
                     IF i \in s.pos .. (s.pos + n - 1) THEN d[i - s.pos + 1] ELSE s.mem[i]]
           x == s.pos + n
           t == [s EXCEPT !.mem = mem, !.pos = x]
<1>1. s \in [in : BOOLEAN, out : {TRUE}, mem : {s.mem}, max : Nat, pos : Nat, eof : BOOLEAN]
  BY DEF Writer
<1>2. s.pos \in Nat /\ s.max \in Nat /\ s.pos <= s.max /\ s.out = TRUE /\ DOMAIN s.mem = 0 .. (s.max - 1)
  BY <1>1 DEF Writer
<1>3. n \in Nat
  OBVIOUS
<1>4. Room(s) = s.max - s.pos
  BY <1>2 DEF Room, UintMinus
<1>5. CASE WriteFits(s, d)
  <2>1. BufferWrite(s, d) = [ok |-> TRUE, s |-> t]
    BY <1>5 DEF BufferWrite, Written
  <2>2. x <= s.max /\ x \in Nat /\ s.pos <= x
    BY <1>2, <1>3, <1>4, <1>5 DEF WriteFits
  <2>3. DOMAIN mem = 0 .. (s.max - 1)
    BY <1>2
  <2>4. ASSUME NEW i \in 0 .. (s.pos - 1) PROVE mem[i] = s.mem[i]
    <3>1. i \in DOMAIN s.mem /\ i \notin s.pos .. (s.pos + n - 1)
      BY <1>2
    <3> QED BY <3>1
  <2>5. ASSUME NEW i \in 1 .. n PROVE mem[s.pos + (i - 1)] = d[i]
    <3>1. s.pos + (i - 1) \in 0 .. (s.max - 1) /\ s.pos + (i - 1) \in s.pos .. (s.pos + n - 1)
          /\ s.pos + (i - 1) - s.pos + 1 = i
      BY <1>2, <1>3, <2>2, SMTT(40)
    <3> QED BY <1>2, <3>1, SMTT(40)
  <2> HIDE DEF mem, x, n
  <2>6. t \in [in : BOOLEAN, out : {TRUE}, mem : {mem}, max : Nat, pos : Nat, eof : BOOLEAN]
    BY <1>1, <2>2
  <2>7. t.pos = x /\ t.max = s.max /\ t.mem = mem
    BY <1>1
  <2> HIDE DEF t
  <2>8. Writer(t)
    BY <2>2, <2>3, <2>6, <2>7 DEF Writer
  <2>9. Keeps(s, t)
    BY <2>2, <2>4, <2>7, <2>8 DEF Keeps
  <2>10. Chunk(t.mem, s.pos, d)
    BY <2>5, <2>7 DEF Chunk, n
  <2> QED BY <2>1, <2>7, <2>9, <2>10 DEF x, n
<1>6. CASE ~WriteFits(s, d)
  <2>1. BufferWrite(s, d) = [ok |-> FALSE, s |-> s]
    BY <1>6 DEF BufferWrite
  <2> QED BY <2>1
<1> QED BY <1>5, <1>6

\* One write, or two.
LEMMA WriteAllIs ==
    ASSUME NEW s, NEW chunks, Len(chunks) \in 1 .. 2
    PROVE  LET b == BufferWrite(s, chunks[1])
           IN  WriteAll(s, chunks) = IF Len(chunks) = 2 /\ b.ok THEN BufferWrite(b.s, chunks[2]) ELSE b
<1> DEFINE n == Len(chunks)
           a == [ok |-> TRUE, s |-> s]
           b == BufferWrite(s, chunks[1])
           c == IF b.ok THEN BufferWrite(b.s, chunks[2]) ELSE b
           Next1(r, i) == IF r.ok THEN BufferWrite(r.s, chunks[i]) ELSE r
           Eq(f) == f = [i \in 0 .. n |-> IF i = 0 THEN a ELSE Next1(f[i - 1], i)]
           f0 == [i \in 0 .. n |-> IF i = 0 THEN a ELSE IF i = 1 THEN b ELSE c]
           after == CHOOSE f : Eq(f)
<1>1. Next1(a, 1) = b /\ Next1(b, 2) = c
  OBVIOUS
<1>2. WriteAll(s, chunks) = after[n]
  BY DEF WriteAll
<1>3. n \in 1 .. 2
  OBVIOUS
<1> HIDE DEF a, b, c, n, Next1
<1>4. Eq(f0)
  <2> DEFINE h == [i \in 0 .. n |-> IF i = 0 THEN a ELSE Next1(f0[i - 1], i)]
  <2>1. ASSUME NEW i \in 0 .. n PROVE h[i] = f0[i]
    <3>1. CASE i = 0
      BY <3>1
    <3>2. CASE i = 1
      <4>1. i - 1 = 0 /\ f0[0] = a /\ f0[1] = b
        BY <1>3, <3>2
      <4> HIDE DEF f0
      <4> QED BY <1>1, <3>2, <4>1
    <3>3. CASE i = 2
      <4>1. i - 1 = 1 /\ f0[1] = b /\ f0[2] = c
        BY <1>3, <3>3
      <4> HIDE DEF f0
      <4> QED BY <1>1, <3>3, <4>1
    <3> QED BY <1>3, <3>1, <3>2, <3>3
  <2>2. f0 = [i \in 0 .. n |-> f0[i]]
    OBVIOUS
  <2>3. h = [i \in 0 .. n |-> f0[i]]
    <3> HIDE DEF f0
    <3> QED BY <2>1
  <2> HIDE DEF f0
  <2> QED BY <2>2, <2>3
<1>5. Eq(after)
  <2> HIDE DEF Eq, f0
  <2> QED BY <1>4
<1> HIDE DEF after
<1>6. after[0] = a
  BY <1>3, <1>5
<1>7. after[1] = b
  <2>1. 1 - 1 = 0 /\ 1 \in 0 .. n /\ 1 # 0
    BY <1>3
  <2> QED BY <1>1, <1>5, <1>6, <2>1
<1>8. CASE n = 1
  BY <1>2, <1>7, <1>8 DEF n, b
<1>9. CASE n = 2
  <2>1. 2 - 1 = 1 /\ 2 \in 0 .. n /\ 2 # 0
    BY <1>9
  <2>2. after[2] = c
    BY <1>1, <1>5, <1>7, <2>1
  <2> QED BY <1>2, <1>9, <2>2 DEF n, b, c
<1> QED BY <1>3, <1>8, <1>9

\* The one or two chunks of an item that are in a buffer, and where they end.
Spans(mem, at, chunks, end) ==
    /\ Chunk(mem, at, chunks[1])
    /\ Len(chunks) = 2 => Chunk(mem, at + Len(chunks[1]), chunks[2])
    /\ end = IF Len(chunks) = 2 THEN at + Len(chunks[1]) + Len(chunks[2]) ELSE at + Len(chunks[1])

\* The chunks of an item.
AreChunks(chunks) ==
    /\ Len(chunks) \in 1 .. 2
    /\ chunks[1] \in Seq(Nat)
    /\ Len(chunks) = 2 => chunks[2] \in Seq(Nat)

\* The ends of chunks are numbers.
LEMMA SpansEnd ==
    ASSUME NEW mem, NEW at \in Nat, NEW chunks, AreChunks(chunks), NEW end, Spans(mem, at, chunks, end)
    PROVE  end \in Nat /\ at <= end /\ at + Len(chunks[1]) <= end /\ Len(chunks[1]) \in Nat
           /\ (Len(chunks) = 2 => Len(chunks[2]) \in Nat)
<1>1. Len(chunks[1]) \in Nat /\ (Len(chunks) = 2 => Len(chunks[2]) \in Nat)
  BY DEF AreChunks
<1> DEFINE two == Len(chunks) = 2
           m == Len(chunks[1])
           n == Len(chunks[2])
<1>2. end = IF two THEN at + m + n ELSE at + m
  BY DEF Spans
<1>3. m \in Nat /\ (two => n \in Nat)
  BY <1>1
<1> HIDE DEF two, m, n
<1>4. end \in Nat /\ at <= end /\ at + m <= end
  BY <1>2, <1>3
<1> QED BY <1>1, <1>4 DEF m

\* Chunks that were written stay.
LEMMA SpansStay ==
    ASSUME NEW s, Writer(s), NEW t, Keeps(s, t), NEW at \in Nat, NEW chunks, AreChunks(chunks),
           NEW end, Spans(s.mem, at, chunks, end), end <= s.pos
    PROVE  Spans(t.mem, at, chunks, end)
<1>1. end \in Nat /\ at + Len(chunks[1]) <= end /\ Len(chunks[1]) \in Nat
      /\ (Len(chunks) = 2 => Len(chunks[2]) \in Nat)
  BY SpansEnd
<1>2. s.pos \in Nat
  BY DEF Writer
<1>3. Chunk(t.mem, at, chunks[1])
  <2>1. at + Len(chunks[1]) <= s.pos
    BY <1>1, <1>2
  <2> QED BY <2>1, ChunkStays DEF AreChunks, Spans
<1>4. ASSUME Len(chunks) = 2 PROVE Chunk(t.mem, at + Len(chunks[1]), chunks[2])
  <2>1. at + Len(chunks[1]) \in Nat
    BY <1>1
  <2>2. at + Len(chunks[1]) + Len(chunks[2]) <= s.pos
    BY <1>4 DEF Spans
  <2>3. chunks[2] \in Seq(Nat) /\ Chunk(s.mem, at + Len(chunks[1]), chunks[2])
    BY <1>4 DEF AreChunks, Spans
  <2> QED BY <2>1, <2>2, <2>3, ChunkStays
<1> QED BY <1>3, <1>4 DEF Spans

\* An item is written whole, or up to the chunk that does not fit.
LEMMA ItemWritten ==
    ASSUME NEW s, Writer(s), NEW chunks, AreChunks(chunks)
    PROVE  LET r == WriteAll(s, chunks) IN
           /\ r.ok \in BOOLEAN
           /\ Keeps(s, r.s)
           /\ r.ok => Spans(r.s.mem, s.pos, chunks, r.s.pos)
           /\ ~r.ok => \/ r.s = s
                       \/ /\ Len(chunks) = 2
                          /\ Chunk(r.s.mem, s.pos, chunks[1])
                          /\ r.s.pos = s.pos + Len(chunks[1])
<1> DEFINE n == Len(chunks)
           d == chunks[1]
           e == chunks[2]
           b == BufferWrite(s, d)
           c == BufferWrite(b.s, e)
           r == WriteAll(s, chunks)
<1>1. n \in 1 .. 2 /\ d \in Seq(Nat) /\ (n = 2 => e \in Seq(Nat))
  BY DEF AreChunks
<1>2. r = IF n = 2 /\ b.ok THEN c ELSE b
  BY <1>1, WriteAllIs
<1>3. /\ b.ok \in BOOLEAN
      /\ b.ok => Keeps(s, b.s) /\ b.s.pos = s.pos + Len(d) /\ Chunk(b.s.mem, s.pos, d)
      /\ ~b.ok => b.s = s
  BY <1>1, WriteIs
<1>4. Keeps(s, s) /\ s.pos \in Nat
  BY KeepsSame DEF Writer
<1>5. CASE ~b.ok
  <2>1. r = b /\ b.s = s
    BY <1>2, <1>3, <1>5
  <2> HIDE DEF b, r
  <2>2. r.s = s /\ r.ok \in BOOLEAN /\ ~r.ok
    BY <1>3, <1>5, <2>1
  <2> QED BY <1>4, <2>2 DEF r
<1>6. CASE b.ok /\ n = 1
  <2>1. Spans(b.s.mem, s.pos, chunks, b.s.pos)
    BY <1>3, <1>6 DEF Spans
  <2>2. r = b
    BY <1>2, <1>6
  <2> HIDE DEF b, r
  <2> QED BY <1>3, <1>6, <2>1, <2>2 DEF r
<1>7. CASE b.ok /\ n = 2
  <2>1. Writer(b.s) /\ Keeps(s, b.s) /\ b.s.pos = s.pos + Len(d) /\ Chunk(b.s.mem, s.pos, d)
    BY <1>3, <1>7 DEF Keeps
  <2>2. e \in Seq(Nat)
    BY <1>1, <1>7
  <2> HIDE DEF b, d, e
  <2>3. /\ c.ok \in BOOLEAN
        /\ c.ok => Keeps(b.s, c.s) /\ c.s.pos = b.s.pos + Len(e) /\ Chunk(c.s.mem, b.s.pos, e)
        /\ ~c.ok => c.s = b.s
    BY <2>1, <2>2, WriteIs
  <2>4. r = c
    BY <1>2, <1>7
  <2> HIDE DEF c, r
  <2>5. CASE c.ok
    <3>1. Keeps(s, c.s)
      BY <2>1, <2>3, <2>5, KeepsTwice
    <3>2. Chunk(c.s.mem, s.pos, d)
      <4>1. s.pos + Len(d) <= b.s.pos
        BY <1>1, <1>4, <2>1 DEF d
      <4> QED BY <1>1, <1>4, <2>1, <2>3, <2>5, <4>1, ChunkStays DEF d
    <3>3. Spans(c.s.mem, s.pos, chunks, c.s.pos)
      BY <1>7, <2>1, <2>3, <2>5, <3>2 DEF Spans, d, e
    <3> QED BY <2>4, <2>5, <3>1, <3>3 DEF r
  <2>6. CASE ~c.ok
    <3>1. c.s = b.s /\ Keeps(s, b.s) /\ Chunk(b.s.mem, s.pos, d) /\ b.s.pos = s.pos + Len(d)
      BY <2>1, <2>3, <2>6
    <3> QED BY <1>7, <2>3, <2>4, <2>6, <3>1 DEF r, d
  <2> QED BY <2>3, <2>5, <2>6
<1> QED BY <1>1, <1>3, <1>5, <1>6, <1>7

-----------------------------------------------------------------------------
\* The decoders of the field types.

\* An answer that is not a refusal: nothing, or a value.
Answer(null, v, s) == [ok |-> TRUE, null |-> null, val |-> v, s |-> s]

\* A refusal that leaves the bytes and how many they are.
IsRefusal(r, s) == \E t : r = Failed(t) /\ Reader(t) /\ t.max = s.max /\ t.mem = s.mem

\* What is read if its bytes are there, and refused if not.
Reads(r, s, n, null, v) ==
    /\ s.pos + n <= s.max => r = Answer(null, v, Moved(s, n))
    /\ ~(s.pos + n <= s.max) => IsRefusal(r, s)

\* A refused stream can still be read.
LEMMA RefusedReads ==
    ASSUME NEW s, Reader(s) PROVE Reader(Refused(s))
<1> DEFINE t == [s EXCEPT !.eof = TRUE]
<1>1. s \in [in : {TRUE}, out : BOOLEAN, mem : {s.mem}, max : Nat, pos : Nat, eof : BOOLEAN] /\ s.pos <= s.max
  BY DEF Reader
<1>2. t \in [in : {TRUE}, out : BOOLEAN, mem : {s.mem}, max : Nat, pos : Nat, eof : BOOLEAN]
  BY <1>1
<1>3. t.mem = s.mem /\ t.pos = s.pos /\ t.max = s.max
  BY <1>1
<1>4. Refused(s) = t
  BY DEF Refused
<1> HIDE DEF t
<1> QED BY <1>1, <1>2, <1>3, <1>4 DEF Reader

\* A refusal of the decoder of words is a refusal.
LEMMA RefusedIsRefusal ==
    ASSUME NEW s, Reader(s), NEW r, IsRefused(r, s) PROVE IsRefusal(r, s)
<1>1. CASE r = Failed(Refused(s))
  BY <1>1, RefusedIs, RefusedReads DEF IsRefusal
<1>2. CASE s.pos < s.max /\ r = Failed(Refused(Moved(s, 1)))
  <2>1. s.pos + 1 <= s.max
    BY <1>2 DEF Reader
  <2>2. Reader(Moved(s, 1)) /\ Moved(s, 1).max = s.max /\ Moved(s, 1).mem = s.mem
    BY <2>1, MovedIs
  <2> QED BY <1>2, <2>2, RefusedIs, RefusedReads DEF IsRefusal
<1> QED BY <1>1, <1>2 DEF IsRefused

\* The encoding of a word is made of bytes.
LEMMA EncodeIs ==
    ASSUME NEW w \in 0 .. Modulus - 1, NEW isSigned \in BOOLEAN
    PROVE  EncodeVLC(w, isSigned) \in Seq(Nat)
<1>1. Sizeof(w, isSigned) \in 1 .. WORD_BYTES + 1 /\ w \in Nat
  BY SizeofFits, NumberIs
<1> QED BY <1>1, LayoutIs DEF IsLayout, EncodeVLC

\* A word is read from its encoding.
LEMMA WordReads ==
    ASSUME NEW s, Reader(s), NEW w \in 0 .. Modulus - 1, NEW isSigned \in BOOLEAN,
           Chunk(s.mem, s.pos, EncodeVLC(w, isSigned))
    PROVE  Reads(DecodeVLC(s, isSigned), s, Len(EncodeVLC(w, isSigned)), FALSE, w)
<1> DEFINE size == Sizeof(w, isSigned)
           d == VLCBytes(w, size)
<1>1. size \in 1 .. WORD_BYTES + 1 /\ w \in Nat
  BY SizeofFits, NumberIs
<1>2. d = EncodeVLC(w, isSigned)
  BY DEF EncodeVLC
<1>3. LaidOut(w, size, isSigned) = w
  BY WordsReturn
<1> HIDE DEF size
<1>4. Holds(s, d)
  BY <1>2 DEF Holds, Chunk
<1>5. /\ s.pos + size <= s.max => DecodeVLC(s, isSigned) = Value(w, Moved(s, size))
      /\ ~(s.pos + size <= s.max) => IsRefused(DecodeVLC(s, isSigned), s)
  BY <1>1, <1>3, <1>4, Decoded
<1>6. d \in Seq(Nat) /\ Len(d) = size
  BY <1>1, LayoutIs DEF IsLayout
<1>7. Reads(DecodeVLC(s, isSigned), s, size, FALSE, w)
  BY <1>5, RefusedIsRefusal DEF Reads, Value, Answer
<1> QED BY <1>2, <1>6, <1>7

\* Null is read from its encoding.
LEMMA NullReads ==
    ASSUME NEW s, Reader(s), NEW isSigned \in BOOLEAN, Chunk(s.mem, s.pos, EncodeNull)
    PROVE  Reads(DecodeVLC(s, isSigned), s, 1, TRUE, NULL)
<1>1. s.pos \in Nat /\ s.max \in Nat /\ s.pos <= s.max
  BY DEF Reader
<1>2. s.mem[s.pos] = 192
  <2>1. EncodeNull[1] = 192 /\ Len(EncodeNull) = 1
    BY DEF EncodeNull
  <2>2. s.mem[s.pos + (1 - 1)] = 192 /\ s.pos + (1 - 1) = s.pos
    BY <1>1, <2>1 DEF Chunk
  <2> QED BY <2>2
<1>3. CASE s.pos < s.max
  <2>1. DecodeVLC(s, isSigned) = Null(Moved(s, 1))
    BY <1>2, <1>3, DecodeOne
  <2>2. s.pos + 1 <= s.max
    BY <1>1, <1>3
  <2> QED BY <2>1, <2>2 DEF Reads, Null, Answer
<1>4. CASE s.pos = s.max
  <2>1. DecodeVLC(s, isSigned) = Failed(Refused(s))
    BY <1>4, DecodeAtEnd
  <2>2. ~(s.pos + 1 <= s.max)
    BY <1>1, <1>4
  <2>3. IsRefusal(DecodeVLC(s, isSigned), s)
    BY <2>1, RefusedIsRefusal DEF IsRefused
  <2> QED BY <2>2, <2>3 DEF Reads
<1>5. s.pos < s.max \/ s.pos = s.max
  BY <1>1
<1> QED BY <1>3, <1>4, <1>5

\* At the end of the bytes there is nothing to read.
LEMMA EndReads ==
    ASSUME NEW s, Reader(s), s.pos = s.max, NEW isSigned
    PROVE  IsRefusal(DecodeVLC(s, isSigned), s)
BY DecodeAtEnd, RefusedIsRefusal DEF IsRefused

\* A value in a set is read, and null; a refusal stays one.
LEMMA OnlyIfReads ==
    ASSUME NEW s, NEW n, NEW r, NEW null \in BOOLEAN, NEW v, Reads(r, s, n, null, v),
           NEW accepted \in BOOLEAN, null \/ accepted,
           NEW r2, r.ok /\ ~r.null /\ r.val = v /\ accepted => r2 = r,
           ~r.ok \/ r.null => r2 = r
    PROVE  Reads(r2, s, n, null, v)
<1>1. CASE s.pos + n <= s.max
  <2>1. r = Answer(null, v, Moved(s, n))
    BY <1>1 DEF Reads
  <2>2. r.ok /\ r.null = null /\ r.val = v
    BY <2>1 DEF Answer
  <2>3. r2 = r
    BY <2>2
  <2> QED BY <2>3
<1>2. CASE ~(s.pos + n <= s.max)
  <2>1. PICK t : r = Failed(t)
    BY <1>2 DEF Reads, IsRefusal
  <2>2. ~r.ok
    BY <2>1 DEF Failed
  <2> QED BY <2>2
<1> QED BY <1>1, <1>2

\* The widths of the types.
LEMMA Widths ==
    /\ ValuesIn[1] = 256 /\ ValuesIn[2] = 65536 /\ ValuesIn[WORD_BYTES] = Modulus
    /\ \A bytes \in {1, 2, WORD_BYTES} :
            /\ bytes \in 0 .. WORD_BYTES
            /\ ValuesIn[bytes] \in Nat
            /\ ValuesIn[bytes] <= Modulus
            /\ ValuesIn[bytes] \div 2 <= Half
<1>1. WORD_BYTES \in Nat /\ WORD_BYTES >= 2
  BY Words
<1>2. 1 \in 1 .. WORD_BYTES /\ 2 \in 1 .. WORD_BYTES /\ 1 - 1 = 0 /\ 2 - 1 = 1
  BY <1>1
<1>3. ValuesIn[1] = 256 * ValuesIn[0] /\ ValuesIn[2] = 256 * ValuesIn[1] /\ ValuesIn[0] = 1
  BY <1>2, ValuesInGrows
<1>4. ValuesIn[1] = 256 /\ ValuesIn[2] = 65536
  BY <1>3
<1>5. ASSUME NEW bytes \in {1, 2, WORD_BYTES}
      PROVE  /\ bytes \in 0 .. WORD_BYTES
             /\ ValuesIn[bytes] \in Nat
             /\ ValuesIn[bytes] <= Modulus
             /\ ValuesIn[bytes] \div 2 <= Half
  <2>1. bytes \in 0 .. WORD_BYTES /\ WORD_BYTES \in bytes .. WORD_BYTES
    BY <1>1
  <2>2. ValuesIn[bytes] \in Nat /\ ValuesIn[bytes] <= ValuesIn[WORD_BYTES] /\ ValuesIn[WORD_BYTES] \in Nat
    <3>1. WORD_BYTES \in 0 .. WORD_BYTES
      BY <1>1
    <3> QED BY <2>1, <3>1, ValuesInGrows
  <2> DEFINE a == ValuesIn[bytes]
             m == ValuesIn[WORD_BYTES]
  <2>3. Modulus = m /\ Half = m \div 2
    BY DEF Modulus, Half
  <2>4. a \in Nat /\ m \in Nat /\ a <= m
    BY <2>2
  <2> HIDE DEF a, m
  <2>5. a \div 2 <= m \div 2
    BY <2>4
  <2> QED BY <2>1, <2>3, <2>4, <2>5 DEF a
<1> QED BY <1>4, <1>5 DEF Modulus

\* An unsigned number is a word.
LEMMA UnsignedIs ==
    ASSUME NEW bytes \in {1, 2, WORD_BYTES}, NEW v, IsUnsigned(v, bytes)
    PROVE  v \in 0 .. Modulus - 1 /\ v < ValuesIn[bytes]
<1>1. v \in Nat /\ v < ValuesIn[bytes]
  BY DEF IsUnsigned
<1>2. ValuesIn[bytes] \in Nat /\ ValuesIn[bytes] <= Modulus /\ Modulus \in Nat
  BY Widths, Words
<1> QED BY <1>1, <1>2

\* A signed number is that of its word.
LEMMA SignedIs ==
    ASSUME NEW bytes \in {1, 2, WORD_BYTES}, NEW v, IsSigned(v, bytes)
    PROVE  AsWord(v) \in 0 .. Modulus - 1 /\ AsSigned(AsWord(v)) = v
<1> DEFINE h == ValuesIn[bytes] \div 2
<1>1. PICK u \in Nat : u > 0 /\ Modulus = 65536 * u /\ Half = 32768 * u
  BY Words
<1>2. h <= Half /\ h \in Int
  BY Widths
<1>3. v \in Int /\ v >= -h /\ v < h
  BY DEF IsSigned
<1> HIDE DEF h
<1>4. v >= -Half /\ v < Half
  BY <1>1, <1>2, <1>3
<1>5. CASE v < 0
  <2> DEFINE x == v + Modulus
  <2>1. AsWord(v) = x
    BY <1>5 DEF AsWord
  <2>2. x \in 0 .. Modulus - 1 /\ x >= Half /\ x - Modulus = v
    BY <1>1, <1>3, <1>4, <1>5
  <2> HIDE DEF x
  <2> QED BY <2>1, <2>2 DEF AsSigned
<1>6. CASE ~(v < 0)
  <2>1. AsWord(v) = v
    BY <1>6 DEF AsWord
  <2>2. v \in 0 .. Modulus - 1 /\ ~(v >= Half)
    BY <1>1, <1>3, <1>4, <1>6
  <2> QED BY <2>1, <2>2 DEF AsSigned
<1> QED BY <1>5, <1>6

\* A word in the range of its type.
LEMMA UnsignedReads ==
    ASSUME NEW s, NEW n, NEW null \in BOOLEAN, NEW v, Reads(DecodeVLC(s, FALSE), s, n, null, v),
           NEW bytes, null \/ v < ValuesIn[bytes]
    PROVE  Reads(DecodeUnsigned(s, bytes), s, n, null, v)
<1> DEFINE r == DecodeVLC(s, FALSE)
           r2 == DecodeUnsigned(s, bytes)
           inRange(x) == x < ValuesIn[bytes]
           accepted == inRange(v)
<1>1. r2 = IF r.ok /\ ~r.null /\ ~inRange(r.val) THEN Failed(r.s) ELSE r
  BY DEF DecodeUnsigned, OnlyIf
<1>2. null \/ accepted
  OBVIOUS
<1>3. accepted \in BOOLEAN
  OBVIOUS
<1> HIDE DEF r, r2, inRange
<1>4. r.ok /\ ~r.null /\ r.val = v /\ accepted => r2 = r
  BY <1>1
<1>5. ~r.ok \/ r.null => r2 = r
  BY <1>1
<1>6. Reads(r, s, n, null, v)
  BY DEF r
<1> HIDE DEF accepted
<1>7. Reads(r2, s, n, null, v)
  BY <1>2, <1>3, <1>4, <1>5, <1>6, OnlyIfReads
<1> QED BY <1>7 DEF r2

\* What is made of a value that is read.
LEMMA MadeReads ==
    ASSUME NEW s, NEW n, NEW r, NEW null \in BOOLEAN, NEW v, Reads(r, s, n, null, v),
           NEW r2, NEW made, r.ok /\ ~r.null /\ r.val = v => r2 = Value(made, r.s),
           ~r.ok \/ r.null => r2 = r
    PROVE  Reads(r2, s, n, null, IF null THEN v ELSE made)
<1>1. CASE s.pos + n <= s.max
  <2>1. r = Answer(null, v, Moved(s, n))
    BY <1>1 DEF Reads
  <2>2. r.ok /\ r.null = null /\ r.val = v /\ r.s = Moved(s, n)
    BY <2>1 DEF Answer
  <2>3. CASE null
    <3>1. r2 = r
      BY <2>2, <2>3
    <3> QED BY <2>3, <3>1
  <2>4. CASE ~null
    <3>1. r2 = Answer(FALSE, made, Moved(s, n)) /\ null = FALSE
      BY <2>2, <2>4 DEF Value, Answer
    <3> QED BY <1>1, <2>4, <3>1 DEF Reads
  <2> QED BY <2>3, <2>4
<1>2. CASE ~(s.pos + n <= s.max)
  <2>1. IsRefusal(r, s)
    BY <1>2 DEF Reads
  <2>2. ~r.ok
    BY <2>1 DEF IsRefusal, Failed
  <2>3. r2 = r
    BY <2>2
  <2> QED BY <1>2, <2>1, <2>3 DEF Reads
<1> QED BY <1>1, <1>2

\* A word read as a signed number.
LEMMA I64Reads ==
    ASSUME NEW s, NEW n, NEW null \in BOOLEAN, NEW w, Reads(DecodeVLC(s, TRUE), s, n, null, w)
    PROVE  Reads(DecodeI64(s), s, n, null, IF null THEN w ELSE AsSigned(w))
<1> DEFINE r == DecodeVLC(s, TRUE)
           r2 == DecodeI64(s)
           made == AsSigned(w)
<1>1. r2 = IF r.ok /\ ~r.null THEN Value(AsSigned(r.val), r.s) ELSE r
  BY DEF DecodeI64
<1>2. Reads(r, s, n, null, w)
  OBVIOUS
<1> HIDE DEF r, r2
<1>3. r.ok /\ ~r.null /\ r.val = w => r2 = Value(made, r.s)
  BY <1>1
<1>4. ~r.ok \/ r.null => r2 = r
  BY <1>1
<1> HIDE DEF made
<1>5. Reads(r2, s, n, null, IF null THEN w ELSE made)
  BY <1>2, <1>3, <1>4, MadeReads
<1> QED BY <1>5 DEF r2, made

\* A word read as the number a double has.
LEMMA F64Reads ==
    ASSUME NEW s, NEW n, NEW null \in BOOLEAN, NEW w, Reads(DecodeVLC(s, FALSE), s, n, null, w)
    PROVE  Reads(DecodeF64(s), s, n, null, IF null THEN w ELSE DoubleOfNumber(w))
<1> DEFINE r == DecodeVLC(s, FALSE)
           r2 == DecodeF64(s)
           made == DoubleOfNumber(w)
<1>1. r2 = IF r.ok /\ ~r.null THEN Value(DoubleOfNumber(r.val), r.s) ELSE r
  BY DEF DecodeF64, DecodeU64
<1>2. Reads(r, s, n, null, w)
  OBVIOUS
<1> HIDE DEF r, r2
<1>3. r.ok /\ ~r.null /\ r.val = w => r2 = Value(made, r.s)
  BY <1>1
<1>4. ~r.ok \/ r.null => r2 = r
  BY <1>1
<1> HIDE DEF made
<1>5. Reads(r2, s, n, null, IF null THEN w ELSE made)
  BY <1>2, <1>3, <1>4, MadeReads
<1> QED BY <1>5 DEF r2, made

\* A signed number in the range of its type.
LEMMA SignedReads ==
    ASSUME NEW s, NEW n, NEW null \in BOOLEAN, NEW v, Reads(DecodeI64(s), s, n, null, v),
           NEW bytes, null \/ (v >= -(ValuesIn[bytes] \div 2) /\ v < ValuesIn[bytes] \div 2)
    PROVE  Reads(DecodeSigned(s, bytes), s, n, null, v)
<1> DEFINE r == DecodeI64(s)
           r2 == DecodeSigned(s, bytes)
           inRange(x) == x >= -(ValuesIn[bytes] \div 2) /\ x < ValuesIn[bytes] \div 2
           accepted == inRange(v)
<1>1. r2 = IF r.ok /\ ~r.null /\ ~inRange(r.val) THEN Failed(r.s) ELSE r
  BY DEF DecodeSigned, OnlyIf
<1>2. null \/ accepted
  OBVIOUS
<1>3. accepted \in BOOLEAN
  OBVIOUS
<1> HIDE DEF r, r2, inRange
<1>4. r.ok /\ ~r.null /\ r.val = v /\ accepted => r2 = r
  BY <1>1
<1>5. ~r.ok \/ r.null => r2 = r
  BY <1>1
<1>6. Reads(r, s, n, null, v)
  BY DEF r
<1> HIDE DEF accepted
<1>7. Reads(r2, s, n, null, v)
  BY <1>2, <1>3, <1>4, <1>5, <1>6, OnlyIfReads
<1> QED BY <1>7 DEF r2

\* A member of a set of words: a boolean, or the mark of a group that is there.
LEMMA BoolReads ==
    ASSUME NEW s, NEW n, NEW null \in BOOLEAN, NEW v, Reads(DecodeVLC(s, FALSE), s, n, null, v),
           null \/ v \in {0, 1}
    PROVE  /\ Reads(DecodeBool(s), s, n, null, v)
           /\ null \/ v = 1 => Reads(DecodePresent(s), s, n, null, v)
<1> DEFINE r == DecodeVLC(s, FALSE)
           b == DecodeBool(s)
           p == DecodePresent(s)
           isBool(x) == x \in {0, 1}
           isPresent(x) == x = 1
<1>1. b = IF r.ok /\ ~r.null /\ ~isBool(r.val) THEN Failed(r.s) ELSE r
  BY DEF DecodeBool, OnlyIf
<1>2. p = IF r.ok /\ ~r.null /\ ~isPresent(r.val) THEN Failed(r.s) ELSE r
  BY DEF DecodePresent, OnlyIf
<1>3. null \/ isBool(v)
  OBVIOUS
<1>4. isBool(v) \in BOOLEAN /\ isPresent(v) \in BOOLEAN
  OBVIOUS
<1>5. Reads(r, s, n, null, v)
  OBVIOUS
<1>6. v = 1 => isPresent(v)
  OBVIOUS
<1> HIDE DEF r, b, p, isBool, isPresent
<1>7. /\ r.ok /\ ~r.null /\ r.val = v /\ isBool(v) => b = r
      /\ ~r.ok \/ r.null => b = r
  BY <1>1
<1>8. /\ r.ok /\ ~r.null /\ r.val = v /\ isPresent(v) => p = r
      /\ ~r.ok \/ r.null => p = r
  BY <1>2
<1>9. Reads(b, s, n, null, v)
  BY <1>3, <1>4, <1>5, <1>7, OnlyIfReads
<1>10. null \/ v = 1 => Reads(p, s, n, null, v)
  BY <1>4, <1>5, <1>6, <1>8, OnlyIfReads
<1> QED BY <1>9, <1>10 DEF b, p

\* A decimal: an exponent and a mantissa, or nothing.
LEMMA DecimalReads ==
    ASSUME NEW s, Reader(s), NEW m \in Nat, NEW n \in Nat, NEW e, NEW x,
           Reads(DecodeSigned(s, 1), s, m, FALSE, e),
           s.pos + m <= s.max => Reads(DecodeI64(Moved(s, m)), Moved(s, m), n, FALSE, x)
    PROVE  Reads(DecodeDecimal(s), s, m + n, FALSE, <<x, e>>)
<1> DEFINE exponent == DecodeSigned(s, 1)
           s1 == Moved(s, m)
           mantissa == DecodeI64(s1)
           r == DecodeDecimal(s)
<1>1. r = DecimalOf(exponent, DecodeI64(exponent.s))
  BY DEF DecodeDecimal
<1>2. s.pos \in Nat /\ s.max \in Nat
  BY DEF Reader
<1>3. Reads(exponent, s, m, FALSE, e)
  OBVIOUS
<1>4. s.pos + m <= s.max => Reads(mantissa, s1, n, FALSE, x)
  OBVIOUS
<1>5. CASE ~(s.pos + m <= s.max)
  <2> HIDE DEF exponent, r
  <2>1. IsRefusal(exponent, s)
    BY <1>3, <1>5 DEF Reads
  <2>2. ~exponent.ok
    BY <2>1 DEF IsRefusal, Failed
  <2>3. r = exponent
    BY <1>1, <2>2 DEF DecimalOf
  <2>4. ~(s.pos + (m + n) <= s.max)
    BY <1>2, <1>5
  <2>5. Reads(r, s, m + n, FALSE, <<x, e>>)
    BY <2>1, <2>3, <2>4 DEF Reads
  <2> QED BY <2>5 DEF r
<1>6. CASE s.pos + m <= s.max
  <2>1. Reader(s1) /\ s1.pos = s.pos + m /\ s1.max = s.max /\ s1.mem = s.mem
    BY <1>6, MovedIs
  <2> HIDE DEF exponent, r
  <2>2. exponent = Answer(FALSE, e, s1)
    BY <1>3, <1>6 DEF Reads
  <2>3. exponent.ok /\ ~exponent.null /\ exponent.val = e /\ exponent.s = s1
    BY <2>2 DEF Answer
  <2>4. DecodeI64(exponent.s) = mantissa
    BY <2>3
  <2> HIDE DEF mantissa
  <2>5. r = IF ~mantissa.ok \/ mantissa.null THEN Failed(mantissa.s)
            ELSE Value(<<mantissa.val, e>>, mantissa.s)
    BY <1>1, <2>3, <2>4 DEF DecimalOf
  <2>6. s1.pos + n <= s1.max <=> s.pos + (m + n) <= s.max
    BY <1>2, <2>1
  <2>7. Moved(s1, n) = Moved(s, m + n)
    BY MovedTwice
  <2>8. Reads(mantissa, s1, n, FALSE, x)
    BY <1>4, <1>6
  <2> HIDE DEF s1
  <2>9. CASE s1.pos + n <= s1.max
    <3>1. mantissa = Answer(FALSE, x, Moved(s, m + n))
      BY <2>7, <2>8, <2>9 DEF Reads
    <3>2. mantissa.ok /\ ~mantissa.null /\ mantissa.val = x /\ mantissa.s = Moved(s, m + n)
      BY <3>1 DEF Answer
    <3>3. r = Answer(FALSE, <<x, e>>, Moved(s, m + n))
      BY <2>5, <3>2 DEF Value, Answer
    <3>4. Reads(r, s, m + n, FALSE, <<x, e>>)
      BY <2>6, <2>9, <3>3 DEF Reads
    <3> QED BY <3>4 DEF r
  <2>10. CASE ~(s1.pos + n <= s1.max)
    <3>1. PICK t : mantissa = Failed(t) /\ Reader(t) /\ t.max = s1.max /\ t.mem = s1.mem
      BY <2>8, <2>10 DEF Reads, IsRefusal
    <3>2. ~mantissa.ok /\ mantissa.s = t
      BY <3>1 DEF Failed
    <3>3. r = Failed(t)
      BY <2>5, <3>2
    <3>4. IsRefusal(r, s)
      BY <2>1, <3>1, <3>3 DEF IsRefusal
    <3>5. Reads(r, s, m + n, FALSE, <<x, e>>)
      BY <2>6, <2>10, <3>4 DEF Reads
    <3> QED BY <3>5 DEF r
  <2> QED BY <2>9, <2>10
<1> QED BY <1>5, <1>6

\* A decimal that is nothing.
LEMMA NoDecimalReads ==
    ASSUME NEW s, NEW n, NEW v, Reads(DecodeSigned(s, 1), s, n, TRUE, v)
    PROVE  Reads(DecodeDecimal(s), s, n, TRUE, v)
<1> DEFINE exponent == DecodeSigned(s, 1)
<1>1. DecodeDecimal(s) = DecimalOf(exponent, DecodeI64(exponent.s))
  BY DEF DecodeDecimal
<1>2. Reads(exponent, s, n, TRUE, v)
  OBVIOUS
<1> HIDE DEF exponent
<1>3. ~exponent.ok \/ exponent.null
  BY <1>2 DEF Reads, Answer, IsRefusal, Failed
<1>4. DecodeDecimal(s) = exponent
  BY <1>1, <1>3 DEF DecimalOf
<1> QED BY <1>2, <1>4

\* A decimal without its mantissa is refused.
LEMMA CutDecimal ==
    ASSUME NEW s, Reader(s), NEW m \in Nat, NEW e, s.max <= s.pos + m,
           Reads(DecodeI64(s), s, m, FALSE, e)
    PROVE  ~DecodeDecimal(s).ok /\ Reader(DecodeDecimal(s).s) /\ DecodeDecimal(s).s.max = s.max
<1> DEFINE whole == DecodeI64(s)
           exponent == DecodeSigned(s, 1)
           s1 == Moved(s, m)
           r == DecodeDecimal(s)
           inRange(x) == x >= -(ValuesIn[1] \div 2) /\ x < ValuesIn[1] \div 2
<1>1. r = DecimalOf(exponent, DecodeI64(exponent.s))
  BY DEF DecodeDecimal
<1>2. exponent = IF whole.ok /\ ~whole.null /\ ~inRange(whole.val) THEN Failed(whole.s) ELSE whole
  BY DEF DecodeSigned, OnlyIf
<1>3. s.pos \in Nat /\ s.max \in Nat
  BY DEF Reader
<1>4. Reads(whole, s, m, FALSE, e)
  OBVIOUS
<1>5. CASE ~(s.pos + m <= s.max)
  <2> HIDE DEF whole, exponent, r, inRange
  <2>1. PICK t : whole = Failed(t) /\ Reader(t) /\ t.max = s.max
    BY <1>4, <1>5 DEF Reads, IsRefusal
  <2>2. exponent = Failed(t)
    <3>1. ~whole.ok
      BY <2>1 DEF Failed
    <3> QED BY <1>2, <2>1, <3>1
  <2>3. ~exponent.ok
    BY <2>2 DEF Failed
  <2>4. r = Failed(t)
    BY <1>1, <2>2, <2>3 DEF DecimalOf
  <2> QED BY <2>1, <2>4 DEF Failed, r
<1>6. CASE s.pos + m <= s.max
  <2>1. Reader(s1) /\ s1.pos = s1.max /\ s1.max = s.max
    <3>1. Reader(s1) /\ s1.pos = s.pos + m /\ s1.max = s.max
      BY <1>6, MovedIs
    <3>2. s.pos + m = s.max
      BY <1>3, <1>6
    <3> QED BY <3>1, <3>2
  <2>2. IsRefusal(DecodeVLC(s1, TRUE), s1)
    BY <2>1, EndReads
  <2>3. PICK t : DecodeI64(s1) = Failed(t) /\ Reader(t) /\ t.max = s.max
    <3>1. PICK t : DecodeVLC(s1, TRUE) = Failed(t) /\ Reader(t) /\ t.max = s1.max
      BY <2>2 DEF IsRefusal
    <3>2. DecodeI64(s1) = Failed(t)
      <4> DEFINE u == DecodeVLC(s1, TRUE)
      <4>1. DecodeI64(s1) = IF u.ok /\ ~u.null THEN Value(AsSigned(u.val), u.s) ELSE u
        BY DEF DecodeI64
      <4>2. u = Failed(t)
        BY <3>1
      <4> HIDE DEF u
      <4>3. ~u.ok
        BY <4>2 DEF Failed
      <4> QED BY <4>1, <4>2, <4>3
    <3> QED BY <2>1, <3>1, <3>2
  <2> HIDE DEF whole, exponent, r, inRange
  <2>4. whole = Answer(FALSE, e, s1)
    BY <1>4, <1>6 DEF Reads
  <2> HIDE DEF s1
  <2>5. whole.ok /\ ~whole.null /\ whole.val = e /\ whole.s = s1
    BY <2>4 DEF Answer
  <2>6. CASE inRange(e)
    <3>1. exponent = whole
      BY <1>2, <2>5, <2>6
    <3>2. ~DecodeI64(exponent.s).ok /\ DecodeI64(exponent.s).s = t
      BY <2>3, <2>5, <3>1 DEF Failed
    <3>3. r = Failed(t)
      BY <1>1, <2>5, <3>1, <3>2 DEF DecimalOf
    <3> QED BY <2>3, <3>3 DEF Failed, r
  <2>7. CASE ~inRange(e)
    <3>1. exponent = Failed(s1)
      BY <1>2, <2>5, <2>7
    <3>2. ~exponent.ok
      BY <3>1 DEF Failed
    <3>3. r = Failed(s1)
      BY <1>1, <3>1, <3>2 DEF DecimalOf
    <3> QED BY <2>1, <3>3 DEF Failed, r
  <2> QED BY <2>6, <2>7
<1> QED BY <1>5, <1>6

-----------------------------------------------------------------------------
\* The encodings of the field types.

\* The types of integers without a sign and with one.
UnsignedKinds == {"present", "bool", "u8", "u16", "u64"}
SignedKinds == {"i8", "i16", "i64"}

\* The mark of a group that is there is the encoding of the word 1.
LEMMA PresentIs ==
    EncodeVLC(1, FALSE) = EncodePresent /\ 1 \in 0 .. Modulus - 1 /\ 0 \in 0 .. Modulus - 1
<1>1. PICK v \in Nat : v > 0 /\ Modulus = 65536 * v
  BY Words
<1>2. Sizeof(1, FALSE) = 1
  BY DEF Sizeof, SizeofUnsigned
<1>3. VLCBytes(1, 1) = <<1>>
  <2>1. 1 % 128 = 1
    OBVIOUS
  <2> QED BY <2>1 DEF VLCBytes
<1>4. EncodeVLC(1, FALSE) = EncodePresent
  BY <1>2, <1>3 DEF EncodeVLC, EncodePresent
<1>5. 1 \in 0 .. Modulus - 1 /\ 0 \in 0 .. Modulus - 1
  BY <1>1
<1> QED BY <1>4, <1>5

\* The types, and their values.
LEMMA KindsAre ==
    ASSUME NEW kind \in Kinds
    PROVE  /\ kind \in UnsignedKinds \union SignedKinds \union {"decimal", "f64"}
           /\ \A val \in ValuesOf(kind) : val # NULL /\ InType(kind, val)
BY ValuesAssumption DEF UnsignedKinds, SignedKinds

\* Null has one encoding.
LEMMA EncodingOfNull ==
    ASSUME NEW kind PROVE Encoding(kind, NULL) = <<EncodeNull>>
BY DEF Encoding

\* The encoding of an unsigned value is that of its word.
LEMMA EncodingOfUnsigned ==
    ASSUME NEW kind \in Kinds, kind \in UnsignedKinds, NEW val \in ValuesOf(kind)
    PROVE  /\ val \in 0 .. Modulus - 1 /\ Encoding(kind, val) = <<EncodeVLC(val, FALSE)>>
           /\ kind = "present" => val = 1
           /\ kind = "bool" => val \in {0, 1}
           /\ kind = "u8" => val < ValuesIn[1]
           /\ kind = "u16" => val < ValuesIn[2]
<1>1. val # NULL /\ InType(kind, val)
  BY KindsAre
<1>2. CASE kind = "present"
  <2>1. val = 1
    BY <1>1, <1>2 DEF InType
  <2>2. Encoding(kind, val) = <<EncodePresent>>
    BY <1>1, <1>2 DEF Encoding
  <2> QED BY <1>2, <2>1, <2>2, PresentIs
<1>3. CASE kind = "bool"
  <2>1. val \in {0, 1}
    BY <1>1, <1>3 DEF InType
  <2>2. Encoding(kind, val) = <<EncodeVLC(val, FALSE)>>
    BY <1>1, <1>3 DEF Encoding
  <2> QED BY <1>3, <2>1, <2>2, PresentIs
<1>4. CASE kind = "u8"
  <2>1. IsUnsigned(val, 1)
    BY <1>1, <1>4 DEF InType
  <2>2. Encoding(kind, val) = <<EncodeVLC(val, FALSE)>>
    BY <1>1, <1>4 DEF Encoding
  <2> QED BY <1>4, <2>1, <2>2, UnsignedIs
<1>5. CASE kind = "u16"
  <2>1. IsUnsigned(val, 2)
    BY <1>1, <1>5 DEF InType
  <2>2. Encoding(kind, val) = <<EncodeVLC(val, FALSE)>>
    BY <1>1, <1>5 DEF Encoding
  <2> QED BY <1>5, <2>1, <2>2, UnsignedIs
<1>6. CASE kind = "u64"
  <2>1. IsUnsigned(val, WORD_BYTES)
    BY <1>1, <1>6 DEF InType
  <2>2. Encoding(kind, val) = <<EncodeVLC(val, FALSE)>>
    BY <1>1, <1>6 DEF Encoding
  <2> QED BY <1>6, <2>1, <2>2, UnsignedIs
<1> QED BY <1>2, <1>3, <1>4, <1>5, <1>6 DEF UnsignedKinds

\* The encoding of a signed value is that of its word.
LEMMA EncodingOfSigned ==
    ASSUME NEW kind \in Kinds, kind \in SignedKinds, NEW val \in ValuesOf(kind)
    PROVE  /\ AsWord(val) \in 0 .. Modulus - 1 /\ AsSigned(AsWord(val)) = val
           /\ Encoding(kind, val) = <<EncodeVLC(AsWord(val), TRUE)>>
           /\ kind = "i8" => val >= -(ValuesIn[1] \div 2) /\ val < ValuesIn[1] \div 2
           /\ kind = "i16" => val >= -(ValuesIn[2] \div 2) /\ val < ValuesIn[2] \div 2
<1>1. val # NULL /\ InType(kind, val)
  BY KindsAre
<1>2. CASE kind = "i8"
  <2>1. IsSigned(val, 1)
    BY <1>1, <1>2 DEF InType
  <2>2. Encoding(kind, val) = <<EncodeVLC(AsWord(val), TRUE)>>
    BY <1>1, <1>2 DEF Encoding
  <2>3. val >= -(ValuesIn[1] \div 2) /\ val < ValuesIn[1] \div 2
    BY <2>1 DEF IsSigned
  <2> QED BY <1>2, <2>1, <2>2, <2>3, SignedIs
<1>3. CASE kind = "i16"
  <2>1. IsSigned(val, 2)
    BY <1>1, <1>3 DEF InType
  <2>2. Encoding(kind, val) = <<EncodeVLC(AsWord(val), TRUE)>>
    BY <1>1, <1>3 DEF Encoding
  <2>3. val >= -(ValuesIn[2] \div 2) /\ val < ValuesIn[2] \div 2
    BY <2>1 DEF IsSigned
  <2> QED BY <1>3, <2>1, <2>2, <2>3, SignedIs
<1>4. CASE kind = "i64"
  <2>1. IsSigned(val, WORD_BYTES)
    BY <1>1, <1>4 DEF InType
  <2>2. Encoding(kind, val) = <<EncodeVLC(AsWord(val), TRUE)>>
    BY <1>1, <1>4 DEF Encoding
  <2> QED BY <1>4, <2>1, <2>2, SignedIs
<1> QED BY <1>2, <1>3, <1>4 DEF SignedKinds

\* The encoding of a decimal is that of its exponent and of its mantissa.
LEMMA EncodingOfDecimal ==
    ASSUME "decimal" \in Kinds, NEW val \in ValuesOf("decimal")
    PROVE  /\ val = <<val[1], val[2]>>
           /\ AsWord(val[1]) \in 0 .. Modulus - 1 /\ AsSigned(AsWord(val[1])) = val[1]
           /\ AsWord(val[2]) \in 0 .. Modulus - 1 /\ AsSigned(AsWord(val[2])) = val[2]
           /\ val[2] >= -(ValuesIn[1] \div 2) /\ val[2] < ValuesIn[1] \div 2
           /\ Encoding("decimal", val) = <<EncodeVLC(AsWord(val[2]), TRUE), EncodeVLC(AsWord(val[1]), TRUE)>>
<1>1. val # NULL /\ InType("decimal", val)
  BY KindsAre
<1>2. val \in Int \X Int /\ IsSigned(val[1], WORD_BYTES) /\ IsSigned(val[2], 1)
  BY <1>1 DEF InType
<1>3. val = <<val[1], val[2]>>
  BY <1>2
<1>4. Encoding("decimal", val) = <<EncodeVLC(AsWord(val[2]), TRUE), EncodeVLC(AsWord(val[1]), TRUE)>>
  BY <1>1 DEF Encoding
<1>5. val[2] >= -(ValuesIn[1] \div 2) /\ val[2] < ValuesIn[1] \div 2
  BY <1>2 DEF IsSigned
<1> QED BY <1>2, <1>3, <1>4, <1>5, SignedIs

\* The encoding of a double is that of its bits.
LEMMA EncodingOfDouble ==
    ASSUME "f64" \in Kinds, NEW val \in ValuesOf("f64")
    PROVE  /\ val.of \in 0 .. Modulus - 1
           /\ val = DoubleOfBits(val.of)
           /\ Encoding("f64", val) = <<EncodeVLC(val.of, FALSE)>>
<1>1. val # NULL /\ InType("f64", val)
  BY KindsAre
<1>2. IsUnsigned(val.of, WORD_BYTES) /\ val = DoubleOfBits(val.of)
  BY <1>1 DEF InType
<1>3. Encoding("f64", val) = <<EncodeVLC(val.of, FALSE)>>
  BY <1>1 DEF Encoding, EncodeF64
<1> QED BY <1>2, <1>3, UnsignedIs

\* An item is encoded in one chunk, a decimal in two.
LEMMA EncodingIs ==
    ASSUME NEW kind \in Kinds, NEW val \in ValuesOf(kind) \union {NULL}
    PROVE  /\ AreChunks(Encoding(kind, val))
           /\ Len(Encoding(kind, val)) = 2 => kind = "decimal" /\ val \in ValuesOf(kind)
<1>1. CASE val = NULL
  <2>1. EncodeNull \in Seq(Nat)
    BY DEF EncodeNull
  <2>2. Encoding(kind, val) = <<EncodeNull>>
    BY <1>1, EncodingOfNull
  <2> HIDE DEF EncodeNull
  <2> QED BY <2>1, <2>2 DEF AreChunks
<1>2. CASE val \in ValuesOf(kind) /\ kind \in UnsignedKinds
  <2> DEFINE d == EncodeVLC(val, FALSE)
  <2>1. Encoding(kind, val) = <<d>> /\ d \in Seq(Nat)
    BY <1>2, EncodingOfUnsigned, EncodeIs
  <2> HIDE DEF d
  <2> QED BY <2>1 DEF AreChunks
<1>3. CASE val \in ValuesOf(kind) /\ kind \in SignedKinds
  <2> DEFINE d == EncodeVLC(AsWord(val), TRUE)
  <2>1. Encoding(kind, val) = <<d>> /\ d \in Seq(Nat)
    BY <1>3, EncodingOfSigned, EncodeIs
  <2> HIDE DEF d
  <2> QED BY <2>1 DEF AreChunks
<1>4. CASE val \in ValuesOf(kind) /\ kind = "decimal"
  <2> DEFINE d == EncodeVLC(AsWord(val[2]), TRUE)
             e == EncodeVLC(AsWord(val[1]), TRUE)
  <2>1. Encoding(kind, val) = <<d, e>> /\ d \in Seq(Nat) /\ e \in Seq(Nat)
    BY <1>4, EncodingOfDecimal, EncodeIs
  <2> HIDE DEF d, e
  <2> QED BY <1>4, <2>1 DEF AreChunks
<1>5. CASE val \in ValuesOf(kind) /\ kind = "f64"
  <2> DEFINE d == EncodeVLC(val.of, FALSE)
  <2>1. Encoding(kind, val) = <<d>> /\ d \in Seq(Nat)
    BY <1>5, EncodingOfDouble, EncodeIs
  <2> HIDE DEF d
  <2> QED BY <2>1 DEF AreChunks
<1> QED BY <1>1, <1>2, <1>3, <1>4, <1>5, KindsAre

\* What the decoder makes of an item: itself, but for the double whose number the bits are.
Made(kind, val) == IF kind = "f64" /\ val # NULL THEN DoubleOfNumber(val.of) ELSE val

\* The bytes of one chunk, and where they end.
LEMMA OneChunk ==
    ASSUME NEW s, Reader(s), NEW d \in Seq(Nat), NEW end, Spans(s.mem, s.pos, <<d>>, end)
    PROVE  Chunk(s.mem, s.pos, d) /\ Len(d) \in Nat /\ end = s.pos + Len(d) /\ end - s.pos = Len(d)
<1>1. <<d>>[1] = d /\ Len(<<d>>) = 1
  OBVIOUS
<1>2. Chunk(s.mem, s.pos, d) /\ end = s.pos + Len(d)
  BY <1>1 DEF Spans
<1>3. s.pos \in Nat /\ Len(d) \in Nat
  BY DEF Reader
<1> QED BY <1>2, <1>3

\* A null word is a null of every type.
LEMMA NullItemReads ==
    ASSUME NEW s, NEW kind \in Kinds,
           \A isSigned \in BOOLEAN : Reads(DecodeVLC(s, isSigned), s, 1, TRUE, NULL)
    PROVE  Reads(Decoding(kind, s), s, 1, TRUE, NULL)
<1>1. Reads(DecodeVLC(s, FALSE), s, 1, TRUE, NULL)
  OBVIOUS
<1>2. Reads(DecodeI64(s), s, 1, TRUE, NULL)
  <2>1. Reads(DecodeVLC(s, TRUE), s, 1, TRUE, NULL)
    OBVIOUS
  <2>2. Reads(DecodeI64(s), s, 1, TRUE, IF TRUE THEN NULL ELSE AsSigned(NULL))
    BY <2>1, I64Reads
  <2> QED BY <2>2
<1>3. Reads(DecodeF64(s), s, 1, TRUE, NULL)
  <2>1. Reads(DecodeF64(s), s, 1, TRUE, IF TRUE THEN NULL ELSE DoubleOfNumber(NULL))
    BY <1>1, F64Reads
  <2> QED BY <2>1
<1>4. \A bytes : Reads(DecodeUnsigned(s, bytes), s, 1, TRUE, NULL)
  BY <1>1, UnsignedReads
<1>5. \A bytes : Reads(DecodeSigned(s, bytes), s, 1, TRUE, NULL)
  BY <1>2, SignedReads
<1>6. Reads(DecodeBool(s), s, 1, TRUE, NULL) /\ Reads(DecodePresent(s), s, 1, TRUE, NULL)
  BY <1>1, BoolReads
<1>7. Reads(DecodeDecimal(s), s, 1, TRUE, NULL)
  BY <1>5, NoDecimalReads
<1>8. CASE kind \in UnsignedKinds
  BY <1>1, <1>4, <1>6, <1>8 DEF UnsignedKinds, Decoding, DecodeU64
<1>9. CASE kind \in SignedKinds
  BY <1>2, <1>5, <1>9 DEF SignedKinds, Decoding
<1>10. CASE kind = "decimal"
  BY <1>7, <1>10 DEF Decoding
<1>11. CASE kind = "f64"
  BY <1>3, <1>11 DEF Decoding
<1> QED BY <1>8, <1>9, <1>10, <1>11, KindsAre

\* An unsigned value is read as itself.
LEMMA UnsignedItemReads ==
    ASSUME NEW s, Reader(s), NEW kind \in Kinds, kind \in UnsignedKinds, NEW val \in ValuesOf(kind),
           Chunk(s.mem, s.pos, EncodeVLC(val, FALSE))
    PROVE  Reads(Decoding(kind, s), s, Len(EncodeVLC(val, FALSE)), FALSE, val)
<1> DEFINE n == Len(EncodeVLC(val, FALSE))
<1>1. /\ val \in 0 .. Modulus - 1
      /\ kind = "present" => val = 1
      /\ kind = "bool" => val \in {0, 1}
      /\ kind = "u8" => val < ValuesIn[1]
      /\ kind = "u16" => val < ValuesIn[2]
  BY EncodingOfUnsigned
<1>2. Reads(DecodeVLC(s, FALSE), s, n, FALSE, val)
  BY <1>1, WordReads
<1> HIDE DEF n
<1>3. CASE kind = "present"
  <2>1. val = 1 /\ val \in {0, 1}
    BY <1>1, <1>3
  <2>2. Reads(DecodePresent(s), s, n, FALSE, val)
    BY <1>2, <2>1, BoolReads
  <2> QED BY <1>3, <2>2 DEF Decoding, n
<1>4. CASE kind = "bool"
  <2>1. Reads(DecodeBool(s), s, n, FALSE, val)
    BY <1>1, <1>2, <1>4, BoolReads
  <2> QED BY <1>4, <2>1 DEF Decoding, n
<1>5. CASE kind = "u8"
  <2>1. Reads(DecodeUnsigned(s, 1), s, n, FALSE, val)
    BY <1>1, <1>2, <1>5, UnsignedReads
  <2> QED BY <1>5, <2>1 DEF Decoding, n
<1>6. CASE kind = "u16"
  <2>1. Reads(DecodeUnsigned(s, 2), s, n, FALSE, val)
    BY <1>1, <1>2, <1>6, UnsignedReads
  <2> QED BY <1>6, <2>1 DEF Decoding, n
<1>7. CASE kind = "u64"
  BY <1>2, <1>7 DEF Decoding, DecodeU64, n
<1> QED BY <1>3, <1>4, <1>5, <1>6, <1>7 DEF UnsignedKinds

\* A signed value is read as itself.
LEMMA SignedItemReads ==
    ASSUME NEW s, Reader(s), NEW kind \in Kinds, kind \in SignedKinds, NEW val \in ValuesOf(kind),
           Chunk(s.mem, s.pos, EncodeVLC(AsWord(val), TRUE))
    PROVE  Reads(Decoding(kind, s), s, Len(EncodeVLC(AsWord(val), TRUE)), FALSE, val)
<1> DEFINE n == Len(EncodeVLC(AsWord(val), TRUE))
<1>1. /\ AsWord(val) \in 0 .. Modulus - 1 /\ AsSigned(AsWord(val)) = val
      /\ kind = "i8" => val >= -(ValuesIn[1] \div 2) /\ val < ValuesIn[1] \div 2
      /\ kind = "i16" => val >= -(ValuesIn[2] \div 2) /\ val < ValuesIn[2] \div 2
  BY EncodingOfSigned
<1>2. Reads(DecodeI64(s), s, n, FALSE, val)
  <2>1. Reads(DecodeVLC(s, TRUE), s, n, FALSE, AsWord(val))
    BY <1>1, WordReads
  <2>2. Reads(DecodeI64(s), s, n, FALSE, IF FALSE THEN AsWord(val) ELSE AsSigned(AsWord(val)))
    <3> HIDE DEF n
    <3> QED BY <2>1, I64Reads
  <2> QED BY <1>1, <2>2
<1> HIDE DEF n
<1>3. CASE kind = "i8"
  <2>1. Reads(DecodeSigned(s, 1), s, n, FALSE, val)
    BY <1>1, <1>2, <1>3, SignedReads
  <2> QED BY <1>3, <2>1 DEF Decoding, n
<1>4. CASE kind = "i16"
  <2>1. Reads(DecodeSigned(s, 2), s, n, FALSE, val)
    BY <1>1, <1>2, <1>4, SignedReads
  <2> QED BY <1>4, <2>1 DEF Decoding, n
<1>5. CASE kind = "i64"
  BY <1>2, <1>5 DEF Decoding, n
<1> QED BY <1>3, <1>4, <1>5 DEF SignedKinds

\* A signed word is read as its number.
LEMMA NumberReads ==
    ASSUME NEW s, Reader(s), NEW v, AsWord(v) \in 0 .. Modulus - 1, AsSigned(AsWord(v)) = v,
           Chunk(s.mem, s.pos, EncodeVLC(AsWord(v), TRUE))
    PROVE  Reads(DecodeI64(s), s, Len(EncodeVLC(AsWord(v), TRUE)), FALSE, v)
<1> DEFINE n == Len(EncodeVLC(AsWord(v), TRUE))
<1>1. Reads(DecodeVLC(s, TRUE), s, n, FALSE, AsWord(v))
  BY WordReads
<1>2. Reads(DecodeI64(s), s, n, FALSE, IF FALSE THEN AsWord(v) ELSE AsSigned(AsWord(v)))
  <2> HIDE DEF n
  <2> QED BY <1>1, I64Reads
<1> QED BY <1>2

\* A decimal is read as itself.
LEMMA DecimalItemReads ==
    ASSUME NEW s, Reader(s), "decimal" \in Kinds, NEW val \in ValuesOf("decimal"), NEW end,
           Spans(s.mem, s.pos, Encoding("decimal", val), end)
    PROVE  Reads(Decoding("decimal", s), s, end - s.pos, FALSE, val)
<1> DEFINE d == EncodeVLC(AsWord(val[2]), TRUE)
           e == EncodeVLC(AsWord(val[1]), TRUE)
           m == Len(d)
           n == Len(e)
           chunks == Encoding("decimal", val)
<1>1. /\ val = <<val[1], val[2]>>
      /\ AsWord(val[1]) \in 0 .. Modulus - 1 /\ AsSigned(AsWord(val[1])) = val[1]
      /\ AsWord(val[2]) \in 0 .. Modulus - 1 /\ AsSigned(AsWord(val[2])) = val[2]
      /\ val[2] >= -(ValuesIn[1] \div 2) /\ val[2] < ValuesIn[1] \div 2
      /\ chunks = <<d, e>>
  BY EncodingOfDecimal
<1>2. d \in Seq(Nat) /\ e \in Seq(Nat)
  BY <1>1, EncodeIs
<1>3. m \in Nat /\ n \in Nat
  <2> HIDE DEF d, e
  <2>1. Len(d) \in Nat /\ Len(e) \in Nat
    BY <1>2
  <2> QED BY <2>1
<1>4. s.pos \in Nat /\ s.max \in Nat
  BY DEF Reader
<1>5. Chunk(s.mem, s.pos, d) /\ Chunk(s.mem, s.pos + m, e) /\ end = s.pos + m + n
  <2> HIDE DEF d, e, chunks
  <2>1. Len(chunks) = 2 /\ chunks[1] = d /\ chunks[2] = e
    BY <1>1
  <2>2. Spans(s.mem, s.pos, chunks, end)
    BY DEF chunks
  <2> HIDE DEF chunks
  <2> QED BY <2>1, <2>2 DEF Spans
<1>6. Reads(DecodeSigned(s, 1), s, m, FALSE, val[2])
  <2>1. Reads(DecodeI64(s), s, m, FALSE, val[2])
    BY <1>1, <1>5, NumberReads
  <2> HIDE DEF m
  <2> QED BY <1>1, <2>1, SignedReads
<1>7. s.pos + m <= s.max => Reads(DecodeI64(Moved(s, m)), Moved(s, m), n, FALSE, val[1])
  <2>1. ASSUME s.pos + m <= s.max
        PROVE  Reader(Moved(s, m)) /\ Chunk(Moved(s, m).mem, Moved(s, m).pos, e)
    BY <1>3, <1>5, <2>1, MovedIs
  <2> QED BY <1>1, <2>1, NumberReads
<1> HIDE DEF d, e, m, n, chunks
<1>8. Reads(DecodeDecimal(s), s, m + n, FALSE, <<val[1], val[2]>>)
  BY <1>3, <1>6, <1>7, DecimalReads
<1>9. m + n = end - s.pos
  BY <1>3, <1>4, <1>5
<1>10. Decoding("decimal", s) = DecodeDecimal(s)
  BY DEF Decoding
<1> QED BY <1>1, <1>8, <1>9, <1>10

\* An item is read as what the decoder makes of it, if its bytes are there, and refused if not.
LEMMA ItemReads ==
    ASSUME NEW s, Reader(s), NEW kind \in Kinds, NEW val \in ValuesOf(kind) \union {NULL}, NEW end,
           Spans(s.mem, s.pos, Encoding(kind, val), end)
    PROVE  Reads(Decoding(kind, s), s, end - s.pos, val = NULL, Made(kind, val))
<1>1. CASE val = NULL
  <2>1. Spans(s.mem, s.pos, <<EncodeNull>>, end)
    BY <1>1, EncodingOfNull
  <2>2. EncodeNull \in Seq(Nat) /\ Len(EncodeNull) = 1
    BY DEF EncodeNull
  <2>3. Chunk(s.mem, s.pos, EncodeNull) /\ end - s.pos = 1
    BY <2>1, <2>2, OneChunk
  <2>4. Reads(Decoding(kind, s), s, 1, TRUE, NULL)
    <3>1. \A isSigned \in BOOLEAN : Reads(DecodeVLC(s, isSigned), s, 1, TRUE, NULL)
      BY <2>3, NullReads
    <3> QED BY <3>1, NullItemReads
  <2>5. Made(kind, val) = NULL /\ (val = NULL) = TRUE
    BY <1>1 DEF Made
  <2> QED BY <2>3, <2>4, <2>5
<1>2. CASE val \in ValuesOf(kind)
  <2>1. (val = NULL) = FALSE
    BY <1>2, KindsAre
  <2>2. kind # "f64" => Made(kind, val) = val
    BY DEF Made
  <2>3. CASE kind \in UnsignedKinds
    <3> DEFINE d == EncodeVLC(val, FALSE)
    <3>1. Encoding(kind, val) = <<d>> /\ d \in Seq(Nat)
      BY <1>2, <2>3, EncodingOfUnsigned, EncodeIs
    <3>2. kind # "f64"
      BY <2>3 DEF UnsignedKinds
    <3>3. Chunk(s.mem, s.pos, d) /\ end - s.pos = Len(d)
      <4> HIDE DEF d
      <4> QED BY <3>1, OneChunk
    <3>4. Reads(Decoding(kind, s), s, Len(d), FALSE, val)
      BY <1>2, <2>3, <3>3, UnsignedItemReads
    <3> QED BY <2>1, <2>2, <3>2, <3>3, <3>4
  <2>4. CASE kind \in SignedKinds
    <3> DEFINE d == EncodeVLC(AsWord(val), TRUE)
    <3>1. Encoding(kind, val) = <<d>> /\ d \in Seq(Nat)
      BY <1>2, <2>4, EncodingOfSigned, EncodeIs
    <3>2. kind # "f64"
      BY <2>4 DEF SignedKinds
    <3>3. Chunk(s.mem, s.pos, d) /\ end - s.pos = Len(d)
      <4> HIDE DEF d
      <4> QED BY <3>1, OneChunk
    <3>4. Reads(Decoding(kind, s), s, Len(d), FALSE, val)
      BY <1>2, <2>4, <3>3, SignedItemReads
    <3> QED BY <2>1, <2>2, <3>2, <3>3, <3>4
  <2>5. CASE kind = "decimal"
    BY <1>2, <2>1, <2>2, <2>5, DecimalItemReads
  <2>6. CASE kind = "f64"
    <3> DEFINE d == EncodeVLC(val.of, FALSE)
               made == DoubleOfNumber(val.of)
    <3>1. Encoding(kind, val) = <<d>> /\ d \in Seq(Nat) /\ val.of \in 0 .. Modulus - 1
      BY <1>2, <2>6, EncodingOfDouble, EncodeIs
    <3>2. Chunk(s.mem, s.pos, d) /\ end - s.pos = Len(d)
      <4> HIDE DEF d
      <4> QED BY <3>1, OneChunk
    <3>3. Reads(DecodeVLC(s, FALSE), s, Len(d), FALSE, val.of)
      BY <3>1, <3>2, WordReads
    <3>4. Reads(DecodeF64(s), s, Len(d), FALSE, made)
      <4>1. Reads(DecodeF64(s), s, Len(d), FALSE, IF FALSE THEN val.of ELSE made)
        <5> HIDE DEF d
        <5> QED BY <3>3, F64Reads
      <4> QED BY <4>1
    <3>5. Decoding(kind, s) = DecodeF64(s)
      BY <2>6 DEF Decoding
    <3>6. Made(kind, val) = made
      BY <2>1, <2>6 DEF Made
    <3> HIDE DEF d, made
    <3> QED BY <2>1, <3>2, <3>4, <3>5, <3>6
  <2> QED BY <2>3, <2>4, <2>5, <2>6, KindsAre
<1> QED BY <1>1, <1>2

\* At the end of the bytes every item is refused.
LEMMA EndItemReads ==
    ASSUME NEW s, Reader(s), s.pos = s.max, NEW kind \in Kinds
    PROVE  IsRefusal(Decoding(kind, s), s)
<1>1. ~(s.pos + 1 <= s.max)
  BY DEF Reader
<1>2. ASSUME NEW isSigned \in BOOLEAN PROVE Reads(DecodeVLC(s, isSigned), s, 1, TRUE, NULL)
  <2>1. IsRefusal(DecodeVLC(s, isSigned), s)
    BY EndReads
  <2> QED BY <1>1, <2>1 DEF Reads
<1>3. Reads(Decoding(kind, s), s, 1, TRUE, NULL)
  BY <1>2, NullItemReads
<1> QED BY <1>1, <1>3 DEF Reads

-----------------------------------------------------------------------------
\* Messages.

\* The items that are sent, and what the decoder makes of them.
Items == UNION {[kind : {k}, val : ValuesOf(k) \union {NULL}] : k \in Kinds}
MadeItems == UNION {[kind : {k}, val : {Made(k, v) : v \in ValuesOf(k) \union {NULL}}] : k \in Kinds}

\* An item is a value of its type, or null.
LEMMA ItemIs ==
    ASSUME NEW x \in Items
    PROVE  /\ x.kind \in Kinds /\ x.val \in ValuesOf(x.kind) \union {NULL}
           /\ x = [kind |-> x.kind, val |-> x.val]
<1>1. PICK k \in Kinds : x \in [kind : {k}, val : ValuesOf(k) \union {NULL}]
  BY DEF Items
<1> QED BY <1>1

\* A value of a type, or null, makes an item.
LEMMA ItemOf ==
    ASSUME NEW k \in Kinds, NEW v \in ValuesOf(k) \union {NULL}
    PROVE  /\ [kind |-> k, val |-> v] \in Items
           /\ [kind |-> k, val |-> Made(k, v)] \in MadeItems
<1>1. [kind |-> k, val |-> v] \in [kind : {k}, val : ValuesOf(k) \union {NULL}]
  OBVIOUS
<1>2. [kind |-> k, val |-> Made(k, v)] \in [kind : {k}, val : {Made(k, u) : u \in ValuesOf(k) \union {NULL}}]
  OBVIOUS
<1>3. [kind |-> k, val |-> v] \in Items
  BY <1>1 DEF Items
<1>4. [kind |-> k, val |-> Made(k, v)] \in MadeItems
  BY <1>2 DEF MadeItems
<1> QED BY <1>3, <1>4

\* Where an item ends.
EndOf(ends, i) == IF i = 0 THEN 0 ELSE ends[i]

\* The items that were sent are in the buffer, one after the other.
IsLaid(s, items, ends) ==
    /\ \A i \in 0 .. Len(items) : EndOf(ends, i) \in Nat /\ EndOf(ends, i) <= s.pos
    /\ \A i \in 1 .. Len(items) :
            Spans(s.mem, EndOf(ends, i - 1), Encoding(items[i].kind, items[i].val), EndOf(ends, i))

\* Nothing follows them, but for the exponent of a decimal whose mantissa did not fit.
IsLeft(s, at, part) ==
    \/ s.pos = at
    \/ /\ part = "decimal"
       /\ \E val \in ValuesOf("decimal") :
            /\ Chunk(s.mem, at, EncodeVLC(AsWord(val[2]), TRUE))
            /\ s.pos = at + Len(EncodeVLC(AsWord(val[2]), TRUE))

\* Items that were sent stay.
LEMMA LaidStays ==
    ASSUME NEW s, Writer(s), NEW t, Keeps(s, t), NEW items \in Seq(Items), NEW ends,
           IsLaid(s, items, ends)
    PROVE  IsLaid(t, items, ends)
<1>1. s.pos \in Nat /\ t.pos \in Nat /\ s.pos <= t.pos
  BY DEF Keeps, Writer
<1>2. Len(items) \in Nat
  OBVIOUS
<1>3. ASSUME NEW i \in 0 .. Len(items) PROVE EndOf(ends, i) \in Nat /\ EndOf(ends, i) <= t.pos
  <2>1. EndOf(ends, i) \in Nat /\ EndOf(ends, i) <= s.pos
    BY DEF IsLaid
  <2> QED BY <1>1, <2>1
<1>4. ASSUME NEW i \in 1 .. Len(items)
      PROVE  Spans(t.mem, EndOf(ends, i - 1), Encoding(items[i].kind, items[i].val), EndOf(ends, i))
  <2>1. i - 1 \in 0 .. Len(items) /\ i \in 0 .. Len(items)
    BY <1>2
  <2>2. EndOf(ends, i - 1) \in Nat /\ EndOf(ends, i) <= s.pos
    BY <2>1 DEF IsLaid
  <2>3. items[i] \in Items
    OBVIOUS
  <2>4. AreChunks(Encoding(items[i].kind, items[i].val))
    BY <2>3, ItemIs, EncodingIs
  <2>5. Spans(s.mem, EndOf(ends, i - 1), Encoding(items[i].kind, items[i].val), EndOf(ends, i))
    BY DEF IsLaid
  <2> QED BY <2>2, <2>4, <2>5, SpansStay
<1> QED BY <1>3, <1>4 DEF IsLaid

\* So do they when one more is sent.
LEMMA LaidMore ==
    ASSUME NEW s, Writer(s), NEW t, Keeps(s, t), NEW items \in Seq(Items), NEW ends \in Seq(Nat),
           Len(ends) = Len(items), IsLaid(s, items, ends), s.pos = EndOf(ends, Len(ends)),
           NEW x \in Items, Spans(t.mem, s.pos, Encoding(x.kind, x.val), t.pos)
    PROVE  /\ IsLaid(t, Append(items, x), Append(ends, t.pos))
           /\ EndOf(Append(ends, t.pos), Len(ends) + 1) = t.pos
<1> DEFINE n == Len(items)
           more == Append(items, x)
           further == Append(ends, t.pos)
<1>1. s.pos \in Nat /\ t.pos \in Nat /\ s.pos <= t.pos
  BY DEF Keeps, Writer
<1>2. n \in Nat /\ Len(more) = n + 1 /\ Len(further) = n + 1
  OBVIOUS
<1>3. \A i \in 1 .. n : more[i] = items[i] /\ further[i] = ends[i]
  OBVIOUS
<1>4. more[n + 1] = x /\ further[n + 1] = t.pos
  OBVIOUS
<1>5. IsLaid(t, items, ends)
  BY LaidStays
<1>6. s.pos = EndOf(ends, n)
  OBVIOUS
<1> HIDE DEF n, more, further
<1>7. ASSUME NEW i \in 0 .. n PROVE EndOf(further, i) = EndOf(ends, i)
  <2>1. CASE i = 0
    BY <2>1 DEF EndOf
  <2>2. CASE i # 0
    <3>1. i \in 1 .. n
      BY <1>2, <2>2
    <3> QED BY <1>3, <2>2, <3>1 DEF EndOf
  <2> QED BY <2>1, <2>2
<1>8. EndOf(further, n + 1) = t.pos
  <2>1. n + 1 # 0
    BY <1>2
  <2> QED BY <1>4, <2>1 DEF EndOf
<1>9. ASSUME NEW i \in 0 .. n + 1 PROVE EndOf(further, i) \in Nat /\ EndOf(further, i) <= t.pos
  <2>1. CASE i = n + 1
    BY <1>1, <1>8, <2>1
  <2>2. CASE i # n + 1
    <3>1. i \in 0 .. n
      BY <1>2, <2>2
    <3> QED BY <1>5, <1>7, <3>1 DEF IsLaid, n
  <2> QED BY <2>1, <2>2
<1>10. ASSUME NEW i \in 1 .. n + 1
       PROVE  Spans(t.mem, EndOf(further, i - 1), Encoding(more[i].kind, more[i].val), EndOf(further, i))
  <2>1. CASE i = n + 1
    <3>1. i - 1 = n /\ n \in 0 .. n
      BY <1>2, <2>1
    <3>2. EndOf(further, i - 1) = s.pos
      BY <1>6, <1>7, <3>1
    <3> QED BY <1>4, <1>8, <2>1, <3>2
  <2>2. CASE i # n + 1
    <3>1. i \in 1 .. n /\ i \in 0 .. n /\ i - 1 \in 0 .. n
      BY <1>2, <2>2
    <3>2. EndOf(further, i - 1) = EndOf(ends, i - 1) /\ EndOf(further, i) = EndOf(ends, i) /\ more[i] = items[i]
      BY <1>3, <1>7, <3>1
    <3>3. Spans(t.mem, EndOf(ends, i - 1), Encoding(items[i].kind, items[i].val), EndOf(ends, i))
      BY <1>5, <3>1 DEF IsLaid, n
    <3> QED BY <3>2, <3>3
  <2> QED BY <2>1, <2>2
<1>11. IsLaid(t, more, further)
  BY <1>2, <1>9, <1>10 DEF IsLaid
<1> QED BY <1>8, <1>11 DEF n, more, further

-----------------------------------------------------------------------------
\* Any number of writes.

\* What the writes of chunks, one after another, leave: after none, one, two...
Step(r, d) == IF r.ok THEN BufferWrite(r.s, d) ELSE r
AreWrites(f, s, chunks, n) ==
    /\ DOMAIN f = 0 .. n
    /\ f[0] = [ok |-> TRUE, s |-> s]
    /\ \A i \in 1 .. n : f[i] = Step(f[i - 1], chunks[i])

\* The writes can be made one after another.
LEMMA WritesExist ==
    ASSUME NEW s, NEW chunks, NEW N \in Nat
    PROVE  \E f : AreWrites(f, s, chunks, N)
<1> DEFINE Good == {m \in Nat : \E f : AreWrites(f, s, chunks, m)}
<1>1. 0 \in Good
  <2> DEFINE f == [n \in 0 .. 0 |-> [ok |-> TRUE, s |-> s]]
  <2>1. AreWrites(f, s, chunks, 0)
    BY DEF AreWrites
  <2> HIDE DEF f
  <2> QED BY <2>1
<1>2. ASSUME NEW n \in 0 .. (N - 1), n \in Good PROVE n + 1 \in Good
  <2>1. PICK f : AreWrites(f, s, chunks, n)
    BY <1>2
  <2> DEFINE last == Step(f[n], chunks[n + 1])
             h == [k \in 0 .. (n + 1) |-> IF k = n + 1 THEN last ELSE f[k]]
  <2>2. DOMAIN h = 0 .. (n + 1) /\ h[n + 1] = last /\ \A k \in 0 .. n : h[k] = f[k]
    <3> HIDE DEF last
    <3> QED OBVIOUS
  <2> HIDE DEF h
  <2>3. ASSUME NEW k \in 1 .. (n + 1) PROVE h[k] = Step(h[k - 1], chunks[k])
    <3>1. CASE k = n + 1
      <4>1. k - 1 = n /\ n \in 0 .. n
        BY <3>1
      <4> QED BY <2>2, <3>1, <4>1
    <3>2. CASE k # n + 1
      <4>1. k \in 1 .. n /\ k - 1 \in 0 .. n /\ k \in 0 .. n
        BY <3>2
      <4> QED BY <2>1, <2>2, <4>1 DEF AreWrites
    <3> QED BY <3>1, <3>2
  <2>4. h[0] = [ok |-> TRUE, s |-> s]
    <3>1. 0 \in 0 .. n
      OBVIOUS
    <3> QED BY <2>1, <2>2, <3>1 DEF AreWrites
  <2>5. AreWrites(h, s, chunks, n + 1)
    BY <2>2, <2>3, <2>4 DEF AreWrites
  <2> QED BY <2>5
<1>3. N \in Good
  <2> HIDE DEF Good
  <2>1. \A n \in 0 .. N : n \in Good
    BY <1>1, <1>2, FromTo
  <2> QED BY <2>1
<1> QED BY <1>3

\* WriteAll makes them.
LEMMA WriteAllMakes ==
    ASSUME NEW s, NEW chunks, Len(chunks) \in Nat
    PROVE  \E f : AreWrites(f, s, chunks, Len(chunks)) /\ WriteAll(s, chunks) = f[Len(chunks)]
<1> DEFINE n == Len(chunks)
           a == [ok |-> TRUE, s |-> s]
           Eq(f) == f = [i \in 0 .. n |-> IF i = 0 THEN a
                                          ELSE IF f[i - 1].ok THEN BufferWrite(f[i - 1].s, chunks[i])
                                          ELSE f[i - 1]]
           after == CHOOSE f : Eq(f)
<1>1. WriteAll(s, chunks) = after[n]
  BY DEF WriteAll
<1>2. n \in Nat
  OBVIOUS
<1> HIDE DEF n, a
<1>3. \E f : Eq(f)
  <2>1. PICK g : AreWrites(g, s, chunks, n)
    BY <1>2, WritesExist
  <2> DEFINE h == [i \in 0 .. n |-> g[i]]
  <2>2. DOMAIN h = 0 .. n /\ \A i \in 0 .. n : h[i] = g[i]
    OBVIOUS
  <2> DEFINE k == [i \in 0 .. n |-> IF i = 0 THEN a
                                    ELSE IF h[i - 1].ok THEN BufferWrite(h[i - 1].s, chunks[i])
                                    ELSE h[i - 1]]
  <2>3. ASSUME NEW i \in 0 .. n PROVE k[i] = g[i]
    <3>1. CASE i = 0
      BY <2>1, <3>1 DEF AreWrites, a
    <3>2. CASE i # 0
      <4>1. i \in 1 .. n /\ i - 1 \in 0 .. n
        BY <1>2, <3>2
      <4>2. h[i - 1] = g[i - 1]
        BY <2>2, <4>1
      <4>3. g[i] = Step(g[i - 1], chunks[i])
        BY <2>1, <4>1 DEF AreWrites
      <4> HIDE DEF h
      <4> QED BY <3>2, <4>2, <4>3 DEF Step
    <3> QED BY <3>1, <3>2
  <2>4. k = [i \in 0 .. n |-> g[i]]
    <3> HIDE DEF h
    <3> QED BY <2>3
  <2>5. k = h
    BY <2>4
  <2> HIDE DEF h
  <2> QED BY <2>5
<1>4. Eq(after)
  <2> HIDE DEF Eq
  <2> QED BY <1>3
<1> HIDE DEF after
<1>5. AreWrites(after, s, chunks, n)
  <2>1. DOMAIN after = 0 .. n /\ after[0] = a
    BY <1>2, <1>4
  <2>2. ASSUME NEW i \in 1 .. n PROVE after[i] = Step(after[i - 1], chunks[i])
    <3>1. i \in 0 .. n /\ i # 0
      BY <1>2
    <3> QED BY <1>4, <3>1 DEF Step
  <2> QED BY <2>1, <2>2 DEF AreWrites, a
<1> QED BY <1>1, <1>5 DEF n

\* Their results are records.
LEMMA WritesAreResults ==
    ASSUME NEW s, NEW chunks, NEW n \in Nat, NEW f, AreWrites(f, s, chunks, n)
    PROVE  \A i \in 0 .. n : f[i] = [ok |-> f[i].ok, s |-> f[i].s] /\ f[i].ok \in BOOLEAN
<1> DEFINE Is(r) == r = [ok |-> r.ok, s |-> r.s] /\ r.ok \in BOOLEAN
           S == {i \in 0 .. n : Is(f[i])}
<1>1. 0 \in S
  <2>1. f[0] = [ok |-> TRUE, s |-> s]
    BY DEF AreWrites
  <2>2. Is(f[0])
    BY <2>1
  <2> HIDE DEF Is
  <2> QED BY <2>2
<1>2. ASSUME NEW i \in 0 .. (n - 1), i \in S PROVE i + 1 \in S
  <2>1. i + 1 \in 1 .. n /\ i + 1 - 1 = i /\ i + 1 \in 0 .. n
    OBVIOUS
  <2>2. f[i + 1] = Step(f[i], chunks[i + 1])
    BY <2>1 DEF AreWrites
  <2>3. Is(f[i])
    BY <1>2
  <2>4. ASSUME NEW t, NEW d PROVE Is(BufferWrite(t, d))
    BY DEF BufferWrite
  <2>5. Is(f[i + 1])
    <3>1. CASE f[i].ok
      <4>1. f[i + 1] = BufferWrite(f[i].s, chunks[i + 1])
        BY <2>2, <3>1 DEF Step
      <4> HIDE DEF Is
      <4> QED BY <2>4, <4>1
    <3>2. CASE ~f[i].ok
      <4>1. f[i + 1] = f[i]
        BY <2>2, <3>2 DEF Step
      <4> HIDE DEF Is
      <4> QED BY <2>3, <4>1
    <3> QED BY <3>1, <3>2
  <2> HIDE DEF Is
  <2> QED BY <2>1, <2>5
<1>3. \A i \in 0 .. n : i \in S
  <2> HIDE DEF S
  <2> QED BY <1>1, <1>2, FromTo
<1> QED BY <1>3

\* Some writes and then others are all of them, if the first do not fail.
LEMMA WriteAllBoth ==
    ASSUME NEW s, NEW a \in Seq(Seq(Nat)), NEW b \in Seq(Seq(Nat))
    PROVE  WriteAll(s, a \o b) = LET r == WriteAll(s, a)
                                 IN  IF r.ok THEN WriteAll(r.s, b) ELSE r
<1> DEFINE c == a \o b
           m == Len(a)
           n == Len(b)
<1>1. m \in Nat /\ n \in Nat /\ Len(c) = m + n
  OBVIOUS
<1>2. (\A i \in 1 .. m : c[i] = a[i]) /\ (\A i \in 1 .. n : c[m + i] = b[i])
  OBVIOUS
<1> HIDE DEF c, m, n
<1>3. PICK f : AreWrites(f, s, c, m + n) /\ WriteAll(s, c) = f[m + n]
  <2>1. Len(c) \in Nat
    BY <1>1
  <2> QED BY <1>1, <2>1, WriteAllMakes, Zenon
<1>4. PICK g : AreWrites(g, s, a, m) /\ WriteAll(s, a) = g[m]
  BY <1>1, WriteAllMakes DEF m
<1> DEFINE t == g[m]
<1>5. PICK h : AreWrites(h, t.s, b, n) /\ WriteAll(t.s, b) = h[n]
  BY <1>1, WriteAllMakes DEF n
<1>6. f[m] = t
  <2> DEFINE S == {i \in 0 .. m : f[i] = g[i]}
  <2>1. 0 \in S
    <3>1. f[0] = [ok |-> TRUE, s |-> s] /\ g[0] = [ok |-> TRUE, s |-> s] /\ 0 \in 0 .. m
      BY <1>1, <1>3, <1>4 DEF AreWrites
    <3> QED BY <3>1
  <2>2. ASSUME NEW i \in 0 .. (m - 1), i \in S PROVE i + 1 \in S
    <3>1. i + 1 \in 1 .. m /\ i + 1 - 1 = i /\ i + 1 \in 0 .. m /\ i + 1 \in 1 .. (m + n)
      BY <1>1
    <3>2. f[i + 1] = Step(f[i], c[i + 1]) /\ g[i + 1] = Step(g[i], a[i + 1])
      BY <1>3, <1>4, <3>1 DEF AreWrites
    <3> QED BY <1>2, <2>2, <3>1, <3>2
  <2>3. \A i \in 0 .. m : i \in S
    <3> HIDE DEF S
    <3> QED BY <1>1, <2>1, <2>2, FromTo
  <2> QED BY <1>1, <2>3
<1>7. t = [ok |-> t.ok, s |-> t.s] /\ t.ok \in BOOLEAN
  <2>1. m \in 0 .. m
    BY <1>1
  <2> QED BY <1>1, <1>4, <2>1, WritesAreResults
<1>8. ASSUME NEW i \in 1 .. n PROVE f[m + i] = Step(f[m + (i - 1)], b[i])
  <2> DEFINE k == m + i
  <2>1. k \in 1 .. (m + n) /\ k - 1 = m + (i - 1)
    BY <1>1
  <2>2. c[k] = b[i]
    BY <1>2
  <2> HIDE DEF k
  <2>3. \A l \in 1 .. (m + n) : f[l] = Step(f[l - 1], c[l])
    BY <1>3 DEF AreWrites
  <2>4. f[k] = Step(f[k - 1], c[k])
    BY <2>1, <2>3
  <2> QED BY <2>1, <2>2, <2>4 DEF k
<1>9. CASE t.ok
  <2> DEFINE S == {i \in 0 .. n : f[m + i] = h[i]}
  <2>1. 0 \in S
    <3>1. h[0] = t
      BY <1>5, <1>7, <1>9 DEF AreWrites
    <3>2. m + 0 = m /\ 0 \in 0 .. n
      BY <1>1
    <3> QED BY <1>6, <3>1, <3>2
  <2>2. ASSUME NEW i \in 0 .. (n - 1), i \in S PROVE i + 1 \in S
    <3>1. i + 1 \in 1 .. n /\ i + 1 - 1 = i /\ i + 1 \in 0 .. n
      BY <1>1
    <3>2. f[m + (i + 1)] = Step(f[m + i], b[i + 1])
      BY <1>8, <3>1
    <3>3. h[i + 1] = Step(h[i], b[i + 1])
      BY <1>5, <3>1 DEF AreWrites
    <3> QED BY <2>2, <3>1, <3>2, <3>3
  <2>3. \A i \in 0 .. n : i \in S
    <3> HIDE DEF S
    <3> QED BY <1>1, <2>1, <2>2, FromTo
  <2>4. f[m + n] = h[n]
    <3>1. n \in 0 .. n
      BY <1>1
    <3> QED BY <2>3, <3>1
  <2> HIDE DEF t
  <2> QED BY <1>3, <1>4, <1>5, <1>9, <2>4 DEF t, c
<1>10. CASE ~t.ok
  <2> DEFINE S == {i \in 0 .. n : f[m + i] = t}
  <2>1. 0 \in S
    <3>1. m + 0 = m /\ 0 \in 0 .. n
      BY <1>1
    <3> QED BY <1>6, <3>1
  <2>2. ASSUME NEW i \in 0 .. (n - 1), i \in S PROVE i + 1 \in S
    <3>1. i + 1 \in 1 .. n /\ i + 1 - 1 = i /\ i + 1 \in 0 .. n
      BY <1>1
    <3>2. f[m + (i + 1)] = Step(f[m + i], b[i + 1])
      BY <1>8, <3>1
    <3> QED BY <1>10, <2>2, <3>1, <3>2 DEF Step
  <2>3. \A i \in 0 .. n : i \in S
    <3> HIDE DEF S
    <3> QED BY <1>1, <2>1, <2>2, FromTo
  <2>4. f[m + n] = t
    <3>1. n \in 0 .. n
      BY <1>1
    <3> QED BY <2>3, <3>1
  <2> QED BY <1>3, <1>4, <1>10, <2>4 DEF c
<1> QED BY <1>7, <1>9, <1>10

\* What chunks take of a stream: n bytes if they fit, or fewer when one of them does not.
Takes(chunks, n) ==
    /\ chunks \in Seq(Seq(Nat))
    /\ n \in Nat
    /\ \A s : Writer(s) =>
          LET r == WriteAll(s, chunks) IN
          /\ r.ok \in BOOLEAN
          /\ Keeps(s, r.s)
          /\ r.ok => r.s.pos = s.pos + n
          /\ ~r.ok => r.s.pos < s.pos + n

\* No writes take nothing.
LEMMA NoneTake == Takes(<<>>, 0)
<1>1. <<>> \in Seq(Seq(Nat)) /\ Len(<<>>) = 0
  OBVIOUS
<1>2. ASSUME NEW s, Writer(s) PROVE WriteAll(s, <<>>) = [ok |-> TRUE, s |-> s]
  <2>1. PICK f : AreWrites(f, s, <<>>, 0) /\ WriteAll(s, <<>>) = f[0]
    BY <1>1, WriteAllMakes
  <2> QED BY <2>1 DEF AreWrites
<1>3. ASSUME NEW s, Writer(s)
      PROVE  LET r == WriteAll(s, <<>>) IN
             /\ r.ok \in BOOLEAN
             /\ Keeps(s, r.s)
             /\ r.ok => r.s.pos = s.pos + 0
             /\ ~r.ok => r.s.pos < s.pos + 0
  <2> DEFINE r == WriteAll(s, <<>>)
  <2>1. r.ok = TRUE /\ r.s = s
    BY <1>2, <1>3
  <2>2. s.pos \in Nat
    BY <1>3 DEF Writer
  <2>3. s.pos = s.pos + 0
    BY <2>2
  <2> HIDE DEF r
  <2>4. Keeps(s, s)
    BY <1>3, KeepsSame
  <2> QED BY <2>1, <2>3, <2>4 DEF r
<1> QED BY <1>1, <1>3 DEF Takes

\* One write takes its bytes, and is refused only if it has some.
LEMMA OneTakes ==
    ASSUME NEW d \in Seq(Nat) PROVE Takes(<<d>>, Len(d))
<1> DEFINE n == Len(d)
<1>1. <<d>> \in Seq(Seq(Nat)) /\ Len(<<d>>) = 1 /\ n \in Nat /\ <<d>>[1] = d
  OBVIOUS
<1>2. ASSUME NEW s, Writer(s)
      PROVE  LET r == WriteAll(s, <<d>>) IN
             /\ r.ok \in BOOLEAN
             /\ Keeps(s, r.s)
             /\ r.ok => r.s.pos = s.pos + n
             /\ ~r.ok => r.s.pos < s.pos + n
  <2> DEFINE r == WriteAll(s, <<d>>)
             b == BufferWrite(s, d)
  <2>1. r = b
    BY <1>1, WriteAllIs
  <2>2. /\ b.ok \in BOOLEAN
        /\ b.ok => Keeps(s, b.s) /\ b.s.pos = s.pos + n
        /\ ~b.ok => b.s = s
    BY <1>2, WriteIs
  <2>3. s.pos \in Nat /\ s.max \in Nat /\ s.pos <= s.max /\ s.out = TRUE
    BY <1>2 DEF Writer
  <2>4. ASSUME n = 0 PROVE b.ok
    <3>1. Room(s) = s.max - s.pos
      BY <2>3 DEF Room, UintMinus
    <3>2. INT_MAX \in Nat
      BY IntMaxAssumption
    <3> HIDE DEF n
    <3>3. n <= INT_MAX /\ Room(s) >= n
      BY <2>3, <2>4, <3>1, <3>2
    <3>4. WriteFits(s, d)
      BY <2>3, <3>3 DEF WriteFits, n
    <3> QED BY <3>4 DEF BufferWrite
  <2> HIDE DEF r, b, n
  <2>5. Keeps(s, s)
    BY <1>2, KeepsSame
  <2>6. Keeps(s, r.s)
    BY <2>1, <2>2, <2>5
  <2>7. ~r.ok => r.s.pos < s.pos + n
    BY <1>1, <2>1, <2>2, <2>3, <2>4
  <2> QED BY <2>1, <2>2, <2>6, <2>7 DEF r
<1> QED BY <1>1, <1>2 DEF Takes

\* Some writes and others take what both take.
LEMMA BothTake ==
    ASSUME NEW a, NEW m, Takes(a, m), NEW b, NEW n, Takes(b, n)
    PROVE  Takes(a \o b, m + n)
<1>1. a \in Seq(Seq(Nat)) /\ b \in Seq(Seq(Nat)) /\ m \in Nat /\ n \in Nat
  BY DEF Takes
<1>2. a \o b \in Seq(Seq(Nat)) /\ m + n \in Nat
  BY <1>1
<1>3. ASSUME NEW s, Writer(s)
      PROVE  LET r == WriteAll(s, a \o b) IN
             /\ r.ok \in BOOLEAN
             /\ Keeps(s, r.s)
             /\ r.ok => r.s.pos = s.pos + (m + n)
             /\ ~r.ok => r.s.pos < s.pos + (m + n)
  <2> DEFINE r == WriteAll(s, a \o b)
             t == WriteAll(s, a)
             u == WriteAll(t.s, b)
  <2>1. r = IF t.ok THEN u ELSE t
    BY <1>1, WriteAllBoth
  <2>2. t.ok \in BOOLEAN /\ Keeps(s, t.s) /\ (t.ok => t.s.pos = s.pos + m) /\ (~t.ok => t.s.pos < s.pos + m)
    BY <1>3 DEF Takes
  <2>3. Writer(t.s)
    BY <2>2 DEF Keeps
  <2>4. u.ok \in BOOLEAN /\ Keeps(t.s, u.s) /\ (u.ok => u.s.pos = t.s.pos + n)
        /\ (~u.ok => u.s.pos < t.s.pos + n)
    BY <2>3 DEF Takes
  <2>5. s.pos \in Nat /\ t.s.pos \in Nat
    BY <1>3, <2>3 DEF Writer
  <2> HIDE DEF r, t, u
  <2>6. u.s.pos \in Nat
    BY <2>4 DEF Keeps, Writer
  <2>7. CASE t.ok
    <3>1. Keeps(s, u.s)
      BY <1>3, <2>2, <2>4, KeepsTwice
    <3>2. r = u
      BY <2>1, <2>7
    <3>3. t.s.pos = s.pos + m
      BY <2>2, <2>7
    <3>4. (u.ok => u.s.pos = s.pos + (m + n)) /\ (~u.ok => u.s.pos < s.pos + (m + n))
      BY <1>1, <2>4, <2>5, <2>6, <3>3
    <3> QED BY <2>4, <3>1, <3>2, <3>4 DEF r
  <2>8. CASE ~t.ok
    <3>1. t.s.pos < s.pos + (m + n)
      BY <1>1, <2>2, <2>5, <2>8
    <3>2. r = t
      BY <2>1, <2>8
    <3> QED BY <2>2, <2>8, <3>1, <3>2 DEF r
  <2> QED BY <2>2, <2>7, <2>8
<1> QED BY <1>2, <1>3 DEF Takes

\* The size of a word's encoding is the one that was computed.
LEMMA EncodedIs ==
    ASSUME NEW w \in 0 .. Modulus - 1, NEW isSigned \in BOOLEAN
    PROVE  /\ EncodeVLC(w, isSigned) \in Seq(Nat)
           /\ Len(EncodeVLC(w, isSigned)) = Sizeof(w, isSigned)
           /\ Sizeof(w, isSigned) \in 1 .. WORD_BYTES + 1
<1>1. Sizeof(w, isSigned) \in 1 .. WORD_BYTES + 1 /\ w \in Nat
  BY SizeofFits, NumberIs
<1> QED BY <1>1, LayoutIs DEF IsLayout, EncodeVLC

\* A message whose first write is the size of the others, as one reads it who has what was
\* written of it.
MessageAt(s, r) == [NewBuffer(TRUE, FALSE, r.s.mem, r.s.pos) EXCEPT !.pos = s.pos]

\* The size that goes before other writes is read back: it is the number of the bytes that
\* follow if all was written, and more than those if not.
LEMMA AnnouncedIsRead ==
    ASSUME NEW s, Writer(s), NEW size \in 0 .. Modulus - 1, NEW body, Takes(body, size)
    PROVE  LET r == WriteAll(s, <<EncodeVLC(size, FALSE)>> \o body)
               d == DecodeVLC(MessageAt(s, r), FALSE)
           IN  /\ Keeps(s, r.s)
               /\ IF r.ok THEN d.ok /\ d.val = r.s.pos - d.s.pos
                          ELSE d.ok => d.val > r.s.pos - d.s.pos
<1> DEFINE head == EncodeVLC(size, FALSE)
           r == WriteAll(s, <<head>> \o body)
           b == BufferWrite(s, head)
           u == WriteAll(b.s, body)
           t == MessageAt(s, r)
           d == DecodeVLC(t, FALSE)
           n == Len(head)
<1>1. head \in Seq(Nat) /\ n \in Nat /\ n >= 1
  <2>1. head \in Seq(Nat) /\ n = Sizeof(size, FALSE) /\ Sizeof(size, FALSE) \in 1 .. WORD_BYTES + 1
    BY EncodedIs
  <2> DEFINE k == Sizeof(size, FALSE)
  <2>2. WORD_BYTES \in Nat
    BY Words
  <2>3. k \in 1 .. WORD_BYTES + 1
    BY <2>1
  <2> HIDE DEF head, n, k
  <2>4. k \in Nat /\ k >= 1
    BY <2>3, <2>2
  <2>5. n \in Nat /\ n >= 1
    BY <2>1, <2>4 DEF k
  <2> QED BY <2>1, <2>5
<1>2. Takes(<<head>>, n)
  BY <1>1, OneTakes
<1>3. Keeps(s, r.s) /\ r.ok \in BOOLEAN
  <2>1. Takes(<<head>> \o body, n + size)
    BY <1>2, BothTake
  <2> QED BY <2>1 DEF Takes
<1>4. WriteAll(s, <<head>>) = b
  <2> HIDE DEF head
  <2>1. Len(<<head>>) = 1 /\ <<head>>[1] = head
    OBVIOUS
  <2> QED BY <2>1, WriteAllIs
<1>5. r = IF b.ok THEN u ELSE b
  <2>1. <<head>> \in Seq(Seq(Nat)) /\ body \in Seq(Seq(Nat))
    BY <1>2 DEF Takes
  <2> QED BY <1>4, <2>1, WriteAllBoth
<1>6. /\ b.ok \in BOOLEAN
      /\ b.ok => Keeps(s, b.s) /\ b.s.pos = s.pos + n /\ Chunk(b.s.mem, s.pos, head)
      /\ ~b.ok => b.s = s
  BY <1>1, WriteIs
<1>7. s.pos \in Nat /\ r.s.pos \in Nat /\ s.pos <= r.s.pos
  BY <1>3 DEF Keeps, Writer
<1> HIDE DEF head, r, b, u, n
<1>8. Reader(t) /\ t.pos = s.pos /\ t.max = r.s.pos /\ t.mem = r.s.mem
  <2> DEFINE at == s.pos
             end == r.s.pos
             mem == r.s.mem
             full == [in |-> TRUE, out |-> FALSE, mem |-> mem, max |-> end, pos |-> at, eof |-> FALSE]
             first == [in |-> TRUE, out |-> FALSE, mem |-> mem, max |-> end, pos |-> 0, eof |-> FALSE]
  <2>1. NewBuffer(TRUE, FALSE, mem, end) = first
    BY DEF NewBuffer
  <2>2. t = [first EXCEPT !.pos = at]
    <3> HIDE DEF first
    <3> QED BY <2>1 DEF MessageAt
  <2> HIDE DEF at, end, mem, t
  <2>3. t = full
    BY <2>2
  <2>4. at \in Nat /\ end \in Nat /\ at <= end
    BY <1>7 DEF at, end
  <2>5. full \in [in : {TRUE}, out : BOOLEAN, mem : {mem}, max : Nat, pos : Nat, eof : BOOLEAN]
    BY <2>4
  <2>6. full.mem = mem /\ full.pos = at /\ full.max = end
    OBVIOUS
  <2> HIDE DEF full
  <2>7. Reader(full)
    BY <2>4, <2>5, <2>6 DEF Reader
  <2> QED BY <2>3, <2>6, <2>7 DEF at, end, mem
<1> HIDE DEF t
<1>9. CASE ~b.ok
  <2>1. r = b /\ r.s = s
    BY <1>5, <1>6, <1>9
  <2>2. t.pos = t.max
    BY <1>8, <2>1
  <2>3. IsRefusal(d, t)
    BY <1>8, <2>2, EndReads
  <2> HIDE DEF d
  <2>4. ~d.ok
    <3>1. PICK x : d = Failed(x)
      BY <2>3 DEF IsRefusal
    <3> QED BY <3>1 DEF Failed
  <2> QED BY <1>3, <1>9, <2>1, <2>4 DEF r, d, t, head
<1>10. CASE b.ok
  <2>1. r = u /\ Writer(b.s) /\ b.s.pos = s.pos + n /\ Chunk(b.s.mem, s.pos, head)
    BY <1>5, <1>6, <1>10 DEF Keeps
  <2>2. /\ u.ok \in BOOLEAN
        /\ Keeps(b.s, u.s)
        /\ u.ok => u.s.pos = b.s.pos + size
        /\ ~u.ok => u.s.pos < b.s.pos + size
    BY <2>1 DEF Takes, u
  <2>3. Chunk(t.mem, t.pos, head)
    <3>1. s.pos + Len(head) <= b.s.pos
      BY <1>1, <1>7, <2>1 DEF n
    <3>2. Chunk(u.s.mem, s.pos, head)
      BY <1>1, <1>7, <2>1, <2>2, <3>1, ChunkStays
    <3> QED BY <1>8, <2>1, <3>2
  <2>4. Reads(d, t, n, FALSE, size)
    BY <1>8, <2>3, WordReads DEF head, n
  <2>5. t.pos + n <= t.max
    <3>1. b.s.pos <= u.s.pos
      BY <2>2 DEF Keeps
    <3> QED BY <1>8, <2>1, <3>1
  <2>6. d = Answer(FALSE, size, Moved(t, n))
    BY <2>4, <2>5 DEF Reads
  <2>7. Moved(t, n).pos = t.pos + n
    BY <1>1, <1>8, <2>5, MovedIs
  <2> HIDE DEF d
  <2>8. d.ok = TRUE /\ d.val = size /\ d.s.pos = s.pos + n
    <3> DEFINE m == Moved(t, n)
    <3> HIDE DEF m
    <3>1. d = Answer(FALSE, size, m) /\ m.pos = s.pos + n
      BY <1>8, <2>6, <2>7 DEF m
    <3>2. d.ok = TRUE /\ d.val = size /\ d.s = m
      BY <3>1 DEF Answer
    <3> QED BY <3>1, <3>2
  <2>9. size \in Nat
    BY DEF Takes
  <2>10. IF u.ok THEN size = u.s.pos - d.s.pos ELSE size > u.s.pos - d.s.pos
    BY <1>1, <1>7, <2>1, <2>2, <2>8, <2>9
  <2> QED BY <1>3, <2>1, <2>8, <2>10 DEF r, d, t, head
<1> QED BY <1>6, <1>9, <1>10 DEF r, d, t, head

-----------------------------------------------------------------------------
\* The encoder and the decoder.

\* What is sent and received is made of items, and the streams are ones that can be used.
CodecTypes ==
    /\ phase \in {"encode", "decode", "refused"}
    /\ partial \in Kinds \union {"none"}
    /\ Writer(out) /\ out.max = Capacity
    /\ Reader(in)
    /\ sent \in Seq(Items)
    /\ marks \in Seq(Nat)
    /\ Len(marks) = Len(sent)
    /\ got \in Seq(MadeItems)
    /\ Len(got) <= Len(sent)

\* The buffer holds the items sent, and perhaps part of one that did not fit.
CodecLaid ==
    /\ IsLaid(out, sent, marks)
    /\ IsLeft(out, EndOf(marks, Len(marks)), partial)
    /\ partial = "none" => out.pos = EndOf(marks, Len(marks))

\* The decoder reads what the encoder wrote, and stands where an item ends.
CodecRead ==
    /\ phase = "encode" => got = <<>>
    /\ phase = "decode" => /\ in.mem = out.mem
                           /\ in.max <= out.pos
                           /\ in.pos = EndOf(marks, Len(got))
    /\ RefusedOnlyWhenCut

CodecInv == CodecTypes /\ CodecLaid /\ CodecRead

\* At first nothing is sent.
LEMMA CodecInit == Init => CodecInv
<1> SUFFICES ASSUME Init PROVE CodecInv
  OBVIOUS
<1>1. /\ out = NewBuffer(TRUE, TRUE, [i \in 0 .. (Capacity - 1) |-> 0], Capacity)
      /\ sent = <<>> /\ marks = <<>> /\ partial = "none" /\ in = NoInput /\ got = <<>> /\ phase = "encode"
  BY DEF Init
<1>2. Capacity \in Nat
  BY ValuesAssumption
<1>3. Writer(out) /\ out.max = Capacity /\ out.pos = 0
  <2> DEFINE mem == [i \in 0 .. (Capacity - 1) |-> 0]
  <2>1. out = [in |-> TRUE, out |-> TRUE, mem |-> mem, max |-> Capacity, pos |-> 0, eof |-> FALSE]
    BY <1>1 DEF NewBuffer
  <2>2. DOMAIN mem = 0 .. (Capacity - 1)
    OBVIOUS
  <2> HIDE DEF mem
  <2>3. out \in [in : BOOLEAN, out : {TRUE}, mem : {mem}, max : Nat, pos : Nat, eof : BOOLEAN]
    BY <1>2, <2>1
  <2>4. out.mem = mem /\ out.max = Capacity /\ out.pos = 0
    BY <2>1
  <2>5. out \in [in : BOOLEAN, out : {TRUE}, mem : {out.mem}, max : Nat, pos : Nat, eof : BOOLEAN]
    BY <2>3, <2>4
  <2>6. DOMAIN out.mem = 0 .. (out.max - 1) /\ out.pos <= out.max
    BY <1>2, <2>2, <2>4
  <2> QED BY <2>4, <2>5, <2>6 DEF Writer
<1>4. Reader(in)
  <2>1. in = [in |-> TRUE, out |-> FALSE, mem |-> <<>>, max |-> 0, pos |-> 0, eof |-> FALSE]
    BY <1>1 DEF NoInput, NewBuffer
  <2>2. in \in [in : {TRUE}, out : BOOLEAN, mem : {<<>>}, max : Nat, pos : Nat, eof : BOOLEAN]
    BY <2>1
  <2>3. in.mem = <<>> /\ in.pos <= in.max
    BY <2>1
  <2> QED BY <2>2, <2>3 DEF Reader
<1>5. CodecTypes
  <2>1. sent \in Seq(Items) /\ marks \in Seq(Nat) /\ Len(marks) = Len(sent) /\ got \in Seq(MadeItems)
        /\ Len(got) <= Len(sent)
    BY <1>1
  <2> QED BY <1>1, <1>3, <1>4, <2>1 DEF CodecTypes
<1>6. EndOf(marks, 0) = 0 /\ Len(marks) = 0 /\ Len(sent) = 0
  BY <1>1 DEF EndOf
<1>7. IsLaid(out, sent, marks)
  <2>1. ASSUME NEW i \in 0 .. Len(sent) PROVE EndOf(marks, i) \in Nat /\ EndOf(marks, i) <= out.pos
    <3>1. i = 0
      BY <1>6
    <3> QED BY <1>3, <1>6, <3>1
  <2>2. 1 .. Len(sent) = {}
    BY <1>6
  <2> QED BY <2>1, <2>2 DEF IsLaid
<1>8. CodecLaid
  BY <1>1, <1>3, <1>6, <1>7 DEF CodecLaid, IsLeft
<1>9. CodecRead
  BY <1>1 DEF CodecRead, RefusedOnlyWhenCut
<1> QED BY <1>5, <1>8, <1>9 DEF CodecInv

\* A value is written, or does not fit.
LEMMA EncodeKeeps ==
    ASSUME CodecInv, NEW kind \in Kinds, NEW val \in ValuesOf(kind) \union {NULL}, Encode(kind, val)
    PROVE  CodecInv'
<1> DEFINE chunks == Encoding(kind, val)
           r == WriteAll(out, chunks)
           item == [kind |-> kind, val |-> val]
<1>1. /\ phase = "encode" /\ partial = "none" /\ out' = r.s
      /\ IF r.ok
         THEN sent' = Append(sent, item) /\ marks' = Append(marks, r.s.pos) /\ partial' = partial
         ELSE partial' = kind /\ sent' = sent /\ marks' = marks
      /\ in' = in /\ got' = got /\ phase' = phase
  BY DEF Encode
<1>2. /\ Writer(out) /\ out.max = Capacity /\ Reader(in) /\ sent \in Seq(Items) /\ marks \in Seq(Nat)
      /\ Len(marks) = Len(sent) /\ got = <<>>
      /\ IsLaid(out, sent, marks) /\ out.pos = EndOf(marks, Len(marks))
  BY <1>1 DEF CodecInv, CodecTypes, CodecLaid, CodecRead
<1>3. /\ AreChunks(chunks)
      /\ Len(chunks) = 2 => kind = "decimal" /\ val \in ValuesOf(kind)
  BY EncodingIs
<1>4. /\ r.ok \in BOOLEAN
      /\ Keeps(out, r.s)
      /\ r.ok => Spans(r.s.mem, out.pos, chunks, r.s.pos)
      /\ ~r.ok => \/ r.s = out
                  \/ /\ Len(chunks) = 2
                     /\ Chunk(r.s.mem, out.pos, chunks[1])
                     /\ r.s.pos = out.pos + Len(chunks[1])
  BY <1>2, <1>3, ItemWritten
<1>5. item \in Items /\ item.kind = kind /\ item.val = val
  BY ItemOf
<1> HIDE DEF r, item
<1>6. Writer(out') /\ out'.max = Capacity
  BY <1>1, <1>2, <1>4 DEF Keeps
<1>7. CodecRead'
  BY <1>1, <1>2 DEF CodecRead, RefusedOnlyWhenCut
<1>8. CASE r.ok
  <2>1. sent' = Append(sent, item) /\ marks' = Append(marks, r.s.pos) /\ partial' = "none"
    BY <1>1, <1>8
  <2>2. IsLaid(r.s, Append(sent, item), Append(marks, r.s.pos))
        /\ EndOf(Append(marks, r.s.pos), Len(marks) + 1) = r.s.pos
    <3>1. Spans(r.s.mem, out.pos, Encoding(item.kind, item.val), r.s.pos)
      BY <1>4, <1>5, <1>8
    <3> QED BY <1>2, <1>4, <1>5, <3>1, LaidMore
  <2>3. r.s.pos \in Nat
    BY <1>4 DEF Keeps, Writer
  <2>4. /\ Append(sent, item) \in Seq(Items) /\ Append(marks, r.s.pos) \in Seq(Nat)
        /\ Len(Append(sent, item)) = Len(sent) + 1 /\ Len(Append(marks, r.s.pos)) = Len(marks) + 1
    BY <1>2, <1>5, <2>3
  <2>5. CodecTypes'
    <3>1. Len(got') <= Len(sent')
      BY <1>1, <1>2, <2>1, <2>4
    <3>2. got' \in Seq(MadeItems)
      BY <1>1, <1>2
    <3> QED BY <1>1, <1>2, <1>6, <2>1, <2>4, <3>1, <3>2 DEF CodecTypes
  <2>6. CodecLaid'
    <3>1. EndOf(marks', Len(marks')) = out'.pos
      BY <1>1, <2>1, <2>2, <2>4
    <3>2. IsLaid(out', sent', marks')
      BY <1>1, <2>1, <2>2
    <3> QED BY <3>1, <3>2 DEF CodecLaid, IsLeft
  <2> QED BY <1>7, <2>5, <2>6 DEF CodecInv
<1>9. CASE ~r.ok
  <2>1. sent' = sent /\ marks' = marks /\ partial' = kind /\ kind # "none"
    <3>1. kind # "none"
      BY ValuesAssumption
    <3> QED BY <1>1, <1>9, <3>1
  <2>2. CodecTypes'
    <3>1. Len(got') <= Len(sent') /\ got' \in Seq(MadeItems)
      BY <1>1, <1>2, <2>1
    <3> QED BY <1>1, <1>2, <1>6, <2>1, <3>1 DEF CodecTypes
  <2>3. IsLaid(out', sent', marks')
    BY <1>1, <1>2, <1>4, <2>1, LaidStays
  <2>4. IsLeft(r.s, out.pos, kind)
    <3>1. CASE r.s = out
      BY <3>1 DEF IsLeft
    <3>2. CASE /\ Len(chunks) = 2
               /\ Chunk(r.s.mem, out.pos, chunks[1])
               /\ r.s.pos = out.pos + Len(chunks[1])
      <4>1. kind = "decimal" /\ val \in ValuesOf("decimal")
        BY <1>3, <3>2
      <4>2. chunks[1] = EncodeVLC(AsWord(val[2]), TRUE)
        <5>1. chunks = <<EncodeVLC(AsWord(val[2]), TRUE), EncodeVLC(AsWord(val[1]), TRUE)>>
          BY <4>1, EncodingOfDecimal
        <5> QED BY <5>1
      <4> QED BY <3>2, <4>1, <4>2 DEF IsLeft
    <3> QED BY <1>4, <1>9, <3>1, <3>2
  <2>5. CodecLaid'
    <3>1. IsLeft(out', EndOf(marks', Len(marks')), partial')
      BY <1>1, <1>2, <2>1, <2>4
    <3> QED BY <2>1, <2>3, <3>1 DEF CodecLaid
  <2> QED BY <1>7, <2>2, <2>5 DEF CodecInv
<1> QED BY <1>4, <1>8, <1>9

\* What was written arrives, up to some byte of it.
LEMMA TransmitKeeps ==
    ASSUME CodecInv, NEW n \in 0 .. out.pos, Transmit(n)
    PROVE  CodecInv'
<1>1. /\ phase = "encode" /\ phase' = "decode" /\ in' = NewBuffer(TRUE, FALSE, out.mem, n)
      /\ out' = out /\ sent' = sent /\ marks' = marks /\ partial' = partial /\ got' = got
  BY DEF Transmit
<1>2. CodecTypes /\ CodecLaid /\ got = <<>> /\ out.pos \in Nat
  BY <1>1 DEF CodecInv, CodecTypes, CodecRead, Writer
<1>3. /\ Reader(in') /\ in'.mem = out.mem /\ in'.max = n /\ in'.pos = 0
  <2> DEFINE mem == out.mem
             t == in'
  <2>1. t = [in |-> TRUE, out |-> FALSE, mem |-> mem, max |-> n, pos |-> 0, eof |-> FALSE]
    BY <1>1 DEF NewBuffer
  <2> HIDE DEF mem, t
  <2>2. t.mem = mem /\ t.max = n /\ t.pos = 0 /\ n \in Nat
    BY <1>2, <2>1
  <2>3. [in |-> TRUE, out |-> FALSE, mem |-> mem, max |-> n, pos |-> 0, eof |-> FALSE]
            \in [in : {TRUE}, out : BOOLEAN, mem : {mem}, max : Nat, pos : Nat, eof : BOOLEAN]
    BY <2>2
  <2>4. t \in [in : {TRUE}, out : BOOLEAN, mem : {t.mem}, max : Nat, pos : Nat, eof : BOOLEAN] /\ t.pos <= t.max
    BY <2>1, <2>2, <2>3
  <2>5. Reader(t)
    BY <2>4 DEF Reader
  <2> QED BY <2>2, <2>5 DEF mem, t
<1>4. CodecTypes'
  BY <1>1, <1>2, <1>3 DEF CodecTypes
<1>5. CodecLaid'
  BY <1>1, <1>2 DEF CodecLaid
<1>6. CodecRead'
  <2>1. Len(got') = 0
    BY <1>1, <1>2
  <2>2. EndOf(marks', Len(got')) = 0
    BY <2>1 DEF EndOf
  <2>3. n <= out.pos
    BY <1>2
  <2> QED BY <1>1, <1>3, <2>2, <2>3 DEF CodecRead, RefusedOnlyWhenCut
<1> QED BY <1>4, <1>5, <1>6 DEF CodecInv

\* An item that was sent is decoded as what the decoder makes of it, or was cut.
LEMMA SentIsRead ==
    ASSUME CodecInv, phase = "decode", Len(got) < Len(sent)
    PROVE  LET i == Len(got) + 1
               kind == sent[i].kind
               r == Decoding(kind, in)
           IN  /\ i \in 1 .. Len(sent) /\ Expected(i) = kind
               /\ r.ok \in BOOLEAN
               /\ r.ok => /\ r.val = Made(kind, sent[i].val)
                          /\ Reader(r.s) /\ r.s.mem = in.mem /\ r.s.max = in.max
                          /\ r.s.pos = EndOf(marks, i)
               /\ ~r.ok => /\ Reader(r.s) /\ r.s.max = in.max
                           /\ in.max < EndOf(marks, i)
<1> DEFINE i == Len(got) + 1
           item == sent[i]
           kind == item.kind
           val == item.val
           end == EndOf(marks, i)
           r == Decoding(kind, in)
           n == end - in.pos
<1>1. /\ Reader(in) /\ sent \in Seq(Items) /\ got \in Seq(MadeItems) /\ Len(marks) = Len(sent)
      /\ IsLaid(out, sent, marks) /\ in.mem = out.mem /\ in.pos = EndOf(marks, Len(got))
  BY DEF CodecInv, CodecTypes, CodecLaid, CodecRead
<1>2. Len(got) \in Nat /\ Len(sent) \in Nat
  BY <1>1
<1>3. i \in 1 .. Len(sent) /\ i - 1 = Len(got) /\ i \in 0 .. Len(sent)
  BY <1>2
<1>4. Expected(i) = kind
  BY <1>3 DEF Expected
<1>5. item \in Items
  BY <1>1, <1>3
<1>6. kind \in Kinds /\ val \in ValuesOf(kind) \union {NULL}
  BY <1>5, ItemIs
<1>7. Spans(in.mem, in.pos, Encoding(kind, val), end)
  BY <1>1, <1>3 DEF IsLaid
<1>8. end \in Nat /\ in.pos \in Nat /\ in.max \in Nat
  BY <1>1, <1>3 DEF IsLaid, Reader
<1>9. in.pos <= end
  <2>1. AreChunks(Encoding(kind, val))
    BY <1>6, EncodingIs
  <2> HIDE DEF kind, val, end
  <2> QED BY <1>7, <1>8, <2>1, SpansEnd
<1> HIDE DEF i, item, kind, val, end
<1>10. Reads(r, in, n, val = NULL, Made(kind, val))
  BY <1>1, <1>6, <1>7, ItemReads
<1>11. n \in Nat /\ in.pos + n = end
  BY <1>8, <1>9
<1> HIDE DEF r, n
<1>12. CASE end <= in.max
  <2>1. r = Answer(val = NULL, Made(kind, val), Moved(in, n))
    BY <1>10, <1>11, <1>12 DEF Reads
  <2>2. Reader(Moved(in, n)) /\ Moved(in, n).pos = end /\ Moved(in, n).max = in.max /\ Moved(in, n).mem = in.mem
    BY <1>1, <1>11, <1>12, MovedIs
  <2>3. r.ok /\ r.ok \in BOOLEAN /\ r.val = Made(kind, val) /\ r.s = Moved(in, n)
    BY <2>1 DEF Answer
  <2> QED BY <1>3, <1>4, <2>2, <2>3 DEF r, kind, val, item, end, i
<1>13. CASE ~(end <= in.max)
  <2>1. PICK t : r = Failed(t) /\ Reader(t) /\ t.max = in.max
    BY <1>10, <1>11, <1>13 DEF Reads, IsRefusal
  <2>2. ~r.ok /\ r.ok \in BOOLEAN /\ r.s = t
    BY <2>1 DEF Failed
  <2>3. in.max < end
    BY <1>8, <1>13
  <2> QED BY <1>3, <1>4, <2>1, <2>2, <2>3 DEF r, kind, val, item, end, i
<1> QED BY <1>12, <1>13

\* What did not fit is refused.
LEMMA LeftIsRefused ==
    ASSUME CodecInv, phase = "decode", Len(got) = Len(sent), partial # "none"
    PROVE  LET r == Decoding(partial, in)
           IN  ~r.ok /\ Reader(r.s) /\ r.s.max = in.max
<1> DEFINE at == EndOf(marks, Len(marks))
<1>1. /\ Reader(in) /\ Writer(out) /\ partial \in Kinds /\ in.mem = out.mem /\ in.max <= out.pos
      /\ in.pos = at /\ IsLeft(out, at, partial)
  BY DEF CodecInv, CodecTypes, CodecLaid, CodecRead
<1>2. in.pos \in Nat /\ in.max \in Nat /\ in.pos <= in.max /\ out.pos \in Nat
  BY <1>1 DEF Reader, Writer
<1> HIDE DEF at
<1>3. CASE out.pos = at
  <2>1. in.pos = in.max
    BY <1>1, <1>2, <1>3
  <2>2. IsRefusal(Decoding(partial, in), in)
    BY <1>1, <2>1, EndItemReads
  <2> QED BY <2>2 DEF IsRefusal, Failed
<1>4. CASE partial = "decimal" /\ ~(out.pos = at)
  <2>1. PICK val \in ValuesOf("decimal") :
            /\ Chunk(out.mem, at, EncodeVLC(AsWord(val[2]), TRUE))
            /\ out.pos = at + Len(EncodeVLC(AsWord(val[2]), TRUE))
    BY <1>1, <1>4 DEF IsLeft
  <2> DEFINE d == EncodeVLC(AsWord(val[2]), TRUE)
             m == Len(d)
  <2>2. AsWord(val[2]) \in 0 .. Modulus - 1 /\ AsSigned(AsWord(val[2])) = val[2]
    BY <1>1, <1>4, EncodingOfDecimal
  <2>3. d \in Seq(Nat)
    BY <2>2, EncodeIs
  <2>4. m \in Nat
    <3> HIDE DEF d
    <3> QED BY <2>3
  <2>5. Chunk(in.mem, in.pos, d)
    BY <1>1, <2>1
  <2>6. Reads(DecodeI64(in), in, m, FALSE, val[2])
    BY <1>1, <2>2, <2>5, NumberReads
  <2>7. in.max <= in.pos + m
    BY <1>1, <2>1
  <2> HIDE DEF m
  <2>8. ~DecodeDecimal(in).ok /\ Reader(DecodeDecimal(in).s) /\ DecodeDecimal(in).s.max = in.max
    BY <1>1, <2>4, <2>6, <2>7, CutDecimal
  <2>9. Decoding(partial, in) = DecodeDecimal(in)
    BY <1>4 DEF Decoding
  <2> QED BY <2>8, <2>9
<1> QED BY <1>1, <1>3, <1>4 DEF IsLeft

\* An item is decoded, or refused.
LEMMA DecodeKeeps ==
    ASSUME CodecInv, Decode
    PROVE  CodecInv'
<1> DEFINE i == Len(got) + 1
           kind == Expected(i)
           r == Decoding(kind, in)
<1>1. /\ phase = "decode" /\ kind # "none" /\ Len(got) <= Len(sent) /\ in' = r.s
      /\ IF r.ok THEN got' = Append(got, [kind |-> kind, val |-> r.val]) /\ phase' = phase
                 ELSE phase' = "refused" /\ got' = got
      /\ out' = out /\ sent' = sent /\ marks' = marks /\ partial' = partial
  BY DEF Decode
<1>2. CodecTypes /\ CodecLaid /\ in.mem = out.mem /\ in.max <= out.pos
  BY <1>1 DEF CodecInv, CodecRead
<1>3. /\ partial \in Kinds \union {"none"} /\ Writer(out) /\ out.max = Capacity /\ sent \in Seq(Items)
      /\ marks \in Seq(Nat) /\ Len(marks) = Len(sent) /\ got \in Seq(MadeItems)
  BY <1>2 DEF CodecTypes
<1>4. Len(got) \in Nat /\ Len(sent) \in Nat
  BY <1>3
<1>5. CodecLaid'
  BY <1>1, <1>2 DEF CodecLaid
<1>6. CASE Len(got) < Len(sent)
  <2> DEFINE item == sent[i]
  <2>1. /\ i \in 1 .. Len(sent) /\ kind = item.kind
        /\ r.ok \in BOOLEAN
        /\ r.ok => /\ r.val = Made(kind, item.val)
                   /\ Reader(r.s) /\ r.s.mem = in.mem /\ r.s.max = in.max
                   /\ r.s.pos = EndOf(marks, i)
        /\ ~r.ok => /\ Reader(r.s) /\ r.s.max = in.max
                    /\ in.max < EndOf(marks, i)
    BY <1>1, <1>6, SentIsRead
  <2>2. item \in Items
    BY <1>3, <2>1
  <2>3. [kind |-> kind, val |-> Made(kind, item.val)] \in MadeItems
    <3>1. item.kind \in Kinds /\ item.val \in ValuesOf(item.kind) \union {NULL}
      BY <2>2, ItemIs
    <3> QED BY <2>1, <3>1, ItemOf
  <2> HIDE DEF kind, r, item
  <2>4. CASE r.ok
    <3>1. got' = Append(got, [kind |-> kind, val |-> Made(kind, item.val)]) /\ phase' = "decode"
      BY <1>1, <2>1, <2>4
    <3>2. got' \in Seq(MadeItems) /\ Len(got') = i
      BY <1>3, <2>3, <3>1
    <3> HIDE DEF i
    <3>3. i <= Len(sent)
      BY <1>4, <2>1
    <3>4. CodecTypes'
      BY <1>1, <1>3, <2>1, <2>4, <3>1, <3>2, <3>3 DEF CodecTypes
    <3>5. CodecRead'
      BY <1>1, <1>2, <2>1, <2>4, <3>1, <3>2 DEF CodecRead, RefusedOnlyWhenCut
    <3> QED BY <1>5, <3>4, <3>5 DEF CodecInv
  <2>5. CASE ~r.ok
    <3>1. got' = got /\ phase' = "refused"
      BY <1>1, <2>5
    <3>2. CodecTypes'
      BY <1>1, <1>3, <2>1, <2>5, <3>1 DEF CodecTypes
    <3>3. RefusedOnlyWhenCut'
      <4>1. in'.max < EndOf(marks', Len(got') + 1)
        BY <1>1, <2>1, <2>5, <3>1
      <4> QED BY <4>1 DEF RefusedOnlyWhenCut, End, EndOf
    <3>4. CodecRead'
      BY <3>1, <3>3 DEF CodecRead
    <3> QED BY <1>5, <3>2, <3>4 DEF CodecInv
  <2> QED BY <2>1, <2>4, <2>5
<1>7. CASE Len(got) = Len(sent)
  <2>1. kind = partial
    <3>1. ~(i <= Len(sent))
      BY <1>4, <1>7
    <3> QED BY <3>1 DEF Expected
  <2>2. ~r.ok /\ Reader(r.s) /\ r.s.max = in.max
    BY <1>1, <1>7, <2>1, LeftIsRefused
  <2> HIDE DEF kind, r
  <2>3. got' = got /\ phase' = "refused"
    BY <1>1, <2>2
  <2>4. CodecTypes'
    BY <1>1, <1>3, <2>2, <2>3 DEF CodecTypes
  <2>5. CodecRead'
    BY <1>1, <1>7, <2>3 DEF CodecRead, RefusedOnlyWhenCut
  <2> QED BY <1>5, <2>4, <2>5 DEF CodecInv
<1> QED BY <1>1, <1>4, <1>6, <1>7

\* Every step keeps the invariant.
LEMMA CodecNext == CodecInv /\ [Next]_vars => CodecInv'
<1> SUFFICES ASSUME CodecInv, [Next]_vars PROVE CodecInv'
  OBVIOUS
<1>1. ASSUME NEW kind \in Kinds, NEW val \in ValuesOf(kind) \union {NULL}, Encode(kind, val)
      PROVE  CodecInv'
  BY <1>1, EncodeKeeps
<1>2. ASSUME NEW n \in 0 .. out.pos, Transmit(n) PROVE CodecInv'
  BY <1>2, TransmitKeeps
<1>3. CASE Decode
  BY <1>3, DecodeKeeps
<1>4. CASE UNCHANGED vars
  BY <1>4 DEF vars, CodecInv, CodecTypes, CodecLaid, CodecRead, RefusedOnlyWhenCut, End
<1> QED BY <1>1, <1>2, <1>3, <1>4 DEF Next

\* The buffer holds the items sent, each where its mark says, and the decoder stands where one
\* of them ends, for buffers of any size and values of any types.
THEOREM CodecInvariance == Spec => []CodecInv
BY CodecInit, CodecNext, PTL DEF Spec

\* The encoders and the decoders of blink_compact.c stay in step: after any number of items,
\* of whatever types and lengths, the decoder stands where the encoder stood.
THEOREM CodecInStep == Spec => []InStep
<1>1. CodecInv => InStep
  BY DEF CodecInv, CodecRead, InStep, End, EndOf
<1> QED BY <1>1, CodecInvariance, PTL

\* They refuse an item only when not all of its bytes arrived.
THEOREM CodecRefusesOnlyCut == Spec => []RefusedOnlyWhenCut
<1>1. CodecInv => RefusedOnlyWhenCut
  BY DEF CodecInv, CodecRead
<1> QED BY <1>1, CodecInvariance, PTL

\* The doubles whose number is that of their bits.
OnlyZeroDoubles == \A val \in ValuesOf("f64") : val = DoubleOfBits(0)

\* The decoder makes of every item the item itself.
LEMMA MadeIsSame ==
    ASSUME "f64" \in Kinds => OnlyZeroDoubles, NEW x \in Items
    PROVE  Made(x.kind, x.val) = x.val
<1>1. x.kind \in Kinds /\ x.val \in ValuesOf(x.kind) \union {NULL}
  BY ItemIs
<1>2. DoubleOfNumber(0) = DoubleOfBits(0) /\ DoubleOfBits(0).of = 0
  BY DEF DoubleOfNumber, DoubleOfBits
<1>3. CASE x.kind = "f64" /\ x.val # NULL
  <2>1. x.val = DoubleOfBits(0)
    BY <1>1, <1>3 DEF OnlyZeroDoubles
  <2> QED BY <1>2, <1>3, <2>1 DEF Made
<1>4. CASE ~(x.kind = "f64" /\ x.val # NULL)
  BY <1>4 DEF Made
<1> QED BY <1>3, <1>4

\* Every step of the encoder and the decoder is one of the channel, or none.
LEMMA CodecStep ==
    ASSUME "f64" \in Kinds => OnlyZeroDoubles, CodecInv, [Next]_vars
    PROVE  [ItemChannel!Put \/ ItemChannel!Get]_ItemChannel!vars
<1>1. /\ sent \in Seq(Items) /\ got \in Seq(MadeItems) /\ Len(got) <= Len(sent)
  BY DEF CodecInv, CodecTypes
<1>2. ASSUME NEW kind \in Kinds, NEW val \in ValuesOf(kind) \union {NULL}, Encode(kind, val)
      PROVE  ItemChannel!Put \/ (sent' = sent /\ got' = got)
  <2> DEFINE item == [kind |-> kind, val |-> val]
  <2>1. (sent' = Append(sent, item) \/ sent' = sent) /\ got' = got
    BY <1>2 DEF Encode
  <2>2. CASE sent' = Append(sent, item)
    <3>1. IsItem(item)
      BY DEF IsItem
    <3> HIDE DEF item
    <3>2. Len(sent') = Len(sent) + 1 /\ sent'[Len(sent')] = item
      BY <1>1, <2>2
    <3>3. SubSeq(sent', 1, Len(sent)) = sent
      BY <1>1, <2>2
    <3> QED BY <2>1, <3>1, <3>2, <3>3 DEF ItemChannel!Put
  <2> QED BY <2>1, <2>2
<1>3. ASSUME NEW n \in 0 .. out.pos, Transmit(n)
      PROVE  sent' = sent /\ got' = got
  BY <1>3 DEF Transmit
<1>4. ASSUME Decode PROVE ItemChannel!Get \/ (sent' = sent /\ got' = got)
  <2> DEFINE i == Len(got) + 1
             kind == Expected(i)
             r == Decoding(kind, in)
  <2>1. /\ phase = "decode" /\ kind # "none" /\ Len(got) <= Len(sent) /\ sent' = sent
        /\ IF r.ok THEN got' = Append(got, [kind |-> kind, val |-> r.val]) ELSE got' = got
    BY <1>4 DEF Decode
  <2>2. ASSUME Len(got) < Len(sent), r.ok PROVE ItemChannel!Get
    <3> DEFINE item == sent[i]
    <3>1. i \in 1 .. Len(sent) /\ kind = item.kind /\ r.val = Made(kind, item.val)
      BY <2>1, <2>2, SentIsRead
    <3>2. item \in Items
      BY <1>1, <3>1
    <3>3. Made(item.kind, item.val) = item.val /\ item = [kind |-> item.kind, val |-> item.val]
      BY <3>2, MadeIsSame, ItemIs
    <3> HIDE DEF kind, r, item
    <3>4. got' = Append(got, item)
      BY <2>1, <2>2, <3>1, <3>3
    <3>5. got' = Append(got, sent[Len(got) + 1]) /\ sent' = sent
      BY <2>1, <3>4 DEF item
    <3> QED BY <2>2, <3>5 DEF ItemChannel!Get
  <2>3. ASSUME Len(got) = Len(sent) PROVE ~r.ok
    <3>1. kind = partial
      <4>1. ~(i <= Len(sent))
        BY <1>1, <2>3
      <4> QED BY <4>1 DEF Expected
    <3> QED BY <2>1, <2>3, <3>1, LeftIsRefused
  <2>4. sent' = sent /\ (~r.ok => got' = got)
    BY <2>1
  <2>5. Len(got) < Len(sent) \/ Len(got) = Len(sent)
    BY <1>1, <2>1
  <2> HIDE DEF r, kind, i
  <2> QED BY <2>2, <2>3, <2>4, <2>5
<1>5. ASSUME UNCHANGED vars PROVE sent' = sent /\ got' = got
  BY <1>5 DEF vars
<1>6. ItemChannel!Put \/ ItemChannel!Get \/ (sent' = sent /\ got' = got)
  BY <1>2, <1>3, <1>4, <1>5 DEF Next
<1> QED BY <1>6 DEF ItemChannel!vars

\* What arrives is a prefix of what was sent, item by item and unchanged, even from a message
\* cut short or one whose last value did not fit: the encoders and the decoders implement a
\* channel, if the only double is zero.
THEOREM CodecIsChannel ==
    ASSUME "f64" \in Kinds => OnlyZeroDoubles
    PROVE  Spec => IsChannel
<1>1. Init => ItemChannel!Init
  BY DEF Init, ItemChannel!Init
<1>2. CodecInv /\ [Next]_vars => [ItemChannel!Put \/ ItemChannel!Get]_ItemChannel!vars
  BY CodecStep
<1> QED BY <1>1, <1>2, CodecInvariance, PTL DEF Spec, IsChannel, ItemChannel!Spec
=============================================================================
