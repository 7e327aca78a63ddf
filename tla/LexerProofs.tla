---------------------------- MODULE LexerProofs ----------------------------
(***************************************************************************)
(* Proofs about the lexer, for every text, every buffer and every table of *)
(* marks and keywords that LexerAssumption admits.                         *)
(***************************************************************************)
EXTENDS Lexer, FiniteSetTheorems, FunctionTheorems, WellFoundedInduction, TLAPS

-----------------------------------------------------------------------------
\* Characters.

\* A set of natural numbers has a least one.
LEMMA LeastOf ==
    ASSUME NEW S \in SUBSET Nat, S # {}
    PROVE  \E k \in S : \A l \in S : k <= l
<1> DEFINE R == OpToRel(<, Nat)
<1>1. PICK k \in S : \A l \in S : ~(<<l, k>> \in R)
  <2>1. IsWellFoundedOn(R, Nat)
    BY NatLessThanWellFounded
  <2> HIDE DEF R
  <2> QED BY <2>1, WFMin
<1>2. ASSUME NEW l \in S, ~(k <= l) PROVE FALSE
  <2>1. l \in Nat /\ k \in Nat /\ l < k
    BY <1>2
  <2>2. <<l, k>> \in R
    BY <2>1 DEF OpToRel
  <2> QED BY <1>1, <2>2
<1> QED BY <1>2

\* The digits, written out.
LEMMA DigitsAre ==
    /\ Digits = {"0", "1", "2", "3", "4", "5", "6", "7", "8", "9"}
    /\ HexChars = Digits \union {"a", "b", "c", "d", "e", "f"}
<1>1. 1 .. 10 = {1, 2, 3, 4, 5, 6, 7, 8, 9, 10}
  OBVIOUS
<1>2. 1 .. 16 = (1 .. 10) \union {11, 12, 13, 14, 15, 16}
  OBVIOUS
<1>3. Digits = {HexOrder[k] : k \in {1, 2, 3, 4, 5, 6, 7, 8, 9, 10}}
  BY <1>1 DEF Digits
<1>4. Digits = {"0", "1", "2", "3", "4", "5", "6", "7", "8", "9"}
  BY <1>3 DEF HexOrder
<1>5. HexChars = {HexOrder[k] : k \in (1 .. 10) \union {11, 12, 13, 14, 15, 16}}
  BY <1>2 DEF HexChars
<1>6. HexChars = Digits \union {HexOrder[k] : k \in {11, 12, 13, 14, 15, 16}}
  BY <1>5 DEF Digits
<1>7. {HexOrder[k] : k \in {11, 12, 13, 14, 15, 16}} = {"a", "b", "c", "d", "e", "f"}
  BY DEF HexOrder
<1> QED BY <1>4, <1>6, <1>7

\* A text, and the characters in it.
LEMMA TextIs ==
    ASSUME text \in Texts
    PROVE  /\ text \in Seq(STRING \ {"end"}) /\ Len(text) \in Nat /\ DOMAIN text = 1 .. Len(text)
           /\ \A p \in 0 .. Len(text) - 1 : At(p) = text[p + 1] /\ At(p) \in Chars
           /\ \A p \in Nat : p >= Len(text) => At(p) = "end"
           /\ "end" \notin Chars
<1>1. text \in Seq(STRING \ {"end"})
  BY LexerAssumption DEF LexerAssumption
<1>2. Len(text) \in Nat /\ DOMAIN text = 1 .. Len(text)
  BY <1>1
<1>3. \A k \in 1 .. Len(text) : text[k] # "end"
  BY <1>1
<1> QED BY <1>1, <1>2, <1>3 DEF At, Chars

\* None of the sets of characters that runs are made of has the end of the text in it.
LEMMA NoRunHasTheEnd ==
    /\ "end" \notin NameChars /\ "end" \notin Separators /\ "end" \notin Digits /\ "end" \notin HexChars
    /\ \A chars : text \in Texts => "end" \notin Chars \ chars
<1>1. "end" \notin Letters
  BY LexerAssumption DEF LexerAssumption
<1>2. "end" \notin Digits /\ "end" \notin HexChars
  BY DigitsAre
<1>3. text \in Texts => "end" \notin Chars
  BY TextIs
<1> QED BY <1>1, <1>2, <1>3 DEF NameChars, Separators

\* The n characters from p on are all of a set.
RunAt(p, n, chars) == \A r \in p .. p + n - 1 : At(r) \in chars

\* What RunEnd finds is where the run ends, and it is the longest.
LEMMA RunEndIs ==
    ASSUME text \in Texts, NEW p \in 0 .. Len(text), NEW chars, "end" \notin chars
    PROVE  /\ RunEnd(p, chars) \in p .. Len(text)
           /\ At(RunEnd(p, chars)) \notin chars
           /\ RunAt(p, RunEnd(p, chars) - p, chars)
           /\ \A n \in Nat : RunAt(p, n, chars) => p + n <= RunEnd(p, chars)
<1> DEFINE S == {q \in p .. Len(text) : At(q) \notin chars}
           Ends1(q) == At(q) \notin chars /\ \A r \in p .. q - 1 : At(r) \in chars
<1>1. Len(text) \in Nat /\ At(Len(text)) = "end"
  BY TextIs
<1>2. S \in SUBSET Nat /\ Len(text) \in S
  BY <1>1
<1>3. PICK q \in S : \A r \in S : q <= r
  <2> HIDE DEF S
  <2> QED BY <1>2, LeastOf
<1>4. q \in p .. Len(text) /\ Ends1(q)
  <2>1. ASSUME NEW r \in p .. q - 1 PROVE At(r) \in chars
    <3>1. r \in p .. Len(text) /\ ~(q <= r)
      BY <1>1, <1>3
    <3> QED BY <1>3, <3>1
  <2> QED BY <1>3, <2>1
<1>5. RunEnd(p, chars) = CHOOSE x \in p .. Len(text) : Ends1(x)
  BY DEF RunEnd
<1> HIDE DEF S
<1>6. RunEnd(p, chars) \in p .. Len(text) /\ Ends1(RunEnd(p, chars))
  <2> HIDE DEF Ends1
  <2> QED BY <1>4, <1>5
<1>7. RunAt(p, RunEnd(p, chars) - p, chars)
  BY <1>1, <1>6 DEF RunAt
<1>8. ASSUME NEW n \in Nat, RunAt(p, n, chars), ~(p + n <= RunEnd(p, chars)) PROVE FALSE
  <2>1. RunEnd(p, chars) \in p .. p + n - 1
    BY <1>1, <1>6, <1>8
  <2> QED BY <1>6, <1>8, <2>1 DEF RunAt
<1> QED BY <1>6, <1>7, <1>8

-----------------------------------------------------------------------------
\* What the tokens are, by position: the n characters from p on are of a kind.

QuoteChars == {"\"", "'"}
NameAt(p, n) == n >= 1 /\ At(p) \in FirstNameChars /\ RunAt(p, n, NameChars)
EscapedAt(p, n) == n >= 2 /\ At(p) = "\\" /\ NameAt(p + 1, n - 1)
CNameAt(p, n) ==
    \E k \in 2 .. n - 1 :
        At(p + k - 1) = ":" /\ NameAt(p, k - 1) /\ RunAt(p + k, n - k, NameChars)
WordAt(p, n) == \E k \in DOMAIN TokenTable : n = Len(TokenTable[k]) /\ BeginsWith(p, TokenTable[k])
LiteralAt(p, n) ==
    /\ n >= 2
    /\ At(p) \in QuoteChars
    /\ At(p + n - 1) = At(p)
    /\ RunAt(p + 1, n - 2, Chars \ {At(p), "\n"})
HexAt(p, n) == n > 2 /\ At(p) = "0" /\ At(p + 1) = "x" /\ RunAt(p + 2, n - 2, HexChars)
UIntAt(p, n) == RunAt(p, n, Digits) \/ HexAt(p, n)
IntAt(p, n) == n > 1 /\ At(p) = "-" /\ RunAt(p + 1, n - 1, Digits)

FitsAt(kind, p, n) ==
    \/ kind = "name" /\ (NameAt(p, n) \/ EscapedAt(p, n))
    \/ kind = "cname" /\ CNameAt(p, n)
    \/ kind = "word" /\ WordAt(p, n)
    \/ kind = "literal" /\ LiteralAt(p, n)
    \/ kind = "uint" /\ UIntAt(p, n)
    \/ kind = "int" /\ IntAt(p, n)

\* A stretch of a text from p on that has n characters.
Within(p, n) == p \in 0 .. Len(text) /\ n \in 1 .. Len(text) - p

\* The characters of a piece are those of the text.
LEMMA PieceIs ==
    ASSUME text \in Texts, NEW p \in 0 .. Len(text), NEW n \in 0 .. Len(text) - p
    PROVE  /\ Piece(p, n) \in Seq(STRING \ {"end"}) /\ Len(Piece(p, n)) = n
           /\ DOMAIN Piece(p, n) = 1 .. n
           /\ \A k \in 1 .. n : Piece(p, n)[k] = At(p + k - 1)
<1>1. text \in Seq(STRING \ {"end"}) /\ Len(text) \in Nat
  BY TextIs
<1>2. p + 1 \in 1 .. Len(text) + 1 /\ p + n \in p .. Len(text) /\ p \in Nat /\ n \in Nat
  BY <1>1
<1>3. Piece(p, n) \in Seq(STRING \ {"end"})
  BY <1>1, <1>2 DEF Piece
<1>4. Len(Piece(p, n)) = n
  BY <1>1, <1>2 DEF Piece
<1>5. ASSUME NEW k \in 1 .. n PROVE Piece(p, n)[k] = At(p + k - 1)
  <2>1. Piece(p, n)[k] = text[p + k]
    BY <1>1, <1>2 DEF Piece
  <2>2. p + k - 1 \in 0 .. Len(text) - 1 /\ p + k - 1 + 1 = p + k
    BY <1>1, <1>2
  <2> QED BY <2>1, <2>2, TextIs
<1> QED BY <1>3, <1>4, <1>5

\* A part of a piece is a piece.
LEMMA PartIs ==
    ASSUME text \in Texts, NEW p \in 0 .. Len(text), NEW n \in 0 .. Len(text) - p,
           NEW a \in 1 .. n + 1, NEW c \in a - 1 .. n
    PROVE  SubSeq(Piece(p, n), a, c) = Piece(p + a - 1, c - a + 1)
<1> DEFINE s == Piece(p, n)
           t == SubSeq(s, a, c)
           u == Piece(p + a - 1, c - a + 1)
<1>1. Len(text) \in Nat
  BY TextIs
<1>2. s \in Seq(STRING \ {"end"}) /\ Len(s) = n /\ \A k \in 1 .. n : s[k] = At(p + k - 1)
  BY PieceIs
<1>3. p + a - 1 \in 0 .. Len(text) /\ c - a + 1 \in 0 .. Len(text) - (p + a - 1)
  BY <1>1
<1>4. /\ u \in Seq(STRING \ {"end"}) /\ Len(u) = c - a + 1
      /\ \A k \in 1 .. c - a + 1 : u[k] = At(p + a - 1 + k - 1)
  BY <1>3, PieceIs
<1> HIDE DEF s, u
<1>5. t \in Seq(STRING \ {"end"}) /\ Len(t) = c - a + 1 /\ \A k \in 1 .. c - a + 1 : t[k] = s[a + k - 1]
  BY <1>1, <1>2
<1>6. \A k \in 1 .. c - a + 1 : t[k] = u[k]
  <2> SUFFICES ASSUME NEW k \in 1 .. c - a + 1 PROVE t[k] = u[k]
    OBVIOUS
  <2>1. a + k - 1 \in 1 .. n /\ p + (a + k - 1) - 1 = p + a - 1 + k - 1
    BY <1>1
  <2> HIDE DEF t
  <2> QED BY <1>2, <1>4, <1>5, <2>1
<1>7. t = u
  <2> HIDE DEF t
  <2> QED BY <1>1, <1>4, <1>5, <1>6
<1> QED BY <1>7 DEF s, t, u

\* A piece is all of a set when the text is.
LEMMA AllIs ==
    ASSUME text \in Texts, NEW p \in 0 .. Len(text), NEW n \in 0 .. Len(text) - p, NEW chars
    PROVE  All(Piece(p, n), chars) <=> RunAt(p, n, chars)
<1>1. DOMAIN Piece(p, n) = 1 .. n /\ \A k \in 1 .. n : Piece(p, n)[k] = At(p + k - 1)
  BY PieceIs
<1>2. Len(text) \in Nat
  BY TextIs
<1>3. ASSUME All(Piece(p, n), chars), NEW r \in p .. p + n - 1 PROVE At(r) \in chars
  <2>1. r - p + 1 \in 1 .. n /\ p + (r - p + 1) - 1 = r
    BY <1>2
  <2> QED BY <1>1, <1>3, <2>1 DEF All
<1>4. ASSUME RunAt(p, n, chars), NEW k \in 1 .. n PROVE Piece(p, n)[k] \in chars
  <2>1. p + k - 1 \in p .. p + n - 1
    BY <1>2
  <2> QED BY <1>1, <1>4, <2>1 DEF RunAt
<1> QED BY <1>1, <1>3, <1>4 DEF All, RunAt

\* A name is one by position.
LEMMA PlainNameIs ==
    ASSUME text \in Texts, NEW p \in 0 .. Len(text), NEW n \in 0 .. Len(text) - p
    PROVE  PlainName(Piece(p, n)) <=> NameAt(p, n)
<1>1. /\ Piece(p, n) \in Seq(STRING \ {"end"}) /\ Len(Piece(p, n)) = n
      /\ \A k \in 1 .. n : Piece(p, n)[k] = At(p + k - 1)
  BY PieceIs
<1>2. All(Piece(p, n), NameChars) <=> RunAt(p, n, NameChars)
  BY AllIs
<1>3. Len(text) \in Nat /\ p \in Nat /\ n \in Nat
  BY TextIs
<1>4. Piece(p, n) # <<>> <=> n >= 1
  BY <1>1, <1>3
<1>5. n >= 1 => Piece(p, n)[1] = At(p)
  BY <1>1, <1>3
<1> QED BY <1>2, <1>4, <1>5 DEF PlainName, NameAt

\* A piece without its first k characters.
LEMMA RestIs ==
    ASSUME text \in Texts, NEW p \in 0 .. Len(text), NEW n \in 0 .. Len(text) - p, NEW k \in 0 .. n
    PROVE  Beyond(Piece(p, n), k) = Piece(p + k, n - k) /\ Len(Beyond(Piece(p, n), k)) = n - k
<1>1. Len(text) \in Nat /\ Len(Piece(p, n)) = n
  BY TextIs, PieceIs
<1>2. k + 1 \in 1 .. n + 1 /\ n \in k + 1 - 1 .. n /\ p + (k + 1) - 1 = p + k /\ n - (k + 1) + 1 = n - k
  BY <1>1
<1>3. SubSeq(Piece(p, n), k + 1, n) = Piece(p + (k + 1) - 1, n - (k + 1) + 1)
  <2> DEFINE a == k + 1
  <2>1. a \in 1 .. n + 1 /\ n \in a - 1 .. n
    BY <1>2
  <2> HIDE DEF a
  <2>2. SubSeq(Piece(p, n), a, n) = Piece(p + a - 1, n - a + 1)
    BY <2>1, PartIs
  <2> QED BY <2>2 DEF a
<1>4. Beyond(Piece(p, n), k) = Piece(p + k, n - k)
  BY <1>1, <1>2, <1>3 DEF Beyond
<1>5. p + k \in 0 .. Len(text) /\ n - k \in 0 .. Len(text) - (p + k)
  BY <1>1
<1> QED BY <1>4, <1>5, PieceIs

\* A name, with its escape or without, is one by position.
LEMMA NameIs ==
    ASSUME text \in Texts, NEW p, NEW n, Within(p, n)
    PROVE  Fits("name", Piece(p, n)) <=> NameAt(p, n) \/ EscapedAt(p, n)
<1> DEFINE s == Piece(p, n)
<1>1. Len(text) \in Nat /\ p \in 0 .. Len(text) /\ n \in 0 .. Len(text) - p /\ n >= 1
  BY TextIs DEF Within
<1>2. s[1] = At(p) /\ Len(s) = n /\ s # <<>>
  BY <1>1, PieceIs
<1>3. PlainName(s) <=> NameAt(p, n)
  BY <1>1, PlainNameIs
<1>4. Beyond(s, 1) = Piece(p + 1, n - 1)
  BY <1>1, RestIs
<1>5. PlainName(Beyond(s, 1)) <=> NameAt(p + 1, n - 1)
  <2>1. p + 1 \in 0 .. Len(text) /\ n - 1 \in 0 .. Len(text) - (p + 1)
    BY <1>1
  <2> QED BY <1>4, <2>1, PlainNameIs
<1>6. NameAt(p + 1, n - 1) => n >= 2
  BY <1>1 DEF NameAt
<1> HIDE DEF s
<1>7. Fits("name", s) <=> PlainName(s) \/ (s # <<>> /\ s[1] = "\\" /\ PlainName(Beyond(s, 1)))
  BY DEF Fits
<1>8. Fits("name", s) <=> NameAt(p, n) \/ EscapedAt(p, n)
  BY <1>2, <1>3, <1>5, <1>6, <1>7 DEF EscapedAt
<1> QED BY <1>8 DEF s

\* A name of two parts is one by position, whichever colon parts it.
LEMMA CNameIs ==
    ASSUME text \in Texts, NEW p, NEW n, Within(p, n)
    PROVE  Fits("cname", Piece(p, n)) <=> CNameAt(p, n)
<1> DEFINE s == Piece(p, n)
<1>1. Len(text) \in Nat /\ p \in 0 .. Len(text) /\ n \in 0 .. Len(text) - p /\ n >= 1
  BY TextIs DEF Within
<1>2. Len(s) = n /\ \A k \in 1 .. n : s[k] = At(p + k - 1)
  BY <1>1, PieceIs
<1>3. ASSUME NEW k \in 2 .. n - 1
      PROVE  /\ s[k] = At(p + k - 1)
             /\ PlainName(SubSeq(s, 1, k - 1)) <=> NameAt(p, k - 1)
             /\ All(Beyond(s, k), NameChars) <=> RunAt(p + k, n - k, NameChars)
  <2>1. /\ k \in 1 .. n /\ k - 1 \in 1 - 1 .. n /\ p + 1 - 1 = p /\ k - 1 - 1 + 1 = k - 1 /\ k \in 0 .. n
        /\ k - 1 \in 0 .. Len(text) - p /\ p + k \in 0 .. Len(text) /\ n - k \in 0 .. Len(text) - (p + k)
        /\ 1 \in 1 .. n + 1
    BY <1>1
  <2>2. SubSeq(s, 1, k - 1) = Piece(p + 1 - 1, k - 1 - 1 + 1)
    BY <1>1, <2>1, PartIs
  <2>3. SubSeq(s, 1, k - 1) = Piece(p, k - 1)
    BY <2>1, <2>2
  <2>4. PlainName(Piece(p, k - 1)) <=> NameAt(p, k - 1)
    BY <1>1, <2>1, PlainNameIs
  <2>5. Beyond(s, k) = Piece(p + k, n - k)
    BY <1>1, <2>1, RestIs
  <2>6. All(Piece(p + k, n - k), NameChars) <=> RunAt(p + k, n - k, NameChars)
    BY <2>1, AllIs
  <2> HIDE DEF s
  <2> QED BY <1>2, <2>1, <2>3, <2>4, <2>5, <2>6
<1> HIDE DEF s
<1>4. Fits("cname", s) <=>
        \E k \in 2 .. Len(s) - 1 :
            s[k] = ":" /\ PlainName(SubSeq(s, 1, k - 1)) /\ All(Beyond(s, k), NameChars)
  BY DEF Fits
<1>5. Fits("cname", s) <=>
        \E k \in 2 .. n - 1 :
            At(p + k - 1) = ":" /\ NameAt(p, k - 1) /\ RunAt(p + k, n - k, NameChars)
  BY <1>2, <1>3, <1>4
<1> QED BY <1>5 DEF CNameAt, s

\* A word of the table is one by position.
LEMMA WordIs ==
    ASSUME text \in Texts, NEW p, NEW n, Within(p, n)
    PROVE  Fits("word", Piece(p, n)) <=> WordAt(p, n)
<1> DEFINE s == Piece(p, n)
<1>1. Len(text) \in Nat /\ p \in 0 .. Len(text) /\ n \in 0 .. Len(text) - p /\ n >= 1
  BY TextIs DEF Within
<1>2. Len(s) = n
  BY <1>1, PieceIs
<1>3. s = SubSeq(text, p + 1, p + n)
  BY DEF Piece
<1> HIDE DEF s
<1>4. Fits("word", s) <=> \E k \in DOMAIN TokenTable : s = TokenTable[k]
  BY DEF Fits
<1>5. BeginsWith(p, s)
  <2>1. p + n <= Len(text)
    BY <1>1
  <2> QED BY <1>2, <1>3, <2>1 DEF BeginsWith
<1>6. ASSUME NEW word, n = Len(word), BeginsWith(p, word) PROVE s = word
  BY <1>3, <1>6 DEF BeginsWith
<1>7. Fits("word", s) <=> WordAt(p, n)
  BY <1>2, <1>4, <1>5, <1>6 DEF WordAt
<1> QED BY <1>7 DEF s

\* A literal is one by position.
LEMMA LiteralIs ==
    ASSUME text \in Texts, NEW p, NEW n, Within(p, n)
    PROVE  Fits("literal", Piece(p, n)) <=> LiteralAt(p, n)
<1> DEFINE s == Piece(p, n)
           c == Chars \ {At(p), "\n"}
<1>1. Len(text) \in Nat /\ p \in 0 .. Len(text) /\ n \in 0 .. Len(text) - p /\ n >= 1
  BY TextIs DEF Within
<1>2. Len(s) = n /\ s[1] = At(p) /\ s[n] = At(p + n - 1)
  <2>1. Len(s) = n /\ \A k \in 1 .. n : s[k] = At(p + k - 1)
    BY <1>1, PieceIs
  <2>2. 1 \in 1 .. n /\ n \in 1 .. n /\ p + 1 - 1 = p
    BY <1>1
  <2> HIDE DEF s
  <2> QED BY <2>1, <2>2
<1>3. n >= 2 => (All(SubSeq(s, 2, n - 1), c) <=> RunAt(p + 1, n - 2, c))
  <2> SUFFICES ASSUME n >= 2 PROVE All(SubSeq(s, 2, n - 1), c) <=> RunAt(p + 1, n - 2, c)
    OBVIOUS
  <2>1. /\ 2 \in 1 .. n + 1 /\ n - 1 \in 2 - 1 .. n /\ p + 2 - 1 = p + 1 /\ n - 1 - 2 + 1 = n - 2
        /\ p + 1 \in 0 .. Len(text) /\ n - 2 \in 0 .. Len(text) - (p + 1)
    BY <1>1
  <2>2. SubSeq(s, 2, n - 1) = Piece(p + 2 - 1, n - 1 - 2 + 1)
    BY <1>1, <2>1, PartIs
  <2>3. All(Piece(p + 1, n - 2), c) <=> RunAt(p + 1, n - 2, c)
    <3> HIDE DEF c
    <3> QED BY <2>1, AllIs
  <2> QED BY <2>1, <2>2, <2>3
<1> HIDE DEF s
<1>4. Fits("literal", s) <=>
        /\ Len(s) >= 2
        /\ s[1] \in QuoteChars
        /\ s[Len(s)] = s[1]
        /\ All(SubSeq(s, 2, Len(s) - 1), Chars \ {s[1], "\n"})
  BY DEF Fits, QuoteChars
<1>5. Fits("literal", s) <=> LiteralAt(p, n)
  BY <1>2, <1>3, <1>4 DEF LiteralAt
<1> QED BY <1>5 DEF s

\* An unsigned number, decimal or hexadecimal, is one by position.
LEMMA UIntIs ==
    ASSUME text \in Texts, NEW p, NEW n, Within(p, n)
    PROVE  Fits("uint", Piece(p, n)) <=> UIntAt(p, n)
<1> DEFINE s == Piece(p, n)
<1>1. Len(text) \in Nat /\ p \in 0 .. Len(text) /\ n \in 0 .. Len(text) - p /\ n >= 1
  BY TextIs DEF Within
<1>2. s \in Seq(STRING \ {"end"}) /\ Len(s) = n /\ s # <<>> /\ \A k \in 1 .. n : s[k] = At(p + k - 1)
  BY <1>1, PieceIs
<1>3. All(s, Digits) <=> RunAt(p, n, Digits)
  BY <1>1, AllIs
<1>4. n > 2 => (All(Beyond(s, 2), HexChars) <=> RunAt(p + 2, n - 2, HexChars))
  <2> SUFFICES ASSUME n > 2 PROVE All(Beyond(s, 2), HexChars) <=> RunAt(p + 2, n - 2, HexChars)
    OBVIOUS
  <2>1. p + 2 \in 0 .. Len(text) /\ n - 2 \in 0 .. Len(text) - (p + 2) /\ 2 \in 0 .. n
    BY <1>1
  <2>2. Beyond(s, 2) = Piece(p + 2, n - 2)
    BY <1>1, <2>1, RestIs
  <2> QED BY <2>1, <2>2, AllIs
<1> HIDE DEF s
<1>5. n > 2 => (SubSeq(s, 1, 2) = <<"0", "x">> <=> At(p) = "0" /\ At(p + 1) = "x")
  <2> SUFFICES ASSUME n > 2 PROVE SubSeq(s, 1, 2) = <<"0", "x">> <=> At(p) = "0" /\ At(p + 1) = "x"
    OBVIOUS
  <2>1. s[1] = At(p) /\ s[2] = At(p + 1)
    BY <1>1, <1>2
  <2>2. SubSeq(s, 1, 2) = <<s[1], s[2]>>
    <3> DEFINE t == SubSeq(s, 1, 2)
               S == STRING \ {"end"}
    <3>1. s \in Seq(S) /\ Len(s) = n /\ n \in Nat /\ n > 2
      BY <1>1, <1>2
    <3> HIDE DEF S
    <3>2. t \in Seq(S) /\ Len(t) = 2 /\ t[1] = s[1] /\ t[2] = s[2]
      BY <3>1
    <3> HIDE DEF t
    <3>3. t = <<t[1], t[2]>>
      BY <3>2
    <3> QED BY <3>2, <3>3 DEF t
  <2> QED BY <2>1, <2>2
<1>6. Fits("uint", s) <=>
        \/ s # <<>> /\ All(s, Digits)
        \/ Len(s) > 2 /\ SubSeq(s, 1, 2) = <<"0", "x">> /\ All(Beyond(s, 2), HexChars)
  BY DEF Fits
<1>7. Fits("uint", s) <=> UIntAt(p, n)
  BY <1>2, <1>3, <1>4, <1>5, <1>6 DEF UIntAt, HexAt
<1> QED BY <1>7 DEF s

\* A signed number is one by position.
LEMMA IntIs ==
    ASSUME text \in Texts, NEW p, NEW n, Within(p, n)
    PROVE  Fits("int", Piece(p, n)) <=> IntAt(p, n)
<1> DEFINE s == Piece(p, n)
<1>1. Len(text) \in Nat /\ p \in 0 .. Len(text) /\ n \in 0 .. Len(text) - p /\ n >= 1
  BY TextIs DEF Within
<1>2. Len(s) = n /\ s[1] = At(p)
  <2>1. Len(s) = n /\ \A k \in 1 .. n : s[k] = At(p + k - 1)
    BY <1>1, PieceIs
  <2>2. 1 \in 1 .. n /\ p + 1 - 1 = p
    BY <1>1
  <2> HIDE DEF s
  <2> QED BY <2>1, <2>2
<1>3. n > 1 => (All(Beyond(s, 1), Digits) <=> RunAt(p + 1, n - 1, Digits))
  <2> SUFFICES ASSUME n > 1 PROVE All(Beyond(s, 1), Digits) <=> RunAt(p + 1, n - 1, Digits)
    OBVIOUS
  <2>1. p + 1 \in 0 .. Len(text) /\ n - 1 \in 0 .. Len(text) - (p + 1) /\ 1 \in 0 .. n
    BY <1>1
  <2>2. Beyond(s, 1) = Piece(p + 1, n - 1)
    BY <1>1, <2>1, RestIs
  <2> QED BY <2>1, <2>2, AllIs
<1> HIDE DEF s
<1>4. Fits("int", s) <=> Len(s) > 1 /\ s[1] = "-" /\ All(Beyond(s, 1), Digits)
  BY DEF Fits
<1>5. Fits("int", s) <=> IntAt(p, n)
  BY <1>2, <1>3, <1>4 DEF IntAt
<1> QED BY <1>5 DEF s

\* A piece is of a kind when the text is, there.
LEMMA FitsIs ==
    ASSUME text \in Texts, NEW p, NEW n, Within(p, n), NEW kind \in Kinds
    PROVE  Fits(kind, Piece(p, n)) <=> FitsAt(kind, p, n)
BY NameIs, CNameIs, WordIs, LiteralIs, UIntIs, IntIs DEF Kinds, FitsAt

-----------------------------------------------------------------------------
\* How the kinds are told apart.

\* The sets of characters that tokens begin with have none in common.
LEMMA CharsApart ==
    /\ \A c \in FirstNameChars : c \notin Digits /\ c \notin QuoteChars
                                 /\ c \notin {":", "\\", "-", "\n", "end"}
    /\ \A c \in Digits : c \notin QuoteChars /\ c \notin {":", "\\", "-", "\n", "end", "x"} /\ c \in HexChars
    /\ \A c \in HexChars : c \notin QuoteChars /\ c \notin {":", "\\", "-", "\n", "end", "x"}
    /\ \A c \in NameChars : c \notin QuoteChars /\ c \notin {":", "\\", "-", "\n", "end"}
    /\ FirstNameChars \subseteq NameChars
<1>1. \A c \in Letters : c \notin Digits /\ c \notin {"\n", "end", ":", "\"", "'", "\\", "-"}
  BY LexerAssumption DEF LexerAssumption, Separators
<1> QED BY <1>1, DigitsAre DEF FirstNameChars, NameChars, QuoteChars

\* What a text of a kind begins with.
LEMMA Beginnings ==
    ASSUME text \in Texts, NEW p, NEW n, Within(p, n)
    PROVE  /\ NameAt(p, n) => At(p) \in FirstNameChars
           /\ EscapedAt(p, n) => At(p) = "\\"
           /\ CNameAt(p, n) => At(p) \in FirstNameChars
           /\ LiteralAt(p, n) => At(p) \in QuoteChars
           /\ UIntAt(p, n) => At(p) \in Digits
           /\ IntAt(p, n) => At(p) = "-"
<1>1. Len(text) \in Nat /\ p \in Nat /\ n \in Nat /\ n >= 1 /\ p \in p .. p + n - 1
  BY TextIs DEF Within
<1>2. "0" \in Digits
  BY DigitsAre
<1> QED BY <1>1, <1>2 DEF NameAt, EscapedAt, CNameAt, LiteralAt, UIntAt, HexAt, IntAt, RunAt

\* A word that a text begins with, character by character.
LEMMA WordChars ==
    ASSUME text \in Texts, NEW p \in 0 .. Len(text), NEW k \in DOMAIN TokenTable, BeginsWith(p, TokenTable[k])
    PROVE  /\ Len(TokenTable[k]) \in 1 .. Len(text) - p
           /\ \A i \in 1 .. Len(TokenTable[k]) : At(p + i - 1) = TokenTable[k][i]
           /\ TokenTable[k] = Piece(p, Len(TokenTable[k]))
           /\ TokenTable[k] \in Seq(STRING \ {"\n"})
<1> DEFINE word == TokenTable[k]
<1>1. word \in Seq(STRING \ {"\n"}) /\ word # <<>>
  <2> DEFINE S == Seq(STRING \ {"\n"}) \ {<<>>}
  <2>1. TokenTable \in Seq(S)
    BY LexerAssumption DEF LexerAssumption
  <2> HIDE DEF S
  <2>2. TokenTable[k] \in S
    BY <2>1
  <2> QED BY <2>2 DEF S
<1>2. p + Len(word) <= Len(text) /\ SubSeq(text, p + 1, p + Len(word)) = word
  BY DEF BeginsWith
<1> HIDE DEF word
<1>3. Len(word) \in Nat /\ Len(word) >= 1
  BY <1>1
<1>4. Len(text) \in Nat
  BY TextIs
<1>5. Len(word) \in 1 .. Len(text) - p /\ Len(word) \in 0 .. Len(text) - p
  BY <1>2, <1>3, <1>4
<1>6. word = Piece(p, Len(word))
  BY <1>2 DEF Piece
<1>7. \A i \in 1 .. Len(word) : Piece(p, Len(word))[i] = At(p + i - 1)
  BY <1>5, PieceIs
<1>8. \A i \in 1 .. Len(word) : At(p + i - 1) = word[i]
  BY <1>6, <1>7
<1> QED BY <1>1, <1>5, <1>6, <1>8 DEF word

\* A keyword is made of the characters of names, a mark is no beginning of another kind.
LEMMA WordBegins ==
    ASSUME text \in Texts, NEW p, NEW n, Within(p, n), WordAt(p, n)
    PROVE  /\ At(p) \notin Digits /\ At(p) \notin QuoteChars /\ At(p) # "\\"
           /\ At(p) \in FirstNameChars => RunAt(p, n, NameChars)
           /\ At(p) = "-" => n > 1 /\ At(p + 1) \notin Digits
           /\ \A r \in p .. p + n - 1 : At(r) # "\n"
<1>1. PICK k \in DOMAIN TokenTable : n = Len(TokenTable[k]) /\ BeginsWith(p, TokenTable[k])
  BY DEF WordAt
<1> DEFINE word == TokenTable[k]
<1>2. /\ word[1] \notin Digits \union {"\"", "'", "\\"}
      /\ word[1] \in Letters => \A i \in DOMAIN word : word[i] \in NameChars
      /\ word[1] = "-" => Len(word) > 1 /\ word[2] \notin Digits
  BY LexerAssumption DEF LexerAssumption
<1>3. Len(text) \in Nat /\ p \in 0 .. Len(text) /\ n \in Nat /\ n >= 1 /\ p \in Nat
  BY TextIs DEF Within
<1>4. (\A i \in 1 .. n : At(p + i - 1) = word[i]) /\ word \in Seq(STRING \ {"\n"}) /\ n = Len(word)
  BY <1>1, <1>3, WordChars
<1> HIDE DEF word
<1>5. DOMAIN word = 1 .. n /\ \A i \in 1 .. n : word[i] # "\n"
  BY <1>4
<1>6. At(p) = word[1]
  <2>1. 1 \in 1 .. n /\ p + 1 - 1 = p
    BY <1>3
  <2> QED BY <1>4, <2>1
<1>7. n > 1 => At(p + 1) = word[2]
  <2>1. n > 1 => 2 \in 1 .. n /\ p + 2 - 1 = p + 1
    BY <1>3
  <2> QED BY <1>4, <2>1
<1>8. ASSUME NEW r \in p .. p + n - 1
      PROVE  r - p + 1 \in 1 .. n /\ At(r) = word[r - p + 1]
  <2>1. r - p + 1 \in 1 .. n /\ p + (r - p + 1) - 1 = r
    BY <1>3
  <2> QED BY <1>4, <2>1
<1>9. At(p) \in FirstNameChars => RunAt(p, n, NameChars)
  BY <1>2, <1>5, <1>6, <1>8 DEF RunAt, FirstNameChars
<1>10. \A r \in p .. p + n - 1 : At(r) # "\n"
  BY <1>5, <1>8
<1> QED BY <1>2, <1>4, <1>6, <1>7, <1>9, <1>10 DEF QuoteChars

\* No token has the end of a line in it.
LEMMA NoLineInside ==
    ASSUME text \in Texts, NEW p, NEW n, Within(p, n), NEW kind, FitsAt(kind, p, n)
    PROVE  \A r \in p .. p + n - 1 : At(r) # "\n"
<1>1. Len(text) \in Nat /\ p \in Nat /\ n \in Nat /\ n >= 1
  BY TextIs DEF Within
<1>2. CASE NameAt(p, n)
  BY <1>2, CharsApart DEF NameAt, RunAt
<1>3. CASE EscapedAt(p, n)
  <2>1. \A r \in p .. p + n - 1 : r = p \/ r \in p + 1 .. p + 1 + (n - 1) - 1
    BY <1>1
  <2> QED BY <1>3, <2>1, CharsApart DEF EscapedAt, NameAt, RunAt
<1>4. CASE CNameAt(p, n)
  <2>1. PICK k \in 2 .. n - 1 : At(p + k - 1) = ":" /\ NameAt(p, k - 1) /\ RunAt(p + k, n - k, NameChars)
    BY <1>4 DEF CNameAt
  <2>2. \A r \in p .. p + n - 1 : r \in p .. p + (k - 1) - 1 \/ r = p + k - 1 \/ r \in p + k .. p + k + (n - k) - 1
    BY <1>1
  <2> QED BY <2>1, <2>2, CharsApart DEF NameAt, RunAt
<1>5. CASE WordAt(p, n)
  BY <1>5, WordBegins
<1>6. CASE LiteralAt(p, n)
  <2>1. \A r \in p .. p + n - 1 : r = p \/ r = p + n - 1 \/ r \in p + 1 .. p + 1 + (n - 2) - 1
    BY <1>1
  <2> QED BY <1>6, <2>1 DEF LiteralAt, RunAt, QuoteChars
<1>7. CASE RunAt(p, n, Digits)
  BY <1>7, CharsApart DEF RunAt
<1>8. CASE HexAt(p, n)
  <2>1. \A r \in p .. p + n - 1 : r = p \/ r = p + 1 \/ r \in p + 2 .. p + 2 + (n - 2) - 1
    BY <1>1
  <2> QED BY <1>8, <2>1, CharsApart DEF HexAt, RunAt
<1>9. CASE IntAt(p, n)
  <2>1. \A r \in p .. p + n - 1 : r = p \/ r \in p + 1 .. p + 1 + (n - 1) - 1
    BY <1>1
  <2> QED BY <1>9, <2>1, CharsApart DEF IntAt, RunAt
<1> QED BY <1>2, <1>3, <1>4, <1>5, <1>6, <1>7, <1>8, <1>9 DEF FitsAt, UIntAt

-----------------------------------------------------------------------------
\* What the recognisers give.

\* A text of n characters from p on that has no room in the caller's buffer.
OutgrowsAt(p, n) ==
    \/ n > NameMax /\ NameAt(p, n)
    \/ n > NameMax /\ CNameAt(p, n)
    \/ n = NameMax + 1 /\ NameAt(p, NameMax) /\ At(p + n - 1) = ":"
    \/ n - 1 > NameMax /\ At(p) = "\\" /\ NameAt(p + 1, n - 1)
    \/ n - 1 > NameMax /\ At(p) \in QuoteChars /\ RunAt(p + 1, n - 1, Chars \ {At(p), "\n"})
Outgrows(p) == \E n \in Nat : Within(p, n) /\ OutgrowsAt(p, n)
HexTooLongAt(p) == \E n \in Nat : Within(p, n) /\ n > HexDigits + 3 /\ HexAt(p, n)

\* No text from p on is of a kind.
NoneAt(kinds, p) == \A n \in Nat, kind \in kinds : Within(p, n) => ~FitsAt(kind, p, n)

\* A token of one of Kinds is one, and no text from its start on is a longer one, but for
\* a name that begins with a keyword and a hexadecimal number that is too long.
KindRight(t) ==
    /\ FitsAt(t.kind, t.start, t.end - t.start)
    /\ \A n \in Nat, kind \in Kinds :
        Within(t.start, n) /\ FitsAt(kind, t.start, n) =>
            \/ n <= t.end - t.start
            \/ t.kind = "word" /\ kind = "name"
            \/ t.kind = "uint" /\ HexTooLongAt(t.start)

\* TokensAreLongest, by position.
RightAt(t) ==
    /\ t.kind \in Kinds => KindRight(t)
    /\ t.kind = "unknown" => NoneAt(Kinds, t.start)
    /\ t.kind = "enomem" => Outgrows(t.start)

\* A token that was read from p on.
ReadAt(t, p) ==
    /\ t.start = p
    /\ t.end \in p + 1 .. Len(text)
    /\ t.kind \in Kinds \union {"enomem", "unknown"}

\* The lengths of the names at a position.
LEMMA NamesEnd ==
    ASSUME text \in Texts, NEW p \in 0 .. Len(text), At(p) \in FirstNameChars
    PROVE  LET q == RunEnd(p, NameChars)
           IN  /\ q \in p + 1 .. Len(text) /\ At(q) \notin NameChars
               /\ \A n \in 1 .. q - p : NameAt(p, n)
               /\ \A n \in Nat : RunAt(p, n, NameChars) => n <= q - p
               /\ \A n \in Nat : NameAt(p, n) => n <= q - p
<1> DEFINE q == RunEnd(p, NameChars)
<1>1. /\ q \in p .. Len(text) /\ At(q) \notin NameChars /\ RunAt(p, q - p, NameChars)
      /\ \A n \in Nat : RunAt(p, n, NameChars) => p + n <= q
  BY RunEndIs, NoRunHasTheEnd
<1>2. At(p) \in NameChars
  BY CharsApart
<1>3. Len(text) \in Nat /\ p \in Nat
  BY TextIs
<1> HIDE DEF q
<1>4. q # p
  BY <1>1, <1>2
<1>5. q \in p + 1 .. Len(text)
  BY <1>1, <1>3, <1>4
<1>6. \A n \in 1 .. q - p : NameAt(p, n)
  BY <1>1, <1>3, <1>5 DEF NameAt, RunAt
<1>7. \A n \in Nat : RunAt(p, n, NameChars) => n <= q - p
  BY <1>1, <1>3
<1>8. \A n \in Nat : NameAt(p, n) => n <= q - p
  BY <1>7 DEF NameAt
<1> QED BY <1>1, <1>5, <1>6, <1>7, <1>8 DEF q

\* Where the first colon of a name of two parts is.
LEMMA ColonEnds ==
    ASSUME text \in Texts, NEW p \in 0 .. Len(text), At(p) \in FirstNameChars,
           NEW n \in Nat, Within(p, n), CNameAt(p, n)
    PROVE  LET colon == RunEnd(p, NameChars)
           IN  /\ At(colon) = ":" /\ colon + 1 < p + n
               /\ RunAt(colon + 1, p + n - (colon + 1), NameChars)
<1> DEFINE colon == RunEnd(p, NameChars)
<1>1. PICK k \in 2 .. n - 1 : At(p + k - 1) = ":" /\ NameAt(p, k - 1) /\ RunAt(p + k, n - k, NameChars)
  BY DEF CNameAt
<1>2. Len(text) \in Nat /\ p \in Nat
  BY TextIs
<1>3. colon \in p + 1 .. Len(text) /\ At(colon) \notin NameChars /\ \A m \in 1 .. colon - p : NameAt(p, m)
  BY NamesEnd
<1>4. k - 1 <= colon - p
  BY <1>1, <1>2, NamesEnd
<1> HIDE DEF colon
<1>5. ASSUME k - 1 # colon - p PROVE FALSE
  <2>1. p + k - 1 \in p .. p + (colon - p) - 1 /\ colon - p \in 1 .. colon - p
    BY <1>1, <1>2, <1>3, <1>4, <1>5
  <2>2. At(p + k - 1) \in NameChars
    BY <1>3, <2>1 DEF NameAt, RunAt
  <2> QED BY <1>1, <2>2, CharsApart
<1>6. colon = p + k - 1 /\ colon + 1 = p + k /\ p + n - (colon + 1) = n - k
  BY <1>1, <1>2, <1>3, <1>5
<1> QED BY <1>1, <1>2, <1>6 DEF colon

\* The bounds of the buffer and of numbers.
LEMMA BoundsAre == NameMax \in Nat /\ HexDigits \in Nat
BY LexerAssumption DEF LexerAssumption

\* What IsCName does at a position.
LEMMA IsCNameRight ==
    ASSUME text \in Texts, NEW p \in 0 .. Len(text) - 1
    PROVE  /\ \A t \in IsCName(p) : ReadAt(t, p) /\ RightAt(t)
           /\ IsCName(p) = {} => NoneAt({"cname"}, p)
<1> DEFINE colon == RunEnd(p, NameChars)
           end == RunEnd(colon + 1, NameChars)
<1>1. Len(text) \in Nat /\ p \in Nat /\ p \in 0 .. Len(text) /\ NameMax \in Nat
  BY TextIs, BoundsAre
<1>2. CASE At(p) \notin FirstNameChars
  <2>1. IsCName(p) = {}
    BY <1>2 DEF IsCName
  <2>2. NoneAt({"cname"}, p)
    BY <1>2, Beginnings DEF NoneAt, FitsAt
  <2> QED BY <2>1, <2>2
<1>3. CASE At(p) \in FirstNameChars
  <2>1. /\ colon \in p + 1 .. Len(text) /\ At(colon) \notin NameChars
        /\ \A n \in 1 .. colon - p : NameAt(p, n)
        /\ \A n \in Nat : RunAt(p, n, NameChars) => n <= colon - p
        /\ \A n \in Nat : NameAt(p, n) => n <= colon - p
    BY <1>1, <1>3, NamesEnd
  <2>2. \A n \in Nat : Within(p, n) /\ CNameAt(p, n) =>
            /\ At(colon) = ":" /\ colon + 1 < p + n
            /\ RunAt(colon + 1, p + n - (colon + 1), NameChars)
    BY <1>1, <1>3, ColonEnds
  <2>3. CASE colon - p > NameMax \/ (At(colon) = ":" /\ colon - p = NameMax)
    <3>1. IsCName(p) = {Full(p, p)}
      BY <1>3, <2>3 DEF IsCName
    <3>2. \E n \in Nat : Within(p, n) /\ OutgrowsAt(p, n) /\ p + NameMax + 1 <= Len(text)
      <4> HIDE DEF colon
      <4>1. CASE colon - p > NameMax
        <5>1. colon - p \in 1 .. colon - p /\ Within(p, colon - p) /\ p + NameMax + 1 <= Len(text) /\ colon - p \in Nat
          BY <1>1, <2>1, <4>1 DEF Within
        <5> QED BY <2>1, <4>1, <5>1 DEF OutgrowsAt
      <4>2. CASE At(colon) = ":" /\ colon - p = NameMax
        <5>1. colon < Len(text)
          <6>1. At(Len(text)) = "end"
            BY <1>1, TextIs
          <6> QED BY <1>1, <2>1, <4>2, <6>1
        <5>2. /\ NameMax \in 1 .. colon - p /\ Within(p, NameMax + 1) /\ p + NameMax + 1 <= Len(text)
              /\ NameMax + 1 \in Nat /\ p + (NameMax + 1) - 1 = colon
          BY <1>1, <2>1, <4>2, <5>1 DEF Within
        <5>3. OutgrowsAt(p, NameMax + 1)
          BY <2>1, <4>2, <5>2 DEF OutgrowsAt
        <5> QED BY <5>2, <5>3
      <4> QED BY <2>3, <4>1, <4>2
    <3>3. Full(p, p).kind = "enomem" /\ Full(p, p).start = p /\ Full(p, p).end = p + NameMax + 1
      BY DEF Full, Blank, Token
    <3>4. ReadAt(Full(p, p), p)
      BY <1>1, <3>2, <3>3 DEF ReadAt
    <3>5. RightAt(Full(p, p))
      BY <3>2, <3>3 DEF RightAt, Kinds, Outgrows
    <3> QED BY <3>1, <3>4, <3>5
  <2>4. CASE /\ ~(colon - p > NameMax \/ (At(colon) = ":" /\ colon - p = NameMax))
             /\ At(colon) # ":"
    <3>1. IsCName(p) = {}
      BY <1>3, <2>4 DEF IsCName
    <3>2. NoneAt({"cname"}, p)
      BY <2>2, <2>4 DEF NoneAt, FitsAt
    <3> QED BY <3>1, <3>2
  <2>5. CASE /\ ~(colon - p > NameMax \/ (At(colon) = ":" /\ colon - p = NameMax))
             /\ At(colon) = ":"
    <3>1. colon < Len(text)
      <4>1. At(Len(text)) = "end"
        BY <1>1, TextIs
      <4> HIDE DEF colon
      <4> QED BY <1>1, <2>1, <2>5, <4>1
    <3>2. colon + 1 \in 0 .. Len(text)
      <4> HIDE DEF colon
      <4> QED BY <1>1, <2>1, <3>1
    <3>3. /\ end \in colon + 1 .. Len(text) /\ RunAt(colon + 1, end - (colon + 1), NameChars)
          /\ \A n \in Nat : RunAt(colon + 1, n, NameChars) => colon + 1 + n <= end
      <4> HIDE DEF colon
      <4> QED BY <3>2, RunEndIs, NoRunHasTheEnd
    <3>4. \A n \in Nat : Within(p, n) /\ CNameAt(p, n) => end # colon + 1 /\ p + n <= end
      <4> HIDE DEF end, colon
      <4> SUFFICES ASSUME NEW n \in Nat, Within(p, n), CNameAt(p, n)
                   PROVE  end # colon + 1 /\ p + n <= end
        OBVIOUS
      <4>1. p + n - (colon + 1) \in Nat /\ p + n - (colon + 1) > 0
        BY <1>1, <2>1, <2>2
      <4>2. colon + 1 + (p + n - (colon + 1)) <= end
        BY <2>2, <3>3, <4>1
      <4> QED BY <1>1, <2>1, <3>3, <4>1, <4>2
    <3>5. CASE end = colon + 1
      <4>1. IsCName(p) = {}
        BY <1>3, <2>5, <3>5 DEF IsCName
      <4>2. NoneAt({"cname"}, p)
        BY <3>4, <3>5 DEF NoneAt, FitsAt
      <4> QED BY <4>1, <4>2
    <3>6. CASE end # colon + 1
      <4>1. Within(p, end - p) /\ CNameAt(p, end - p) /\ end - p \in Nat /\ end \in p + 1 .. Len(text)
        <5> DEFINE k == colon - p + 1
        <5> HIDE DEF end, colon
        <5>1. /\ k \in 2 .. end - p - 1 /\ p + k - 1 = colon /\ k - 1 \in 1 .. colon - p
              /\ p + k = colon + 1 /\ end - p - k = end - (colon + 1)
              /\ end - p \in 1 .. Len(text) - p
          BY <1>1, <2>1, <3>3, <3>6
        <5> HIDE DEF k
        <5>2. CNameAt(p, end - p)
          BY <2>1, <2>5, <3>3, <5>1 DEF CNameAt
        <5> QED BY <1>1, <3>3, <5>1, <5>2 DEF Within
      <4>2. CASE end - p > NameMax
        <5>1. IsCName(p) = {Full(p, p)}
          BY <1>3, <2>5, <3>6, <4>2 DEF IsCName
        <5>2. Full(p, p).kind = "enomem" /\ Full(p, p).start = p /\ Full(p, p).end = p + NameMax + 1
          BY DEF Full, Blank, Token
        <5> HIDE DEF end, colon
        <5>3. ReadAt(Full(p, p), p)
          BY <1>1, <4>1, <4>2, <5>2 DEF ReadAt, Within
        <5>4. RightAt(Full(p, p))
          BY <4>1, <4>2, <5>2 DEF RightAt, Kinds, Outgrows, OutgrowsAt
        <5> QED BY <5>1, <5>3, <5>4
      <4>3. CASE ~(end - p > NameMax)
        <5> DEFINE t == Token("cname", p, end, end - p, 0)
        <5>1. IsCName(p) = {t}
          BY <1>3, <2>5, <3>6, <4>3 DEF IsCName
        <5>2. t.kind = "cname" /\ t.start = p /\ t.end = end
          BY DEF Token
        <5> HIDE DEF t, end
        <5>3. ReadAt(t, p)
          BY <4>1, <5>2 DEF ReadAt, Kinds
        <5>4. FitsAt("cname", p, end - p)
          BY <4>1 DEF FitsAt
        <5>5. ASSUME NEW n \in Nat, NEW kind \in Kinds, Within(p, n), FitsAt(kind, p, n)
              PROVE  n <= end - p
          <6> HIDE DEF colon
          <6>1. CASE CNameAt(p, n)
            BY <1>1, <3>3, <3>4, <5>5, <6>1
          <6>2. CASE RunAt(p, n, NameChars)
            BY <1>1, <2>1, <3>3, <5>5, <6>2
          <6>3. At(p) # "\\" /\ At(p) \notin QuoteChars /\ At(p) \notin Digits /\ At(p) # "-"
            BY <1>3, CharsApart
          <6>4. CNameAt(p, n) \/ NameAt(p, n) \/ WordAt(p, n)
            BY <5>5, <6>3, Beginnings DEF FitsAt
          <6>5. CNameAt(p, n) \/ RunAt(p, n, NameChars)
            BY <1>3, <5>5, <6>4, WordBegins DEF NameAt
          <6> QED BY <6>1, <6>2, <6>5
        <5>6. RightAt(t)
          BY <5>2, <5>4, <5>5 DEF RightAt, KindRight, Kinds
        <5> QED BY <5>1, <5>3, <5>6
      <4> QED BY <4>2, <4>3
    <3> QED BY <3>5, <3>6
  <2> QED BY <2>3, <2>4, <2>5
<1> QED BY <1>2, <1>3

\* What StringToToken does where no name of two parts is.
LEMMA StringToTokenRight ==
    ASSUME text \in Texts, NEW p \in 0 .. Len(text) - 1, NoneAt({"cname"}, p)
    PROVE  /\ \A t \in StringToToken(p) : ReadAt(t, p) /\ RightAt(t)
           /\ StringToToken(p) = {} => NoneAt({"cname", "word"}, p)
<1>1. Len(text) \in Nat /\ p \in Nat /\ p \in 0 .. Len(text)
  BY TextIs
<1>2. TokenTable \in Seq(Seq(STRING \ {"\n"}) \ {<<>>})
  BY LexerAssumption DEF LexerAssumption
<1>3. DOMAIN TokenTable = 1 .. Len(TokenTable) /\ Len(TokenTable) \in Nat
  BY <1>2
<1>4. ASSUME NEW t \in StringToToken(p) PROVE ReadAt(t, p) /\ RightAt(t)
  <2>1. PICK k \in DOMAIN TokenTable :
            /\ BeginsWith(p, TokenTable[k]) /\ \A j \in 1 .. k - 1 : ~BeginsWith(p, TokenTable[j])
            /\ t = Blank("word", p, p + Len(TokenTable[k]))
    BY <1>4 DEF StringToToken
  <2> DEFINE n == Len(TokenTable[k])
  <2>2. t.kind = "word" /\ t.start = p /\ t.end = p + n
    BY <2>1 DEF Blank, Token
  <2>3. n \in 1 .. Len(text) - p /\ TokenTable[k] = Piece(p, n)
    BY <1>1, <2>1, WordChars
  <2>4. Within(p, n) /\ WordAt(p, n)
    BY <1>1, <2>1, <2>3 DEF Within, WordAt
  <2>5. /\ At(p) \notin Digits /\ At(p) \notin QuoteChars /\ At(p) # "\\"
        /\ At(p) = "-" => n > 1 /\ At(p + 1) \notin Digits
    BY <2>4, WordBegins
  <2>6. ASSUME NEW m \in Nat, Within(p, m), WordAt(p, m), m > n PROVE FALSE
    <3>1. PICK l \in DOMAIN TokenTable : m = Len(TokenTable[l]) /\ BeginsWith(p, TokenTable[l])
      BY <2>6 DEF WordAt
    <3>2. TokenTable[l] = Piece(p, m)
      BY <1>1, <3>1, WordChars
    <3>3. l \in k + 1 .. Len(TokenTable)
      <4>1. l # k
        BY <2>6, <3>1
      <4>2. l \notin 1 .. k - 1
        BY <2>1, <3>1
      <4> QED BY <1>3, <4>1, <4>2
    <3>4. SubSeq(TokenTable[l], 1, n) # TokenTable[k]
      <4>1. n <= Len(TokenTable[l])
        BY <1>1, <2>3, <2>6, <3>1
      <4> QED BY <3>3, <4>1, LexerAssumption DEF LexerAssumption
    <3> HIDE DEF n
    <3>5. SubSeq(Piece(p, m), 1, n) = Piece(p + 1 - 1, n - 1 + 1)
      <4>1. m \in 0 .. Len(text) - p /\ 1 \in 1 .. m + 1 /\ n \in 1 - 1 .. m
        BY <1>1, <2>3, <2>6 DEF Within
      <4> QED BY <1>1, <4>1, PartIs
    <3>6. p + 1 - 1 = p /\ n - 1 + 1 = n
      BY <1>1, <2>3
    <3> QED BY <2>3, <3>2, <3>4, <3>5, <3>6
  <2> HIDE DEF n
  <2>8. ASSUME NEW m \in Nat, NEW kind \in Kinds, Within(p, m), FitsAt(kind, p, m)
        PROVE  m <= n \/ kind = "name"
    <3>1. ~LiteralAt(p, m) /\ ~UIntAt(p, m) /\ ~EscapedAt(p, m)
      BY <2>5, <2>8, Beginnings
    <3>2. ~CNameAt(p, m)
      BY <2>8 DEF NoneAt, FitsAt
    <3>3. ~IntAt(p, m)
      <4> SUFFICES ASSUME IntAt(p, m) PROVE FALSE
        OBVIOUS
      <4>1. At(p) = "-" /\ p + 1 \in p + 1 .. p + 1 + (m - 1) - 1
        BY <1>1, <2>8 DEF IntAt
      <4>2. At(p + 1) \in Digits
        BY <4>1 DEF IntAt, RunAt
      <4> QED BY <2>5, <4>1, <4>2
    <3>4. WordAt(p, m) => m <= n
      BY <1>1, <2>3, <2>6, <2>8
    <3> QED BY <2>8, <3>1, <3>2, <3>3, <3>4 DEF FitsAt
  <2>9. ReadAt(t, p)
    BY <1>1, <2>2, <2>3 DEF ReadAt, Kinds
  <2>10. t.end - t.start = n
    BY <1>1, <2>2, <2>3
  <2>11. FitsAt("word", p, n)
    BY <2>4 DEF FitsAt
  <2>12. RightAt(t)
    BY <2>2, <2>8, <2>10, <2>11 DEF RightAt, KindRight, Kinds
  <2> QED BY <2>9, <2>12
<1>5. ASSUME StringToToken(p) = {} PROVE NoneAt({"cname", "word"}, p)
  <2> DEFINE S == {i \in DOMAIN TokenTable : BeginsWith(p, TokenTable[i])}
  <2>1. ASSUME NEW i \in S PROVE FALSE
    <3>1. S \in SUBSET Nat /\ S # {}
      BY <1>3, <2>1
    <3>2. PICK k \in S : \A l \in S : k <= l
      <4> HIDE DEF S
      <4> QED BY <3>1, LeastOf
    <3>3. \A j \in 1 .. k - 1 : ~BeginsWith(p, TokenTable[j])
      BY <1>3, <3>2
    <3> QED BY <1>5, <3>2, <3>3 DEF StringToToken
  <2>2. \A n \in Nat : ~WordAt(p, n)
    BY <2>1 DEF WordAt
  <2> QED BY <2>2 DEF NoneAt, FitsAt
<1> QED BY <1>4, <1>5

\* What IsLiteral does where no name of two parts and no word is.
LEMMA IsLiteralRight ==
    ASSUME text \in Texts, NEW p \in 0 .. Len(text) - 1, NoneAt({"cname", "word"}, p)
    PROVE  /\ \A t \in IsLiteral(p) : ReadAt(t, p) /\ RightAt(t)
           /\ IsLiteral(p) = {} => NoneAt({"cname", "word", "literal"}, p)
<1> DEFINE chars == Chars \ {At(p), "\n"}
           end == RunEnd(p + 1, chars)
<1>1. Len(text) \in Nat /\ p \in Nat /\ p + 1 \in 0 .. Len(text) /\ p \in 0 .. Len(text) /\ NameMax \in Nat
  BY TextIs, BoundsAre
<1>2. CASE At(p) \notin QuoteChars
  <2>1. IsLiteral(p) = {}
    BY <1>2 DEF IsLiteral, QuoteChars
  <2>2. \A n \in Nat : Within(p, n) => ~LiteralAt(p, n)
    BY <1>2, Beginnings
  <2> QED BY <2>1, <2>2 DEF NoneAt, FitsAt
<1>3. CASE At(p) \in QuoteChars
  <2>1. /\ end \in p + 1 .. Len(text) /\ At(end) \notin chars /\ RunAt(p + 1, end - (p + 1), chars)
        /\ \A n \in Nat : RunAt(p + 1, n, chars) => p + 1 + n <= end
    <3>1. "end" \notin chars
      BY NoRunHasTheEnd
    <3> HIDE DEF chars
    <3> QED BY <1>1, <3>1, RunEndIs
  <2>2. \A n \in Nat : Within(p, n) /\ LiteralAt(p, n) => p + n - 1 = end /\ At(end) = At(p)
    <3> SUFFICES ASSUME NEW n \in Nat, Within(p, n), LiteralAt(p, n)
                 PROVE  p + n - 1 = end /\ At(end) = At(p)
      OBVIOUS
    <3>1. n >= 2 /\ At(p + n - 1) = At(p) /\ RunAt(p + 1, n - 2, chars)
      BY DEF LiteralAt
    <3>2. At(p + n - 1) \notin chars
      BY <3>1
    <3> HIDE DEF chars, end
    <3>3. p + 1 + (n - 2) <= end
      BY <2>1, <3>1
    <3>4. ASSUME p + n - 1 < end PROVE FALSE
      <4>1. p + n - 1 \in p + 1 .. p + 1 + (end - (p + 1)) - 1
        BY <1>1, <2>1, <3>1, <3>4
      <4> QED BY <2>1, <3>2, <4>1 DEF RunAt
    <3>5. p + n - 1 = end
      BY <1>1, <2>1, <3>3, <3>4
    <3> QED BY <3>1, <3>5
  <2>3. CASE end - (p + 1) > NameMax
    <3> DEFINE t == Full(p, p + 1)
    <3>1. IsLiteral(p) = {t}
      BY <1>3, <2>3 DEF IsLiteral, QuoteChars
    <3>2. t.kind = "enomem" /\ t.start = p /\ t.end = p + 1 + NameMax + 1
      BY DEF Full, Blank, Token
    <3> HIDE DEF t, end
    <3>3. ReadAt(t, p)
      BY <1>1, <2>1, <2>3, <3>2 DEF ReadAt
    <3>4. Within(p, end - p) /\ end - p \in Nat /\ (end - p) - 1 > NameMax /\ (end - p) - 1 = end - (p + 1)
      BY <1>1, <2>1, <2>3 DEF Within
    <3>5. OutgrowsAt(p, end - p)
      BY <1>3, <2>1, <3>4 DEF OutgrowsAt
    <3>6. RightAt(t)
      BY <3>2, <3>4, <3>5 DEF RightAt, Kinds, Outgrows
    <3> QED BY <3>1, <3>3, <3>6
  <2>4. CASE ~(end - (p + 1) > NameMax) /\ At(end) # At(p)
    <3>1. IsLiteral(p) = {}
      BY <1>3, <2>4 DEF IsLiteral, QuoteChars
    <3>2. \A n \in Nat : Within(p, n) => ~LiteralAt(p, n)
      BY <2>2, <2>4
    <3> QED BY <3>1, <3>2 DEF NoneAt, FitsAt
  <2>5. CASE ~(end - (p + 1) > NameMax) /\ At(end) = At(p)
    <3> DEFINE t == Token("literal", p, end + 1, end - (p + 1), 0)
    <3>1. IsLiteral(p) = {t}
      BY <1>3, <2>5 DEF IsLiteral, QuoteChars
    <3>2. t.kind = "literal" /\ t.start = p /\ t.end = end + 1
      BY DEF Token
    <3>3. end < Len(text)
      <4>1. At(Len(text)) = "end"
        BY <1>1, TextIs
      <4>2. At(p) # "end"
        BY <1>3 DEF QuoteChars
      <4> HIDE DEF end
      <4> QED BY <1>1, <2>1, <2>5, <4>1, <4>2
    <3>4. Within(p, end + 1 - p) /\ end + 1 - p \in Nat /\ LiteralAt(p, end + 1 - p)
      <4>1. LiteralAt(p, end + 1 - p) <=>
              /\ end + 1 - p >= 2 /\ At(p) \in QuoteChars
              /\ At(p + (end + 1 - p) - 1) = At(p)
              /\ RunAt(p + 1, (end + 1 - p) - 2, chars)
        BY DEF LiteralAt
      <4> HIDE DEF end, chars
      <4>2. /\ end + 1 - p >= 2 /\ p + (end + 1 - p) - 1 = end /\ (end + 1 - p) - 2 = end - (p + 1)
            /\ end + 1 - p \in 1 .. Len(text) - p /\ end + 1 - p \in Nat
        BY <1>1, <2>1, <3>3
      <4>3. LiteralAt(p, end + 1 - p)
        BY <1>3, <2>1, <2>5, <4>1, <4>2
      <4> QED BY <1>1, <4>2, <4>3 DEF Within
    <3> HIDE DEF t, end
    <3>5. ReadAt(t, p)
      BY <1>1, <2>1, <3>2, <3>3 DEF ReadAt, Kinds
    <3>6. FitsAt("literal", p, end + 1 - p)
      BY <3>4 DEF FitsAt
    <3>7. ASSUME NEW n \in Nat, NEW kind \in Kinds, Within(p, n), FitsAt(kind, p, n)
          PROVE  n <= end + 1 - p
      <4>1. At(p) \notin FirstNameChars /\ At(p) # "\\" /\ At(p) \notin Digits /\ At(p) # "-"
        BY <1>3, CharsApart DEF QuoteChars
      <4>2. LiteralAt(p, n)
        BY <3>7, <4>1, Beginnings DEF FitsAt, NoneAt
      <4> QED BY <1>1, <2>1, <2>2, <3>7, <4>2
    <3>8. KindRight(t)
      <4> DEFINE m == end + 1 - p
      <4>1. t.end - t.start = m
        BY <1>1, <2>1, <3>2
      <4>2. FitsAt("literal", p, m) /\ \A n \in Nat, kind \in Kinds : Within(p, n) /\ FitsAt(kind, p, n) => n <= m
        BY <3>6, <3>7
      <4> HIDE DEF m
      <4> QED BY <3>2, <4>1, <4>2 DEF KindRight
    <3>9. RightAt(t)
      BY <3>2, <3>8 DEF RightAt
    <3> QED BY <3>1, <3>5, <3>9
  <2> QED BY <2>3, <2>4, <2>5
<1> QED BY <1>2, <1>3

\* What IsName does where nothing that is tried before it is.
LEMMA IsNameRight ==
    ASSUME text \in Texts, NEW p \in 0 .. Len(text) - 1, NoneAt({"cname", "word", "literal"}, p)
    PROVE  /\ \A t \in IsName(p) : ReadAt(t, p) /\ RightAt(t)
           /\ IsName(p) = {} => NoneAt({"cname", "word", "literal", "name"}, p)
<1> DEFINE first == IF At(p) = "\\" THEN p + 1 ELSE p
           end == RunEnd(first, NameChars)
<1>1. Len(text) \in Nat /\ p \in Nat /\ first \in 0 .. Len(text) /\ NameMax \in Nat
  BY TextIs, BoundsAre
<1>2. /\ At(p) = "\\" => first = p + 1 /\ At(p) \notin FirstNameChars
      /\ At(p) # "\\" => first = p
  BY CharsApart
<1> HIDE DEF first
<1>3. CASE At(first) \notin FirstNameChars
  <2>1. IsName(p) = {}
    BY <1>3 DEF IsName, first
  <2>2. \A n \in Nat : Within(p, n) => ~NameAt(p, n) /\ ~EscapedAt(p, n)
    BY <1>2, <1>3 DEF NameAt, EscapedAt
  <2> QED BY <2>1, <2>2 DEF NoneAt, FitsAt
<1>4. CASE At(first) \in FirstNameChars
  <2>1. /\ end \in first + 1 .. Len(text) /\ \A n \in 1 .. end - first : NameAt(first, n)
        /\ \A n \in Nat : NameAt(first, n) => n <= end - first
    BY <1>1, <1>4, NamesEnd
  <2> HIDE DEF end
  <2>2. /\ end \in p + 1 .. Len(text) /\ Within(p, end - p) /\ end - p \in Nat
        /\ first + 1 <= end /\ first >= p /\ end - first \in 1 .. end - first
        /\ first = p + 1 => end - p >= 2 /\ (end - p) - 1 = end - first
    BY <1>1, <1>2, <2>1 DEF Within
  <2>3. NameAt(first, end - first)
    BY <2>1, <2>2
  <2>4. CASE end - first > NameMax
    <3> DEFINE t == Full(p, first)
    <3>1. IsName(p) = {t}
      BY <1>4, <2>4 DEF IsName, first, end
    <3>2. t.kind = "enomem" /\ t.start = p /\ t.end = first + NameMax + 1
      BY DEF Full, Blank, Token
    <3> HIDE DEF t
    <3>3. ReadAt(t, p)
      BY <1>1, <2>1, <2>2, <2>4, <3>2 DEF ReadAt
    <3>4. OutgrowsAt(p, end - p)
      BY <1>2, <2>2, <2>3, <2>4 DEF OutgrowsAt
    <3>5. RightAt(t)
      BY <2>2, <3>2, <3>4 DEF RightAt, Kinds, Outgrows
    <3> QED BY <3>1, <3>3, <3>5
  <2>5. CASE ~(end - first > NameMax)
    <3> DEFINE t == Token("name", p, end, IF end = Len(text) THEN 0 ELSE end - first, 0)
    <3>1. IsName(p) = {t}
      BY <1>4, <2>5 DEF IsName, first, end
    <3>2. t.kind = "name" /\ t.start = p /\ t.end = end
      BY DEF Token
    <3> HIDE DEF t
    <3>3. ReadAt(t, p)
      BY <2>2, <3>2 DEF ReadAt, Kinds
    <3>4. FitsAt("name", p, end - p)
      BY <1>2, <2>2, <2>3 DEF FitsAt, EscapedAt
    <3>5. ASSUME NEW n \in Nat, NEW kind \in Kinds, Within(p, n), FitsAt(kind, p, n)
          PROVE  n <= end - p
      <4>1. At(p) \notin Digits /\ At(p) # "-"
        BY <1>2, <1>4, CharsApart
      <4>2. NameAt(p, n) \/ EscapedAt(p, n)
        BY <3>5, <4>1, Beginnings DEF FitsAt, NoneAt
      <4>3. CASE NameAt(p, n)
        <5>1. first = p
          BY <1>2, <4>3 DEF NameAt
        <5> QED BY <1>1, <2>1, <2>2, <4>3, <5>1
      <4>4. CASE EscapedAt(p, n)
        <5>1. first = p + 1 /\ NameAt(first, n - 1) /\ n - 1 \in Nat
          BY <1>2, <3>5, <4>4 DEF EscapedAt
        <5>2. n - 1 <= end - first
          BY <2>1, <5>1
        <5> QED BY <1>1, <2>2, <3>5, <5>1, <5>2
      <4> QED BY <4>2, <4>3, <4>4
    <3>6. RightAt(t)
      BY <3>2, <3>4, <3>5 DEF RightAt, KindRight, Kinds
    <3> QED BY <3>1, <3>3, <3>6
  <2> QED BY <2>4, <2>5
<1> QED BY <1>3, <1>4

\* What IsHexNumber does where no text but a number is.
LEMMA IsHexNumberRight ==
    ASSUME text \in Texts, NEW p \in 0 .. Len(text) - 1, NoneAt({"cname", "word", "literal", "name"}, p)
    PROVE  /\ \A t \in IsHexNumber(p) : ReadAt(t, p) /\ RightAt(t)
           /\ IsHexNumber(p) = {} => \A n \in Nat : Within(p, n) /\ HexAt(p, n) => HexTooLongAt(p)
<1> DEFINE end == RunEnd(p + 2, HexChars)
           Hex == At(p) = "0" /\ At(p + 1) = "x" /\ At(p + 2) \in HexChars
<1>1. Len(text) \in Nat /\ p \in Nat /\ HexDigits \in Nat
  BY TextIs, BoundsAre
<1>2. CASE ~Hex
  <2>1. IsHexNumber(p) = {}
    BY <1>2 DEF IsHexNumber
  <2>2. ASSUME NEW n \in Nat, HexAt(p, n) PROVE FALSE
    <3>1. p + 2 \in p + 2 .. p + 2 + (n - 2) - 1
      BY <1>1, <2>2 DEF HexAt
    <3> QED BY <1>2, <2>2, <3>1 DEF HexAt, RunAt
  <2> QED BY <2>1, <2>2
<1>3. CASE Hex
  <2>1. p + 2 < Len(text) /\ p + 2 \in 0 .. Len(text)
    <3>1. p + 2 >= Len(text) => At(p + 2) = "end"
      BY <1>1, TextIs
    <3>2. At(p + 2) # "end"
      BY <1>3, NoRunHasTheEnd
    <3> QED BY <1>1, <3>1, <3>2
  <2>2. /\ end \in p + 2 .. Len(text) /\ At(end) \notin HexChars /\ RunAt(p + 2, end - (p + 2), HexChars)
        /\ \A n \in Nat : RunAt(p + 2, n, HexChars) => p + 2 + n <= end
    BY <2>1, RunEndIs, NoRunHasTheEnd
  <2>3. end # p + 2
    BY <1>3, <2>2
  <2> HIDE DEF end
  <2>4. Within(p, end - p) /\ end - p \in Nat /\ end - p > 2 /\ (end - p) - 2 = end - (p + 2)
    BY <1>1, <2>1, <2>2, <2>3 DEF Within
  <2>5. HexAt(p, end - p)
    BY <1>3, <2>2, <2>4 DEF HexAt
  <2>6. CASE end - (p + 2) > HexDigits + 1
    <3>1. IsHexNumber(p) = {}
      BY <1>3, <2>6 DEF IsHexNumber, end
    <3>2. end - p > HexDigits + 3
      BY <1>1, <2>2, <2>6
    <3>3. HexTooLongAt(p)
      BY <2>4, <2>5, <3>2 DEF HexTooLongAt
    <3> QED BY <3>1, <3>3
  <2>7. CASE ~(end - (p + 2) > HexDigits + 1)
    <3> DEFINE t == Token("uint", p, end, 0, NumberAt(p + 2, end, 16))
    <3>1. IsHexNumber(p) = {t}
      BY <1>3, <2>7 DEF IsHexNumber, end
    <3>2. t.kind = "uint" /\ t.start = p /\ t.end = end
      BY DEF Token
    <3> HIDE DEF t
    <3>3. ReadAt(t, p)
      BY <1>1, <2>2, <2>4, <3>2 DEF ReadAt, Kinds, Within
    <3>4. FitsAt("uint", p, end - p)
      BY <2>5 DEF FitsAt, UIntAt
    <3>5. ASSUME NEW n \in Nat, NEW kind \in Kinds, Within(p, n), FitsAt(kind, p, n)
          PROVE  n <= end - p
      <4>1. At(p) # "-" /\ At(p + 1) \notin Digits
        BY <1>3, DigitsAre
      <4>2. RunAt(p, n, Digits) \/ HexAt(p, n)
        BY <3>5, <4>1, Beginnings DEF FitsAt, NoneAt, UIntAt
      <4>3. CASE RunAt(p, n, Digits)
        <5>1. n <= 1
          BY <1>1, <4>1, <4>3 DEF RunAt
        <5> QED BY <2>4, <5>1
      <4>4. CASE HexAt(p, n)
        <5>1. p + 2 + (n - 2) <= end
          BY <2>2, <4>4 DEF HexAt
        <5> QED BY <1>1, <2>2, <5>1
      <4> QED BY <4>2, <4>3, <4>4
    <3>6. RightAt(t)
      BY <3>2, <3>4, <3>5 DEF RightAt, KindRight, Kinds
    <3> QED BY <3>1, <3>3, <3>6
  <2> QED BY <2>6, <2>7
<1> QED BY <1>2, <1>3

\* What IsUnsignedNumber does where no text but a number is, and no hexadecimal one that fits.
LEMMA IsUnsignedNumberRight ==
    ASSUME text \in Texts, NEW p \in 0 .. Len(text) - 1, NoneAt({"cname", "word", "literal", "name"}, p),
           \A n \in Nat : Within(p, n) /\ HexAt(p, n) => HexTooLongAt(p)
    PROVE  /\ \A t \in IsUnsignedNumber(p) : ReadAt(t, p) /\ RightAt(t)
           /\ IsUnsignedNumber(p) = {} => NoneAt({"cname", "word", "literal", "name", "uint"}, p)
<1> DEFINE end == RunEnd(p, Digits)
<1>1. Len(text) \in Nat /\ p \in Nat /\ p \in 0 .. Len(text)
  BY TextIs
<1>2. CASE At(p) \notin Digits
  <2>1. IsUnsignedNumber(p) = {}
    BY <1>2 DEF IsUnsignedNumber
  <2>2. \A n \in Nat : Within(p, n) => ~UIntAt(p, n)
    BY <1>2, Beginnings
  <2> QED BY <2>1, <2>2 DEF NoneAt, FitsAt
<1>3. CASE At(p) \in Digits
  <2>1. /\ end \in p .. Len(text) /\ At(end) \notin Digits /\ RunAt(p, end - p, Digits)
        /\ \A n \in Nat : RunAt(p, n, Digits) => p + n <= end
    BY <1>1, RunEndIs, NoRunHasTheEnd
  <2>2. end # p
    BY <1>3, <2>1
  <2> DEFINE t == Token("uint", p, end, 0, NumberAt(p, end, 10))
  <2>3. IsUnsignedNumber(p) = {t}
    BY <1>3 DEF IsUnsignedNumber
  <2>4. t.kind = "uint" /\ t.start = p /\ t.end = end
    BY DEF Token
  <2> HIDE DEF t, end
  <2>5. ReadAt(t, p)
    BY <1>1, <2>1, <2>2, <2>4 DEF ReadAt, Kinds
  <2>6. FitsAt("uint", p, end - p)
    BY <2>1 DEF FitsAt, UIntAt
  <2>7. ASSUME NEW n \in Nat, NEW kind \in Kinds, Within(p, n), FitsAt(kind, p, n)
        PROVE  n <= end - p \/ HexTooLongAt(p)
    <3>1. At(p) # "-"
      BY <1>3, CharsApart
    <3>2. RunAt(p, n, Digits) \/ HexAt(p, n)
      BY <2>7, <3>1, Beginnings DEF FitsAt, NoneAt, UIntAt
    <3>3. RunAt(p, n, Digits) => n <= end - p
      BY <1>1, <2>1
    <3> QED BY <2>7, <3>2, <3>3
  <2>8. RightAt(t)
    BY <2>4, <2>6, <2>7 DEF RightAt, KindRight, Kinds
  <2> QED BY <2>3, <2>5, <2>8
<1> QED BY <1>2, <1>3

\* What IsSignedNumber does where nothing that is tried before it is.
LEMMA IsSignedNumberRight ==
    ASSUME text \in Texts, NEW p \in 0 .. Len(text) - 1,
           NoneAt({"cname", "word", "literal", "name", "uint"}, p)
    PROVE  /\ \A t \in IsSignedNumber(p) : ReadAt(t, p) /\ RightAt(t)
           /\ IsSignedNumber(p) = {} => NoneAt(Kinds, p)
<1> DEFINE end == RunEnd(p + 1, Digits)
<1>1. Len(text) \in Nat /\ p \in Nat /\ p + 1 \in 0 .. Len(text)
  BY TextIs
<1>2. At(p) \notin Digits
  <2> SUFFICES ASSUME At(p) \in Digits PROVE FALSE
    OBVIOUS
  <2>1. Within(p, 1) /\ RunAt(p, 1, Digits)
    BY <1>1 DEF Within, RunAt
  <2> QED BY <2>1 DEF NoneAt, FitsAt, UIntAt
<1>3. CASE At(p) # "-" \/ At(p + 1) \notin Digits
  <2>1. IsSignedNumber(p) = {}
    BY <1>2, <1>3 DEF IsSignedNumber
  <2>2. ASSUME NEW n \in Nat, IntAt(p, n) PROVE FALSE
    <3>1. p + 1 \in p + 1 .. p + 1 + (n - 1) - 1
      BY <1>1, <2>2 DEF IntAt
    <3> QED BY <1>3, <2>2, <3>1 DEF IntAt, RunAt
  <2> QED BY <2>1, <2>2 DEF NoneAt, FitsAt
<1>4. CASE At(p) = "-" /\ At(p + 1) \in Digits
  <2>1. /\ end \in p + 1 .. Len(text) /\ At(end) \notin Digits /\ RunAt(p + 1, end - (p + 1), Digits)
        /\ \A n \in Nat : RunAt(p + 1, n, Digits) => p + 1 + n <= end
    BY <1>1, RunEndIs, NoRunHasTheEnd
  <2>2. end # p + 1
    BY <1>4, <2>1
  <2> DEFINE t == Token("int", p, end, 0, SignedOf((-NumberAt(p + 1, end, 10)) % Modulus))
  <2>3. IsSignedNumber(p) = {t}
    BY <1>4 DEF IsSignedNumber
  <2>4. t.kind = "int" /\ t.start = p /\ t.end = end
    BY DEF Token
  <2> HIDE DEF t, end
  <2>5. ReadAt(t, p)
    BY <1>1, <2>1, <2>2, <2>4 DEF ReadAt, Kinds
  <2>6. end - p > 1 /\ (end - p) - 1 = end - (p + 1)
    BY <1>1, <2>1, <2>2
  <2>7. FitsAt("int", p, end - p)
    BY <1>4, <2>1, <2>6 DEF FitsAt, IntAt
  <2>8. ASSUME NEW n \in Nat, NEW kind \in Kinds, Within(p, n), FitsAt(kind, p, n)
        PROVE  n <= end - p
    <3>1. IntAt(p, n)
      BY <2>8 DEF FitsAt, NoneAt, Kinds
    <3>2. p + 1 + (n - 1) <= end
      BY <2>1, <3>1 DEF IntAt
    <3> QED BY <1>1, <2>1, <3>2
  <2>9. RightAt(t)
    BY <2>4, <2>7, <2>8 DEF RightAt, KindRight, Kinds
  <2> QED BY <2>3, <2>5, <2>9
<1> QED BY <1>3, <1>4

\* The recognisers, one after another, give what there is.
LEMMA RecogniseRight ==
    ASSUME text \in Texts, NEW p \in 0 .. Len(text) - 1, NEW t \in Recognise(p)
    PROVE  ReadAt(t, p) /\ RightAt(t)
<1> DEFINE u == Blank("unknown", p, p + 1)
           tried == <<IsCName(p), StringToToken(p), IsLiteral(p), IsName(p), IsHexNumber(p),
                      IsUnsignedNumber(p), IsSignedNumber(p), {u}>>
           First(k) == tried[k] # {} /\ \A l \in 1 .. k - 1 : tried[l] = {}
<1>1. t \in tried[CHOOSE k \in DOMAIN tried : First(k)]
  BY DEF Recognise
<1>2. DOMAIN tried = 1 .. 8
  OBVIOUS
<1>3. \E k \in 1 .. 8 : First(k)
  <2> DEFINE S == {k \in 1 .. 8 : tried[k] # {}}
  <2>1. 8 \in S
    <3>1. tried[8] = {u}
      OBVIOUS
    <3>2. tried[8] # {}
      <4> HIDE DEF tried
      <4> QED BY <3>1
    <3> HIDE DEF tried
    <3> QED BY <3>2
  <2> HIDE DEF tried
  <2>2. PICK k \in S : \A l \in S : k <= l
    <3>1. S \in SUBSET Nat
      OBVIOUS
    <3> HIDE DEF S
    <3> QED BY <2>1, <3>1, LeastOf
  <2>3. First(k)
    BY <2>2
  <2> QED BY <2>3
<1>4. PICK k \in 1 .. 8 : First(k) /\ t \in tried[k]
  <2> HIDE DEF tried, First
  <2> QED BY <1>1, <1>2, <1>3
<1>5. /\ k = 1 => t \in IsCName(p)
      /\ k > 1 => IsCName(p) = {}
  BY <1>4
<1>6. /\ k = 2 => t \in StringToToken(p)
      /\ k > 2 => StringToToken(p) = {}
  BY <1>4
<1>7. /\ k = 3 => t \in IsLiteral(p)
      /\ k > 3 => IsLiteral(p) = {}
  BY <1>4
<1>8. /\ k = 4 => t \in IsName(p)
      /\ k > 4 => IsName(p) = {}
  BY <1>4
<1>9. /\ k = 5 => t \in IsHexNumber(p)
      /\ k > 5 => IsHexNumber(p) = {}
  BY <1>4
<1>10. /\ k = 6 => t \in IsUnsignedNumber(p)
       /\ k > 6 => IsUnsignedNumber(p) = {}
  BY <1>4
<1>11. /\ k = 7 => t \in IsSignedNumber(p)
       /\ k > 7 => IsSignedNumber(p) = {} /\ t = u
  BY <1>4
<1> HIDE DEF tried, First
<1>12. CASE k = 1
  BY <1>5, <1>12, IsCNameRight
<1>13. k > 1 => NoneAt({"cname"}, p)
  BY <1>5, IsCNameRight
<1>14. CASE k = 2
  BY <1>6, <1>13, <1>14, StringToTokenRight
<1>15. k > 2 => NoneAt({"cname", "word"}, p)
  BY <1>6, <1>13, StringToTokenRight
<1>16. CASE k = 3
  BY <1>7, <1>15, <1>16, IsLiteralRight
<1>17. k > 3 => NoneAt({"cname", "word", "literal"}, p)
  BY <1>7, <1>15, IsLiteralRight
<1>18. CASE k = 4
  BY <1>8, <1>17, <1>18, IsNameRight
<1>19. k > 4 => NoneAt({"cname", "word", "literal", "name"}, p)
  BY <1>8, <1>17, IsNameRight
<1>20. CASE k = 5
  BY <1>9, <1>19, <1>20, IsHexNumberRight
<1>21. k > 5 => \A n \in Nat : Within(p, n) /\ HexAt(p, n) => HexTooLongAt(p)
  BY <1>9, <1>19, IsHexNumberRight
<1>22. CASE k = 6
  BY <1>10, <1>19, <1>21, <1>22, IsUnsignedNumberRight
<1>23. k > 6 => NoneAt({"cname", "word", "literal", "name", "uint"}, p)
  BY <1>10, <1>19, <1>21, IsUnsignedNumberRight
<1>24. CASE k = 7
  BY <1>11, <1>23, <1>24, IsSignedNumberRight
<1>25. k > 7 => NoneAt(Kinds, p)
  BY <1>11, <1>23, IsSignedNumberRight
<1>26. CASE k = 8
  <2>1. t.kind = "unknown" /\ t.start = p /\ t.end = p + 1
    BY <1>11, <1>26 DEF Blank, Token
  <2>2. p + 1 \in p + 1 .. Len(text)
    BY TextIs
  <2> QED BY <1>25, <1>26, <2>1, <2>2 DEF ReadAt, RightAt, Kinds
<1> QED BY <1>4, <1>12, <1>14, <1>16, <1>18, <1>20, <1>22, <1>24, <1>26

-----------------------------------------------------------------------------
\* What a call reads.

\* From f on there are separators up to some place, and from there a comment to the end of
\* its line or of the text, which is where p is.
GapAt(f, p) ==
    \E k \in 0 .. p - f :
        /\ RunAt(f, k, Separators)
        /\ k < p - f =>
            /\ At(f + k) = "#"
            /\ \A r \in f + k .. p - 2 : At(r) # "\n"
            /\ At(p - 1) = "\n" \/ p = Len(text)

\* What a call leaves behind that began at f.
CallAt(f, t) ==
    /\ f \in 0 .. t.start
    /\ t.start \in 0 .. Len(text)
    /\ GapAt(f, t.start)
    /\ RightAt(t)
    /\ t.kind = "eof" => t.start = Len(text) \/ At(t.start) = "nul"
    /\ t.kind # "eof" => ReadAt(t, t.start)
    /\ t.kind # "none"
    /\ t.end \in t.start .. Len(text)

\* The inductive invariant: what the last call left, and that the rows are those of what
\* has been read. A token has no end of a line in it, so that only what is skipped counts.
IInv ==
    /\ text \in Texts
    /\ token = NoToken \/ CallAt(from, token)
    /\ pos = token.end
    /\ location.row = 1 + Cardinality(NewLines(0, token.start))

\* The places of the ends of lines are finitely many.
LEMMA NewLinesFinite ==
    ASSUME NEW p \in Nat, NEW q \in Nat
    PROVE  IsFiniteSet(NewLines(p, q)) /\ Cardinality(NewLines(p, q)) \in Nat
<1>1. IsFiniteSet(p .. q - 1)
  BY FS_Interval
<1>2. NewLines(p, q) \subseteq p .. q - 1
  BY DEF NewLines
<1> QED BY <1>1, <1>2, FS_Subset, FS_CardinalityType

\* The ends of lines up to a place are those before and those after one in between.
LEMMA NewLinesAdd ==
    ASSUME NEW p \in Nat, NEW q \in Nat, p <= q
    PROVE  Cardinality(NewLines(0, q)) = Cardinality(NewLines(0, p)) + Cardinality(NewLines(p, q))
<1> DEFINE A == NewLines(0, p)
           B == NewLines(p, q)
<1>1. IsFiniteSet(A) /\ IsFiniteSet(B) /\ Cardinality(A) \in Nat /\ Cardinality(B) \in Nat
  BY NewLinesFinite
<1>2. A \intersect B = {} /\ NewLines(0, q) = A \union B
  BY DEF NewLines
<1> HIDE DEF A, B
<1>3. Cardinality(A \union B) = Cardinality(A) + Cardinality(B) - Cardinality(A \intersect B)
  BY <1>1, FS_Union
<1>4. Cardinality(A \intersect B) = 0
  BY <1>2, FS_EmptySet
<1>5. Cardinality(NewLines(0, q)) = Cardinality(A \union B)
  BY <1>2
<1>6. Cardinality(A \union B) = Cardinality(A) + Cardinality(B)
  BY <1>1, <1>3, <1>4
<1> QED BY <1>5, <1>6 DEF A, B

\* Where the separators and one comment end.
LEMMA GapIs ==
    ASSUME text \in Texts, pos \in 0 .. Len(text)
    PROVE  LET start == AfterComment(AfterSpace)
           IN  start \in pos .. Len(text) /\ GapAt(pos, start)
<1> DEFINE space == AfterSpace
           start == AfterComment(space)
           line == Chars \ {"\n"}
           end == RunEnd(space, line)
<1>1. Len(text) \in Nat
  BY TextIs
<1>2. space \in pos .. Len(text) /\ RunAt(pos, space - pos, Separators)
  BY RunEndIs, NoRunHasTheEnd DEF AfterSpace
<1> HIDE DEF space
<1>3. CASE At(space) # "#"
  <2>1. start = space
    BY <1>3 DEF AfterComment
  <2> HIDE DEF start
  <2>2. GapAt(pos, start)
    <3>1. space - pos \in 0 .. start - pos /\ ~(space - pos < start - pos)
      BY <1>1, <1>2, <2>1
    <3> QED BY <1>2, <3>1 DEF GapAt
  <2> QED BY <1>2, <2>1, <2>2 DEF start, space
<1>4. CASE At(space) = "#"
  <2>1. /\ end \in space .. Len(text) /\ At(end) \notin line /\ RunAt(space, end - space, line)
        /\ start = IF At(end) = "\n" THEN end + 1 ELSE end
    <3>1. "end" \notin line
      BY NoRunHasTheEnd
    <3>2. start = IF At(end) = "\n" THEN end + 1 ELSE end
      BY <1>4 DEF AfterComment
    <3>3. space \in 0 .. Len(text)
      BY <1>1, <1>2
    <3> HIDE DEF line
    <3>4. end \in space .. Len(text) /\ At(end) \notin line /\ RunAt(space, end - space, line)
      BY <3>1, <3>3, RunEndIs
    <3> QED BY <3>2, <3>4
  <2> HIDE DEF end, start
  <2>2. space < Len(text) /\ At(space) \in line
    <3>1. ~(space >= Len(text))
      <4> SUFFICES ASSUME space >= Len(text) PROVE FALSE
        OBVIOUS
      <4>1. At(space) = "end"
        BY <1>1, <1>2, TextIs
      <4> QED BY <1>4, <4>1
    <3>2. space \in 0 .. Len(text) - 1
      BY <1>1, <1>2, <3>1
    <3>3. At(space) \in Chars
      BY <3>2, TextIs
    <3> QED BY <1>1, <1>2, <1>4, <3>1, <3>3
  <2>3. end # space
    BY <2>1, <2>2
  <2>4. end < Len(text) => At(end) = "\n"
    <3> SUFFICES ASSUME end < Len(text) PROVE At(end) = "\n"
      OBVIOUS
    <3>1. end \in 0 .. Len(text) - 1
      BY <1>1, <1>2, <2>1
    <3>2. At(end) \in Chars
      BY <3>1, TextIs
    <3> QED BY <2>1, <3>2
  <2>5. At(end) = "\n" => end < Len(text)
    <3>1. At(Len(text)) = "end"
      BY <1>1, TextIs
    <3> QED BY <1>1, <2>1, <3>1
  <2>6. start \in space + 1 .. Len(text) /\ ((start - 1 = end /\ At(end) = "\n") \/ (start = Len(text) /\ start = end))
    BY <1>1, <1>2, <2>1, <2>3, <2>4, <2>5
  <2>7. \A r \in space .. start - 2 : At(r) # "\n"
    <3> SUFFICES ASSUME NEW r \in space .. start - 2 PROVE At(r) # "\n"
      OBVIOUS
    <3>1. r \in space .. space + (end - space) - 1
      BY <1>1, <1>2, <2>1, <2>6
    <3> QED BY <2>1, <3>1 DEF RunAt
  <2>8. /\ space - pos \in 0 .. start - pos /\ pos + (space - pos) = space
    BY <1>1, <1>2, <2>6
  <2>9. GapAt(pos, start)
    BY <1>2, <1>4, <2>6, <2>7, <2>8 DEF GapAt
  <2>10. start \in pos .. Len(text)
    BY <1>1, <1>2, <2>6
  <2> QED BY <2>9, <2>10 DEF start, space
<1> QED BY <1>3, <1>4

\* The text stays, and with it what is said of positions in it.
LEMMA TextStays ==
    ASSUME text' = text
    PROVE  /\ \A f, t : CallAt(f, t)' <=> CallAt(f, t)
           /\ \A p, q : NewLines(p, q)' = NewLines(p, q)
<1>1. \A p : At(p)' = At(p)
  BY DEF At
<1>2. Chars' = Chars
  BY DEF Chars
<1>3. \A p, n, s : RunAt(p, n, s)' <=> RunAt(p, n, s)
  BY <1>1 DEF RunAt
<1>4. \A p, n : NameAt(p, n)' <=> NameAt(p, n)
  BY <1>1, <1>3 DEF NameAt
<1>5. \A p, n : Within(p, n)' <=> Within(p, n)
  BY DEF Within
<1>6. \A p, n : HexAt(p, n)' <=> HexAt(p, n)
  BY <1>1, <1>3 DEF HexAt
<1>7. \A p, n : CNameAt(p, n)' <=> CNameAt(p, n)
  BY <1>1, <1>3, <1>4 DEF CNameAt
<1>8. \A p, n : WordAt(p, n)' <=> WordAt(p, n)
  BY DEF WordAt, BeginsWith
<1>9. \A p, n : LiteralAt(p, n)' <=> LiteralAt(p, n)
  BY <1>1, <1>2, <1>3 DEF LiteralAt
<1>10. \A p, n : EscapedAt(p, n)' <=> EscapedAt(p, n)
  BY <1>1, <1>4 DEF EscapedAt
<1>11. \A p, n : UIntAt(p, n)' <=> UIntAt(p, n)
  BY <1>3, <1>6 DEF UIntAt
<1>12. \A p, n : IntAt(p, n)' <=> IntAt(p, n)
  BY <1>1, <1>3 DEF IntAt
<1>13. \A kind, p, n : FitsAt(kind, p, n)' <=> FitsAt(kind, p, n)
  BY <1>4, <1>7, <1>8, <1>9, <1>10, <1>11, <1>12 DEF FitsAt
<1>14. \A p, n : OutgrowsAt(p, n)' <=> OutgrowsAt(p, n)
  BY <1>1, <1>2, <1>3, <1>4, <1>7 DEF OutgrowsAt
<1>15. \A p : Outgrows(p)' <=> Outgrows(p)
  BY <1>5, <1>14 DEF Outgrows
<1>16. \A p : HexTooLongAt(p)' <=> HexTooLongAt(p)
  BY <1>5, <1>6 DEF HexTooLongAt
<1>17. \A kinds, p : NoneAt(kinds, p)' <=> NoneAt(kinds, p)
  BY <1>5, <1>13 DEF NoneAt
<1>18. \A t : KindRight(t)' <=> KindRight(t)
  BY <1>5, <1>13, <1>16 DEF KindRight
<1>19. \A t : RightAt(t)' <=> RightAt(t)
  BY <1>15, <1>17, <1>18 DEF RightAt
<1>20. \A f, p : GapAt(f, p)' <=> GapAt(f, p)
  BY <1>1, <1>3 DEF GapAt
<1>21. \A t, p : ReadAt(t, p)' <=> ReadAt(t, p)
  BY DEF ReadAt
<1>22. \A f, t : CallAt(f, t)' <=> CallAt(f, t)
  BY <1>1, <1>19, <1>20, <1>21 DEF CallAt
<1>23. \A p, q : NewLines(p, q)' = NewLines(p, q)
  BY <1>1 DEF NewLines
<1> QED BY <1>22, <1>23

-----------------------------------------------------------------------------
\* The invariant.

\* A call begins where the last one stopped, and no end of a line was read by that one
\* which is not counted.
LEMMA CallBegins ==
    ASSUME IInv, token.kind \notin Last
    PROVE  /\ pos \in 0 .. Len(text) /\ token.start \in 0 .. pos /\ Len(text) \in Nat
           /\ location.row = 1 + Cardinality(NewLines(0, pos))
<1>1. Len(text) \in Nat
  BY TextIs DEF IInv
<1>2. CASE token = NoToken
  <2>1. token.start = 0 /\ token.end = 0
    BY <1>2 DEF NoToken, Blank, Token
  <2> QED BY <1>1, <2>1 DEF IInv
<1>3. CASE CallAt(from, token)
  <2>1. /\ token.start \in 0 .. Len(text) /\ token.end \in token.start + 1 .. Len(text)
        /\ KindRight(token) /\ token.kind \in Kinds
    BY <1>3 DEF CallAt, ReadAt, RightAt, Last
  <2>2. Within(token.start, token.end - token.start) /\ FitsAt(token.kind, token.start, token.end - token.start)
    BY <1>1, <2>1 DEF Within, KindRight
  <2>3. \A r \in token.start .. token.start + (token.end - token.start) - 1 : At(r) # "\n"
    BY <2>2, NoLineInside DEF IInv
  <2>4. NewLines(token.start, token.end) = {}
    BY <1>1, <2>1, <2>3 DEF NewLines
  <2>5. Cardinality(NewLines(0, token.end)) = Cardinality(NewLines(0, token.start))
    <3>1. /\ Cardinality(NewLines(0, token.end)) =
                Cardinality(NewLines(0, token.start)) + Cardinality(NewLines(token.start, token.end))
          /\ Cardinality(NewLines(0, token.start)) \in Nat
      <4>1. token.start \in Nat /\ token.end \in Nat /\ token.start <= token.end /\ 0 \in Nat
        BY <1>1, <2>1
      <4> QED BY <4>1, NewLinesAdd, NewLinesFinite
    <3>2. Cardinality(NewLines(token.start, token.end)) = 0
      BY <2>4, FS_EmptySet
    <3> QED BY <3>1, <3>2
  <2> QED BY <1>1, <2>1, <2>5 DEF IInv
<1> QED BY <1>2, <1>3 DEF IInv

\* A call leaves behind what it should.
LEMMA GetTokenRight ==
    ASSUME IInv, GetToken
    PROVE  CallAt(pos, token') /\ location'.row = 1 + Cardinality(NewLines(0, token'.start))
<1> DEFINE start == AfterComment(AfterSpace)
<1>1. /\ pos \in 0 .. Len(text) /\ Len(text) \in Nat /\ text \in Texts
      /\ location.row = 1 + Cardinality(NewLines(0, pos))
  BY CallBegins DEF GetToken, IInv
<1>2. start \in pos .. Len(text) /\ GapAt(pos, start)
  BY <1>1, GapIs
<1>3. location' = LocationAt(AfterSpace, start)
  BY DEF GetToken
<1>4. location'.row = location.row + Cardinality(NewLines(pos, start))
  BY <1>3 DEF LocationAt
<1>5. token' \in CASE At(start) = "end" -> {Blank("eof", start, start)}
                   [] At(start) = "nul" -> {Blank("eof", start, start + 1)}
                   [] OTHER -> Recognise(start)
  BY DEF GetToken
<1> HIDE DEF start
<1>6. location'.row = 1 + Cardinality(NewLines(0, start))
  <2>1. /\ Cardinality(NewLines(0, start)) = Cardinality(NewLines(0, pos)) + Cardinality(NewLines(pos, start))
        /\ Cardinality(NewLines(0, pos)) \in Nat /\ Cardinality(NewLines(pos, start)) \in Nat
    <3>1. pos \in Nat /\ start \in Nat /\ pos <= start /\ 0 \in Nat
      BY <1>1, <1>2
    <3> QED BY <3>1, NewLinesAdd, NewLinesFinite
  <2> QED BY <1>1, <1>4, <2>1
<1>7. start < Len(text) => At(start) # "end"
  <2>1. start < Len(text) => start \in 0 .. Len(text) - 1
    BY <1>1, <1>2
  <2>2. start < Len(text) => At(start) \in Chars
    BY <1>1, <2>1, TextIs
  <2> QED BY <1>1, <2>2, TextIs
<1>8. start = Len(text) => At(start) = "end"
  BY <1>1, TextIs
<1>9. PICK t : t = token'
  OBVIOUS
<1>10. CASE At(start) = "end"
  <2>1. t = Blank("eof", start, start)
    BY <1>5, <1>9, <1>10
  <2>2. t.kind = "eof" /\ t.start = start /\ t.end = start
    BY <2>1 DEF Blank, Token
  <2>3. start = Len(text)
    BY <1>1, <1>2, <1>7, <1>10
  <2>4. RightAt(t)
    BY <2>2 DEF RightAt, Kinds
  <2>5. CallAt(pos, t)
    BY <1>1, <1>2, <2>2, <2>3, <2>4 DEF CallAt
  <2> QED BY <1>6, <1>9, <2>2, <2>5
<1>11. CASE At(start) = "nul"
  <2>1. t = Blank("eof", start, start + 1)
    BY <1>5, <1>9, <1>11
  <2>2. t.kind = "eof" /\ t.start = start /\ t.end = start + 1
    BY <2>1 DEF Blank, Token
  <2>3. start < Len(text)
    BY <1>1, <1>2, <1>8, <1>11
  <2>4. RightAt(t)
    BY <2>2 DEF RightAt, Kinds
  <2>5. CallAt(pos, t)
    BY <1>1, <1>2, <1>11, <2>2, <2>3, <2>4 DEF CallAt
  <2> QED BY <1>6, <1>9, <2>2, <2>5
<1>12. CASE At(start) # "end" /\ At(start) # "nul"
  <2>1. t \in Recognise(start)
    BY <1>5, <1>9, <1>12
  <2>2. start \in 0 .. Len(text) - 1
    BY <1>1, <1>2, <1>8, <1>12
  <2>3. ReadAt(t, start) /\ RightAt(t)
    BY <1>1, <2>1, <2>2, RecogniseRight
  <2>4. t.start = start /\ t.end \in start + 1 .. Len(text) /\ t.kind \notin {"none", "eof"}
    BY <2>3 DEF ReadAt, Kinds
  <2>5. CallAt(pos, t)
    BY <1>1, <1>2, <2>2, <2>3, <2>4 DEF CallAt
  <2> QED BY <1>6, <1>9, <2>4, <2>5
<1> QED BY <1>10, <1>11, <1>12

\* The inductive invariant: what was read last and what was read before it.
THEOREM Invariance == Spec => []IInv
<1>1. Init => IInv
  <2> SUFFICES ASSUME Init PROVE IInv
    OBVIOUS
  <2>1. text \in Texts /\ token = NoToken /\ pos = 0 /\ location.row = 1
    BY DEF Init
  <2>2. NoToken.start = 0 /\ NoToken.end = 0
    BY DEF NoToken, Blank, Token
  <2>3. NewLines(0, 0) = {}
    BY DEF NewLines
  <2>4. Cardinality(NewLines(0, 0)) = 0
    BY <2>3, FS_EmptySet
  <2> QED BY <2>1, <2>2, <2>4 DEF IInv
<1>2. IInv /\ [Next]_vars => IInv'
  <2> SUFFICES ASSUME IInv, [Next]_vars PROVE IInv'
    OBVIOUS
  <2>1. CASE GetToken
    <3>1. text' = text /\ pos' = token'.end /\ from' = pos
      BY <2>1 DEF GetToken
    <3>2. PICK f, t : f = pos /\ t = token'
      OBVIOUS
    <3>3. CallAt(f, t) /\ location'.row = 1 + Cardinality(NewLines(0, t.start))
      BY <2>1, <3>2, GetTokenRight
    <3>4. CallAt(f, t)' /\ NewLines(0, t.start)' = NewLines(0, t.start)
      BY <3>1, <3>3, TextStays
    <3>5. CallAt(from, token)'
      BY <3>1, <3>2, <3>4
    <3>6. (location.row = 1 + Cardinality(NewLines(0, token.start)))'
      BY <3>2, <3>3, <3>4
    <3> QED BY <3>1, <3>5, <3>6 DEF IInv
  <2>2. CASE UNCHANGED vars
    <3>1. text' = text /\ pos' = pos /\ from' = from /\ token' = token /\ location' = location
      BY <2>2 DEF vars
    <3>2. PICK f, t : f = from /\ t = token
      OBVIOUS
    <3>3. (CallAt(f, t)' <=> CallAt(f, t)) /\ NewLines(0, t.start)' = NewLines(0, t.start)
      BY <3>1, TextStays
    <3>4. CallAt(from, token)' <=> CallAt(from, token)
      BY <3>1, <3>2, <3>3
    <3>5. NewLines(0, token.start)' = NewLines(0, token.start)
      BY <3>1, <3>2, <3>3
    <3>6. NoToken' = NoToken
      BY DEF NoToken, Blank, Token
    <3> QED BY <3>1, <3>4, <3>5, <3>6 DEF IInv
  <2> QED BY <2>1, <2>2 DEF Next
<1> QED BY <1>1, <1>2, PTL DEF Spec

-----------------------------------------------------------------------------
\* What is said of the tokens.

\* A piece of the text from the start of a token on, and how many characters it has.
LEMMA PiecesAre ==
    ASSUME text \in Texts, token.start \in 0 .. Len(text)
    PROVE  \A s : s \in Pieces <=> \E n \in Nat : Within(token.start, n) /\ s = Piece(token.start, n) /\ Len(s) = n
<1>1. Len(text) \in Nat
  BY TextIs
<1>2. \A n \in 1 .. Len(text) - token.start : Len(Piece(token.start, n)) = n
  BY <1>1, PieceIs
<1> QED BY <1>1, <1>2 DEF Pieces, Within

\* A text that has no room, as a piece.
LEMMA OutgrowsIs ==
    ASSUME text \in Texts, NEW p, NEW n, Within(p, n), OutgrowsAt(p, n)
    PROVE  OutgrowsBuffer(Piece(p, n))
<1> DEFINE s == Piece(p, n)
           rest == Beyond(s, 1)
<1>1. Len(text) \in Nat /\ p \in 0 .. Len(text) /\ n \in 0 .. Len(text) - p /\ n >= 1 /\ NameMax \in Nat
  BY TextIs, BoundsAre DEF Within
<1>2. Len(s) = n /\ \A k \in 1 .. n : s[k] = At(p + k - 1)
  BY <1>1, PieceIs
<1>3. s[1] = At(p) /\ s[n] = At(p + n - 1)
  <2>1. 1 \in 1 .. n /\ n \in 1 .. n /\ p + 1 - 1 = p
    BY <1>1
  <2> HIDE DEF s
  <2> QED BY <1>2, <2>1
<1>4. PlainName(s) <=> NameAt(p, n)
  BY <1>1, PlainNameIs
<1>5. Fits("cname", s) <=> CNameAt(p, n)
  BY CNameIs
<1>6. rest = Piece(p + 1, n - 1) /\ Len(rest) = n - 1 /\ p + 1 \in 0 .. Len(text) /\ n - 1 \in 0 .. Len(text) - (p + 1)
  <2>1. 1 \in 0 .. n /\ p + 1 \in 0 .. Len(text) /\ n - 1 \in 0 .. Len(text) - (p + 1)
    BY <1>1
  <2>2. rest = Piece(p + 1, n - 1) /\ Len(rest) = n - 1
    BY <1>1, <2>1, RestIs
  <2> QED BY <2>1, <2>2
<1>7. PlainName(rest) <=> NameAt(p + 1, n - 1)
  BY <1>6, PlainNameIs
<1>8. All(rest, Chars \ {At(p), "\n"}) <=> RunAt(p + 1, n - 1, Chars \ {At(p), "\n"})
  BY <1>6, AllIs
<1>9. n = NameMax + 1 /\ NameAt(p, NameMax) => PlainName(SubSeq(s, 1, NameMax))
  <2> SUFFICES ASSUME n = NameMax + 1, NameAt(p, NameMax) PROVE PlainName(SubSeq(s, 1, NameMax))
    OBVIOUS
  <2>1. /\ 1 \in 1 .. n + 1 /\ NameMax \in 1 - 1 .. n /\ p + 1 - 1 = p /\ NameMax - 1 + 1 = NameMax
        /\ NameMax \in 0 .. Len(text) - p
    BY <1>1
  <2>2. SubSeq(s, 1, NameMax) = Piece(p + 1 - 1, NameMax - 1 + 1)
    BY <1>1, <2>1, PartIs
  <2>3. PlainName(Piece(p, NameMax))
    BY <1>1, <2>1, PlainNameIs
  <2> QED BY <2>1, <2>2, <2>3
<1> HIDE DEF s, rest
<1>10. CASE n > NameMax /\ NameAt(p, n)
  BY <1>2, <1>4, <1>10 DEF OutgrowsBuffer, s
<1>11. CASE n > NameMax /\ CNameAt(p, n)
  BY <1>2, <1>5, <1>11 DEF OutgrowsBuffer, s
<1>12. CASE n = NameMax + 1 /\ NameAt(p, NameMax) /\ At(p + n - 1) = ":"
  BY <1>2, <1>3, <1>9, <1>12 DEF OutgrowsBuffer, s
<1>13. CASE n - 1 > NameMax /\ At(p) = "\\" /\ NameAt(p + 1, n - 1)
  BY <1>3, <1>6, <1>7, <1>13 DEF OutgrowsBuffer, s, rest
<1>14. CASE n - 1 > NameMax /\ At(p) \in QuoteChars /\ RunAt(p + 1, n - 1, Chars \ {At(p), "\n"})
  BY <1>3, <1>6, <1>8, <1>14 DEF OutgrowsBuffer, s, rest, QuoteChars
<1> QED BY <1>10, <1>11, <1>12, <1>13, <1>14 DEF OutgrowsAt

\* Every token is a text of its kind and the longest there is, whatever the text, the
\* table and the buffer; what is unknown is of no kind, and what has no room is too long.
\* The kinds are the language the code takes (Fits), which is wider than the patterns of
\* blink_lexer.h: one-character names, a digit after the colon of a cname, "-0", one
\* hexadecimal digit or one too many.
THEOREM Longest == Spec => []TokensAreLongest
<1>1. ASSUME IInv PROVE TokensAreLongest
  <2> DEFINE start == token.start
             m == token.end - token.start
  <2>1. CASE token = NoToken
    <3>1. token.kind = "none"
      BY <2>1 DEF NoToken, Blank, Token
    <3> QED BY <3>1 DEF TokensAreLongest, Kinds
  <2>2. CASE CallAt(from, token)
    <3>1. text \in Texts /\ Len(text) \in Nat /\ start \in 0 .. Len(text) /\ RightAt(token)
      BY <1>1, <2>2, TextIs DEF IInv, CallAt
    <3>2. \A s : s \in Pieces <=> \E n \in Nat : Within(start, n) /\ s = Piece(start, n) /\ Len(s) = n
      BY <3>1, PiecesAre
    <3>3. \A n \in Nat, kind \in Kinds : Within(start, n) => (Fits(kind, Piece(start, n)) <=> FitsAt(kind, start, n))
      BY <3>1, FitsIs
    <3>4. ASSUME HexTooLongAt(start) PROVE HexTooLong
      <4>1. PICK n \in Nat : Within(start, n) /\ n > HexDigits + 3 /\ HexAt(start, n)
        BY <3>4 DEF HexTooLongAt
      <4> DEFINE s == Piece(start, n)
      <4>2. Fits("uint", s)
        BY <3>3, <4>1 DEF FitsAt, UIntAt, Kinds
      <4>3. s \in Pieces /\ Len(s) = n
        <5>1. n \in 0 .. Len(text) - start
          BY <3>1, <4>1 DEF Within
        <5>2. Len(s) = n
          BY <3>1, <5>1, PieceIs
        <5> QED BY <3>2, <4>1, <5>2
      <4>4. s[2] = "x"
        <5>1. n \in 0 .. Len(text) - start /\ 2 \in 1 .. n /\ start + 2 - 1 = start + 1
          BY <3>1, <4>1 DEF Within, HexAt
        <5>2. s[2] = At(start + 2 - 1)
          BY <3>1, <5>1, PieceIs
        <5> QED BY <4>1, <5>1, <5>2 DEF HexAt
      <4> HIDE DEF s
      <4> QED BY <4>1, <4>2, <4>3, <4>4 DEF HexTooLong
    <3>5. ASSUME token.kind \in Kinds
          PROVE  /\ Fits(token.kind, Taken) /\ Len(Taken) = m
                 /\ \A s \in Pieces, kind \in Kinds :
                     Fits(kind, s) => \/ Len(s) <= m
                                      \/ token.kind = "word" /\ kind = "name"
                                      \/ token.kind = "uint" /\ HexTooLong
      <4>1. KindRight(token)
        BY <3>1, <3>5 DEF RightAt
      <4>2. Within(start, m) /\ m \in Nat
        <5>1. token.end \in start + 1 .. Len(text)
          BY <2>2, <3>5 DEF CallAt, ReadAt, Kinds
        <5> QED BY <3>1, <5>1 DEF Within
      <4>3. Taken = Piece(start, m)
        BY DEF Taken
      <4>4. Fits(token.kind, Taken)
        BY <3>3, <3>5, <4>1, <4>2, <4>3 DEF KindRight
      <4>5. Len(Taken) = m
        <5>1. m \in 0 .. Len(text) - start
          BY <3>1, <4>2 DEF Within
        <5> QED BY <3>1, <4>3, <5>1, PieceIs
      <4>6. ASSUME NEW s \in Pieces, NEW kind \in Kinds, Fits(kind, s)
            PROVE  \/ Len(s) <= m
                   \/ token.kind = "word" /\ kind = "name"
                   \/ token.kind = "uint" /\ HexTooLong
        <5>1. PICK n \in Nat : Within(start, n) /\ s = Piece(start, n) /\ Len(s) = n
          BY <3>2, <4>6
        <5>2. FitsAt(kind, start, n)
          BY <3>3, <4>6, <5>1
        <5> QED BY <3>4, <4>1, <4>6, <5>1, <5>2 DEF KindRight
      <4> QED BY <4>4, <4>5, <4>6
    <3>6. ASSUME token.kind = "unknown", NEW s \in Pieces, NEW kind \in Kinds PROVE ~Fits(kind, s)
      <4>1. PICK n \in Nat : Within(start, n) /\ s = Piece(start, n)
        BY <3>2, <3>6
      <4>2. ~FitsAt(kind, start, n)
        BY <3>1, <3>6, <4>1 DEF RightAt, NoneAt
      <4> QED BY <3>3, <3>6, <4>1, <4>2
    <3>7. ASSUME token.kind = "enomem" PROVE \E s \in Pieces : OutgrowsBuffer(s)
      <4>1. PICK n \in Nat : Within(start, n) /\ OutgrowsAt(start, n)
        BY <3>1, <3>7 DEF RightAt, Outgrows
      <4>2. OutgrowsBuffer(Piece(start, n))
        BY <3>1, <4>1, OutgrowsIs
      <4>3. n \in 0 .. Len(text) - start
        BY <3>1, <4>1 DEF Within
      <4>4. Len(Piece(start, n)) = n
        BY <3>1, <4>3, PieceIs
      <4> QED BY <3>2, <4>1, <4>2, <4>4
    <3> QED BY <3>5, <3>6, <3>7 DEF TokensAreLongest
  <2> QED BY <1>1, <2>1, <2>2 DEF IInv
<1> QED BY <1>1, Invariance, PTL

\* The ends of lines before a place are as many, counted as characters or as positions.
LEMMA LinesAre ==
    ASSUME text \in Texts, NEW p \in 0 .. Len(text)
    PROVE  LET before == SubSeq(text, 1, p)
           IN  Cardinality({k \in DOMAIN before : before[k] = "\n"}) = Cardinality(NewLines(0, p))
<1> DEFINE before == SubSeq(text, 1, p)
           A == {k \in DOMAIN before : before[k] = "\n"}
           B == NewLines(0, p)
           f == [k \in A |-> k - 1]
<1>1. Len(text) \in Nat /\ p \in Nat
  BY TextIs
<1>2. DOMAIN before = 1 .. p /\ \A k \in 1 .. p : before[k] = At(k - 1)
  <2>1. before = Piece(0, p)
    BY DEF Piece
  <2>2. 0 \in 0 .. Len(text) /\ p \in 0 .. Len(text) - 0
    BY <1>1
  <2>3. DOMAIN Piece(0, p) = 1 .. p /\ \A k \in 1 .. p : Piece(0, p)[k] = At(0 + k - 1)
    BY <2>2, PieceIs
  <2> QED BY <2>1, <2>3
<1> HIDE DEF before
<1>3. \A k : k \in A <=> k \in 1 .. p /\ At(k - 1) = "\n"
  BY <1>2
<1>4. \A r : r \in B <=> r \in 0 .. p - 1 /\ At(r) = "\n"
  BY DEF NewLines
<1> HIDE DEF A, B
<1>5. f \in [A -> B] /\ \A k, l \in A : f[k] = f[l] => k = l
  BY <1>1, <1>3, <1>4
<1>6. \A r \in B : \E k \in A : f[k] = r
  <2> SUFFICES ASSUME NEW r \in B PROVE \E k \in A : f[k] = r
    OBVIOUS
  <2>1. r + 1 \in A /\ (r + 1) - 1 = r
    <3>1. r \in 0 .. p - 1 /\ At(r) = "\n"
      BY <1>4
    <3>2. r + 1 \in 1 .. p /\ (r + 1) - 1 = r
      BY <1>1, <3>1
    <3> QED BY <1>3, <3>1, <3>2
  <2>2. f[r + 1] = (r + 1) - 1
    BY <2>1
  <2> QED BY <2>1, <2>2
<1> HIDE DEF f
<1>7. IsFiniteSet(B)
  BY <1>1, NewLinesFinite DEF B
<1>8. f \in Bijection(A, B)
  BY <1>5, <1>6, Fun_IsBij
<1>9. IsFiniteSet(1 .. p) /\ A \subseteq 1 .. p
  BY <1>1, <1>3, FS_Interval
<1>10. IsFiniteSet(A)
  BY <1>9, FS_Subset
<1>11. ExistsBijection(A, B)
  BY <1>8 DEF ExistsBijection
<1>12. Cardinality(A) = Cardinality(B)
  BY <1>10, <1>11, FS_Bijection
<1> QED BY <1>12 DEF A, B, before

\* Nothing of a text is lost before a token or at its end, and the row is the token's row.
THEOREM OnlySpace == Spec => []OnlySpaceIsSkipped
<1>1. ASSUME IInv PROVE OnlySpaceIsSkipped
  <2> SUFFICES ASSUME token # NoToken PROVE OnlySpaceIsSkipped
    BY DEF OnlySpaceIsSkipped
  <2> DEFINE start == token.start
             skipped == SubSeq(text, from + 1, start)
             before == SubSeq(text, 1, start)
             n == start - from
  <2>1. /\ text \in Texts /\ Len(text) \in Nat /\ from \in 0 .. start /\ start \in 0 .. Len(text)
        /\ GapAt(from, start)
        /\ token.kind = "eof" => start = Len(text) \/ At(start) = "nul"
        /\ location.row = 1 + Cardinality(NewLines(0, start))
    BY <1>1, TextIs DEF IInv, CallAt
  <2>2. location.row = 1 + Cardinality({k \in DOMAIN before : before[k] = "\n"})
    BY <2>1, LinesAre
  <2>3. token.kind = "eof" => start = Len(text) \/ text[start + 1] = "nul"
    <3>1. start # Len(text) => start \in 0 .. Len(text) - 1
      BY <2>1
    <3>2. start # Len(text) => At(start) = text[start + 1]
      BY <2>1, <3>1, TextIs
    <3> QED BY <2>1, <3>2
  <2>4. n \in 0 .. Len(text) - from /\ from \in 0 .. Len(text) /\ from + n = start
    BY <2>1
  <2>5. skipped = Piece(from, n)
    BY <2>4 DEF Piece
  <2>6. skipped \in Seq(STRING \ {"end"}) /\ Len(skipped) = n /\ \A k \in 1 .. n : skipped[k] = At(from + k - 1)
    <3> HIDE DEF skipped, n, start
    <3> QED BY <2>1, <2>4, <2>5, PieceIs
  <2>7. PICK k \in 0 .. n :
            /\ RunAt(from, k, Separators)
            /\ k < n =>
                /\ At(from + k) = "#"
                /\ \A r \in from + k .. start - 2 : At(r) # "\n"
                /\ At(start - 1) = "\n" \/ start = Len(text)
    BY <2>1 DEF GapAt
  <2>8. All(SubSeq(skipped, 1, k), Separators)
    <3>1. /\ 1 \in 1 .. n + 1 /\ k \in 1 - 1 .. n /\ from + 1 - 1 = from /\ k - 1 + 1 = k
          /\ k \in 0 .. Len(text) - from
      BY <2>1, <2>4
    <3>2. SubSeq(Piece(from, n), 1, k) = Piece(from + 1 - 1, k - 1 + 1)
      BY <2>1, <2>4, <3>1, PartIs
    <3>3. All(Piece(from, k), Separators)
      BY <2>1, <2>4, <2>7, <3>1, AllIs
    <3> QED BY <2>5, <3>1, <3>2, <3>3
  <2>9. ASSUME k < n
        PROVE  /\ skipped[k + 1] = "#"
               /\ \A l \in k + 1 .. n - 1 : skipped[l] # "\n"
               /\ skipped[n] = "\n" \/ start = Len(text)
    <3> HIDE DEF skipped
    <3>1. k + 1 \in 1 .. n /\ n \in 1 .. n /\ from + (k + 1) - 1 = from + k /\ from + n - 1 = start - 1
      BY <2>1, <2>4, <2>9
    <3>2. skipped[k + 1] = "#" /\ (skipped[n] = "\n" \/ start = Len(text))
      BY <2>6, <2>7, <2>9, <3>1
    <3>3. ASSUME NEW l \in k + 1 .. n - 1 PROVE skipped[l] # "\n"
      <4>1. l \in 1 .. n /\ from + l - 1 \in from + k .. start - 2
        BY <2>1, <2>4
      <4> QED BY <2>6, <2>7, <2>9, <4>1
    <3> QED BY <3>2, <3>3
  <2> HIDE DEF skipped, before, n, start
  <2>10. \E l \in 0 .. Len(skipped) :
              /\ All(SubSeq(skipped, 1, l), Separators)
              /\ l < Len(skipped) =>
                  /\ skipped[l + 1] = "#"
                  /\ \A i \in l + 1 .. Len(skipped) - 1 : skipped[i] # "\n"
                  /\ skipped[Len(skipped)] = "\n" \/ start = Len(text)
    BY <2>6, <2>7, <2>8, <2>9
  <2> QED BY <2>2, <2>3, <2>10 DEF OnlySpaceIsSkipped, skipped, before, start
<1> QED BY <1>1, Invariance, PTL

-----------------------------------------------------------------------------
\* Numbers.

\* What holds of m and of the successor of each number it holds of, up to N.
LEMMA FromTo ==
    ASSUME NEW m \in Nat, NEW N \in Nat, NEW S,
           m \in S, \A n \in m .. (N - 1) : n \in S => n + 1 \in S
    PROVE  \A n \in m .. N : n \in S
<1> DEFINE T == {n \in m .. N : n \notin S}
<1> SUFFICES ASSUME T # {} PROVE FALSE
  OBVIOUS
<1>1. T \in SUBSET Nat
  OBVIOUS
<1>2. PICK k \in T : \A l \in T : k <= l
  <2> HIDE DEF T
  <2> QED BY <1>1, LeastOf
<1>3. k \in Nat /\ k # m /\ k - 1 \in m .. (N - 1) /\ k - 1 \notin T
  BY <1>2
<1> QED BY <1>3

\* Values of S, each made of the one before it and of its place.
IsRun(f, S, x, g, N) ==
    f \in [0 .. N -> S] /\ f[0] = x /\ \A n \in 1 .. N : f[n] = g[n][f[n - 1]]

\* A step that can be taken from every value can be taken any number of times.
LEMMA RunExists ==
    ASSUME NEW S, NEW x \in S, NEW N \in Nat, NEW g \in [1 .. N -> [S -> S]]
    PROVE  \E f : IsRun(f, S, x, g, N)
<1> DEFINE Upto(m, f) == f[0] = x /\ \A n \in 1 .. m : f[n] = g[n][f[n - 1]]
           Good == {m \in Nat : \E f \in [0 .. m -> S] : Upto(m, f)}
<1>1. 0 \in Good
  <2> DEFINE f == [n \in 0 .. 0 |-> x]
  <2>1. f \in [0 .. 0 -> S] /\ Upto(0, f)
    OBVIOUS
  <2> QED BY <2>1
<1>2. ASSUME NEW n \in 0 .. (N - 1), n \in Good PROVE n + 1 \in Good
  <2>1. PICK f \in [0 .. n -> S] : Upto(n, f)
    BY <1>2
  <2> DEFINE last == g[n + 1][f[n]]
             h == [k \in 0 .. (n + 1) |-> IF k = n + 1 THEN last ELSE f[k]]
  <2>2. last \in S
    <3>1. n + 1 \in 1 .. N /\ f[n] \in S
      OBVIOUS
    <3> QED BY <3>1
  <2>3. h \in [0 .. (n + 1) -> S] /\ h[n + 1] = last /\ \A k \in 0 .. n : h[k] = f[k]
    <3> HIDE DEF last
    <3> QED BY <2>2
  <2> HIDE DEF h
  <2>4. ASSUME NEW k \in 1 .. (n + 1) PROVE h[k] = g[k][h[k - 1]]
    <3>1. CASE k = n + 1
      BY <2>3, <3>1
    <3>2. CASE k # n + 1
      <4>1. k \in 1 .. n /\ k - 1 \in 0 .. n
        BY <3>2
      <4> QED BY <2>1, <2>3, <4>1
    <3> QED BY <3>1, <3>2
  <2>5. h[0] = x
    BY <2>1, <2>3
  <2>6. n + 1 \in Nat /\ h \in [0 .. (n + 1) -> S] /\ Upto(n + 1, h)
    BY <2>3, <2>4, <2>5
  <2> HIDE DEF Upto
  <2> QED BY <2>6
<1>3. N \in Good
  <2> HIDE DEF Good
  <2>1. \A n \in 0 .. N : n \in Good
    BY <1>1, <1>2, FromTo
  <2> QED BY <2>1
<1> QED BY <1>3 DEF IsRun

\* A number below the divisor is the remainder.
LEMMA RemainderIs ==
    ASSUME NEW M \in Nat, NEW c \in Nat, NEW r \in Nat, r < M
    PROVE  (c * M + r) % M = r
<1> DEFINE x == c * M + r
<1>1. x \in Nat /\ x = M * c + r
  OBVIOUS
<1> HIDE DEF x
<1>2. x % M = r
  BY <1>1
<1> QED BY <1>2 DEF x

\* A number is a multiple of the divisor, and its remainder.
LEMMA RemainderOf ==
    ASSUME NEW M \in Nat, M > 0, NEW a \in Nat
    PROVE  a % M \in 0 .. M - 1 /\ a % M \in Nat /\ \E c \in Nat : a = c * M + (a % M)
<1>1. a % M \in 0 .. M - 1
  OBVIOUS
<1>2. a \div M \in Nat
  OBVIOUS
<1>3. a = M * (a \div M) + (a % M)
  OBVIOUS
<1> DEFINE c == a \div M
           r == a % M
<1>4. a = M * c + r /\ c \in Nat
  BY <1>2, <1>3
<1> HIDE DEF c, r
<1>5. a = c * M + r
  BY <1>4
<1> QED BY <1>1, <1>4, <1>5 DEF r

\* A digit more is as good after the remainder as after the number.
Grows(M, a, b, d) == ((a % M) * b + d) % M = (a * b + d) % M

\* The remainder of a number with one more digit needs only that of the number.
LEMMA RemainderGrows ==
    ASSUME NEW M \in Nat, M > 0, NEW a \in Nat, NEW b \in Nat, NEW d \in Nat
    PROVE  Grows(M, a, b, d)
<1> DEFINE r == a % M
<1>1. r \in Nat
  BY RemainderOf
<1>2. PICK c \in Nat : a = c * M + r
  BY RemainderOf
<1> HIDE DEF r
<1> DEFINE y == r * b + d
           s == y % M
<1>3. y \in Nat
  BY <1>1
<1>4. s \in Nat
  <2> HIDE DEF y
  <2> QED BY <1>3, RemainderOf
<1>5. s < M
  <2> HIDE DEF y
  <2> QED BY <1>3
<1>6. PICK e \in Nat : y = e * M + s
  <2> HIDE DEF y
  <2> QED BY <1>3, RemainderOf
<1> DEFINE k == c * b + e
<1>7. k \in Nat
  OBVIOUS
<1>8. a * b + d = k * M + s
  <2> DEFINE z == c * b
             i == z * M
             j == e * M
  <2>1. a * b + d = i + y
    BY <1>1, <1>2
  <2>2. z \in Nat /\ i \in Nat /\ j \in Nat
    OBVIOUS
  <2>3. k * M = i + j
    OBVIOUS
  <2> HIDE DEF s, y, z, k, i, j
  <2>4. y = j + s
    BY <1>6 DEF j
  <2> QED BY <1>3, <1>4, <2>1, <2>2, <2>3, <2>4
<1> HIDE DEF k, s, y
<1>9. (k * M + s) % M = s
  BY <1>4, <1>5, <1>7, RemainderIs
<1>10. y % M = s
  BY DEF s
<1> QED BY <1>8, <1>9, <1>10 DEF y, r, Grows

\* The powers of a base.
LEMMA PowersAre ==
    ASSUME NEW base \in Nat, NEW n \in Nat
    PROVE  /\ Powers(base, n)[0] = 1
           /\ \A k \in 0 .. n : Powers(base, n)[k] \in Nat
           /\ \A k \in 1 .. n : Powers(base, n)[k] = base * Powers(base, n)[k - 1]
<1> DEFINE g == [k \in 1 .. n |-> [v \in Nat |-> base * v]]
           Eq(f) == f = [k \in 0 .. n |-> IF k = 0 THEN 1 ELSE base * f[k - 1]]
           power == CHOOSE f : Eq(f)
<1>1. g \in [1 .. n -> [Nat -> Nat]]
  OBVIOUS
<1>2. PICK f : IsRun(f, Nat, 1, g, n)
  <2>1. 1 \in Nat
    OBVIOUS
  <2> HIDE DEF g
  <2> QED BY <1>1, <2>1, RunExists
<1>3. f \in [0 .. n -> Nat] /\ f[0] = 1 /\ \A k \in 1 .. n : f[k] = g[k][f[k - 1]]
  BY <1>2 DEF IsRun
<1>4. ASSUME NEW k \in 0 .. n PROVE f[k] = IF k = 0 THEN 1 ELSE base * f[k - 1]
  <2>1. CASE k = 0
    BY <1>3, <2>1
  <2>2. CASE k # 0
    <3>1. k \in 1 .. n /\ k - 1 \in 0 .. n
      BY <2>2
    <3>2. f[k - 1] \in Nat /\ f[k] = g[k][f[k - 1]]
      BY <1>3, <3>1
    <3> QED BY <2>2, <3>1, <3>2
  <2> QED BY <2>1, <2>2
<1>5. f = [k \in 0 .. n |-> f[k]]
  BY <1>3
<1>6. Eq(f)
  BY <1>4, <1>5
<1> HIDE DEF Eq
<1>7. Eq(power)
  BY <1>6
<1>8. Powers(base, n) = power
  BY DEF Powers, Eq
<1> HIDE DEF power
<1>9. power = [k \in 0 .. n |-> IF k = 0 THEN 1 ELSE base * power[k - 1]]
  BY <1>7 DEF Eq
<1>10. power[0] = 1 /\ \A k \in 1 .. n : power[k] = base * power[k - 1]
  <2>1. 0 \in 0 .. n /\ \A k \in 1 .. n : k \in 0 .. n /\ k # 0
    OBVIOUS
  <2> QED BY <1>9, <2>1
<1> DEFINE S == {k \in 0 .. n : power[k] \in Nat}
<1>11. \A k \in 0 .. n : k \in S
  <2>1. 0 \in S
    BY <1>10
  <2>2. ASSUME NEW k \in 0 .. n - 1, k \in S PROVE k + 1 \in S
    <3> DEFINE l == k + 1
    <3>1. l \in 1 .. n /\ l \in 0 .. n /\ l - 1 = k
      OBVIOUS
    <3> HIDE DEF l
    <3>2. power[l] = base * power[k] /\ power[k] \in Nat
      BY <1>10, <2>2, <3>1
    <3> QED BY <3>1, <3>2 DEF l
  <2> HIDE DEF S
  <2> QED BY <2>1, <2>2, FromTo
<1> QED BY <1>8, <1>10, <1>11

\* The numbers there are, half of them for those that are negative.
LEMMA ModulusIs == Modulus \in Nat /\ \E half \in Nat : half > 0 /\ Modulus = 2 * half /\ Modulus \div 2 = half
<1> DEFINE n == HexDigits
           power == Powers(16, n)
<1>1. n \in Nat /\ n # 0
  BY LexerAssumption DEF LexerAssumption
<1>2. /\ power[0] = 1 /\ \A k \in 0 .. n : power[k] \in Nat
      /\ \A k \in 1 .. n : power[k] = 16 * power[k - 1]
  <2> DEFINE base == 16
  <2>1. base \in Nat
    OBVIOUS
  <2> HIDE DEF base, n
  <2>2. /\ Powers(base, n)[0] = 1 /\ \A k \in 0 .. n : Powers(base, n)[k] \in Nat
        /\ \A k \in 1 .. n : Powers(base, n)[k] = base * Powers(base, n)[k - 1]
    BY <1>1, <2>1, PowersAre
  <2> QED BY <2>2 DEF base
<1> HIDE DEF power, n
<1> DEFINE S == {k \in 0 .. n : power[k] > 0}
<1>3. \A k \in 0 .. n : k \in S
  <2>1. 0 \in S
    BY <1>1, <1>2
  <2>2. ASSUME NEW k \in 0 .. n - 1, k \in S PROVE k + 1 \in S
    <3> DEFINE l == k + 1
    <3>1. l \in 1 .. n /\ l \in 0 .. n /\ l - 1 = k /\ k \in 0 .. n
      BY <1>1
    <3> HIDE DEF l
    <3>2. power[l] = 16 * power[k] /\ power[k] \in Nat /\ power[k] > 0
      BY <1>2, <2>2, <3>1
    <3> QED BY <3>1, <3>2 DEF l
  <2> HIDE DEF S
  <2> QED BY <1>1, <2>1, <2>2, FromTo
<1>4. n - 1 \in 0 .. n /\ n \in 1 .. n
  BY <1>1
<1> DEFINE v == power[n - 1]
<1>5. v \in Nat /\ v > 0 /\ power[n] = 16 * v
  BY <1>2, <1>3, <1>4
<1>6. Modulus = power[n]
  BY DEF Modulus, power, n
<1> HIDE DEF v
<1>7. Modulus = 16 * v
  BY <1>5, <1>6
<1> DEFINE half == 8 * v
<1>8. half \in Nat /\ half > 0 /\ Modulus = 2 * half
  BY <1>5, <1>7
<1>9. Modulus \div 2 = half
  <2> HIDE DEF half
  <2> QED BY <1>8
<1> QED BY <1>8, <1>9

\* The value of a digit.
LEMMA DigitValueIs == \A c \in HexChars : DigitValue[c] \in Nat
<1> SUFFICES ASSUME NEW c \in HexChars PROVE DigitValue[c] \in Nat
  OBVIOUS
<1> DEFINE P(k) == HexOrder[k] = c
           place == CHOOSE k \in 1 .. 16 : P(k)
<1>1. \E k \in 1 .. 16 : P(k)
  BY DEF HexChars
<1>2. DigitValue[c] = place - 1
  BY DEF DigitValue
<1>3. place \in 1 .. 16
  <2> HIDE DEF P
  <2> QED BY <1>1
<1> HIDE DEF place
<1> QED BY <1>2, <1>3

\* The numbers that the first digits of the n from p on say, one after another.
IsHorner(h, p, n, base) ==
    /\ h \in [0 .. n -> Nat]
    /\ h[0] = 0
    /\ \A k \in 1 .. n : h[k] = h[k - 1] * base + DigitValue[At(p + k - 1)]

\* There are such numbers when they are digits.
LEMMA HornerExists ==
    ASSUME NEW p \in Nat, NEW n \in Nat, NEW base \in Nat, RunAt(p, n, HexChars)
    PROVE  \E h : IsHorner(h, p, n, base)
<1> DEFINE digit(k) == DigitValue[At(p + k - 1)]
           g == [k \in 1 .. n |-> [v \in Nat |-> v * base + digit(k)]]
<1>1. \A k \in 1 .. n : digit(k) \in Nat
  <2> SUFFICES ASSUME NEW k \in 1 .. n PROVE digit(k) \in Nat
    OBVIOUS
  <2>1. p + k - 1 \in p .. p + n - 1
    OBVIOUS
  <2>2. At(p + k - 1) \in HexChars
    BY <2>1 DEF RunAt
  <2> QED BY <2>2, DigitValueIs
<1> HIDE DEF digit
<1>2. \A k \in 1 .. n, v \in Nat : v * base + digit(k) \in Nat
  BY <1>1
<1>3. g \in [1 .. n -> [Nat -> Nat]]
  BY <1>2
<1>4. \A k \in 1 .. n, v \in Nat : g[k][v] = v * base + digit(k)
  OBVIOUS
<1>5. PICK h : IsRun(h, Nat, 0, g, n)
  <2> HIDE DEF g
  <2> QED BY <1>3, RunExists
<1>6. h \in [0 .. n -> Nat] /\ h[0] = 0 /\ \A k \in 1 .. n : h[k] = g[k][h[k - 1]]
  BY <1>5 DEF IsRun
<1> HIDE DEF g
<1>7. ASSUME NEW k \in 1 .. n PROVE h[k] = h[k - 1] * base + digit(k)
  <2>1. k - 1 \in 0 .. n
    OBVIOUS
  <2>2. h[k - 1] \in Nat
    BY <1>6, <2>1
  <2> QED BY <1>4, <1>6, <2>2
<1>8. IsHorner(h, p, n, base)
  BY <1>6, <1>7 DEF IsHorner, digit
<1> QED BY <1>8

\* The lexer's number is what the digits say, as far as it fits.
LEMMA NumberAtIs ==
    ASSUME NEW p \in Nat, NEW n \in Nat, NEW base \in Nat, RunAt(p, n, HexChars),
           NEW h, IsHorner(h, p, n, base)
    PROVE  NumberAt(p, p + n, base) = h[n] % Modulus
<1> DEFINE q == p + n
           mod == Modulus
           digit(k) == DigitValue[At(k - 1)]
           Eq(f) == f = [k \in p .. q |-> IF k = p THEN 0 ELSE (f[k - 1] * base + digit(k)) % mod]
           sum == CHOOSE f : Eq(f)
           f0 == [k \in p .. q |-> h[k - p] % mod]
<1>1. mod \in Nat /\ mod > 0
  BY ModulusIs
<1>2. NumberAt(p, q, base) = sum[q]
  BY DEF NumberAt
<1>3. \A k \in p + 1 .. q : digit(k) \in Nat
  <2> SUFFICES ASSUME NEW k \in p + 1 .. q PROVE digit(k) \in Nat
    OBVIOUS
  <2>1. k - 1 \in p .. p + n - 1
    OBVIOUS
  <2>2. At(k - 1) \in HexChars
    BY <2>1 DEF RunAt
  <2> QED BY <2>2, DigitValueIs
<1>4. h[0] = 0 /\ \A k \in p .. q : h[k - p] \in Nat
  BY DEF IsHorner
<1>5. \A k \in p + 1 .. q : h[k - p] = h[k - 1 - p] * base + digit(k) /\ h[k - 1 - p] \in Nat
  <2> SUFFICES ASSUME NEW k \in p + 1 .. q
               PROVE  h[k - p] = h[k - 1 - p] * base + digit(k) /\ h[k - 1 - p] \in Nat
    OBVIOUS
  <2> DEFINE i == k - p
  <2>1. i \in 1 .. n /\ i - 1 \in 0 .. n /\ p + i - 1 = k - 1 /\ i - 1 = k - 1 - p
    OBVIOUS
  <2> HIDE DEF i
  <2>2. h[i] = h[i - 1] * base + DigitValue[At(p + i - 1)] /\ h[i - 1] \in Nat
    BY <2>1 DEF IsHorner
  <2> QED BY <2>1, <2>2 DEF i
<1> HIDE DEF mod, digit
<1>6. ASSUME NEW k \in p .. q, k # p PROVE ((h[k - 1 - p] % mod) * base + digit(k)) % mod = h[k - p] % mod
  <2> DEFINE front == h[k - 1 - p]
             one == digit(k)
  <2>1. front \in Nat /\ one \in Nat /\ h[k - p] = front * base + one
    <3>1. k \in p + 1 .. q
      BY <1>6
    <3> QED BY <1>3, <1>5, <3>1
  <2> HIDE DEF front, one
  <2>2. Grows(mod, front, base, one)
    BY <1>1, <2>1, RemainderGrows
  <2>3. ((front % mod) * base + one) % mod = (front * base + one) % mod
    BY <2>2 DEF Grows
  <2> QED BY <2>1, <2>3 DEF front, one
<1>7. 0 % mod = 0
  BY <1>1
<1>8. ASSUME NEW k \in p .. q PROVE f0[k] = IF k = p THEN 0 ELSE (f0[k - 1] * base + digit(k)) % mod
  <2>1. CASE k = p
    <3>1. k - p = 0
      BY <2>1
    <3>2. f0[k] = h[0] % mod
      BY <3>1
    <3> QED BY <1>4, <1>7, <2>1, <3>2
  <2>2. CASE k # p
    <3>1. k - 1 \in p .. q
      BY <2>2
    <3>2. f0[k - 1] = h[k - 1 - p] % mod /\ f0[k] = h[k - p] % mod
      BY <3>1
    <3> HIDE DEF f0
    <3> QED BY <1>6, <2>2, <3>2
  <2> QED BY <2>1, <2>2
<1>9. f0 = [k \in p .. q |-> f0[k]]
  OBVIOUS
<1>10. Eq(f0)
  <2> HIDE DEF f0
  <2> QED BY <1>8, <1>9
<1>11. \A k \in p .. q : f0[k] = h[k - p] % mod
  OBVIOUS
<1> HIDE DEF Eq, f0
<1>12. Eq(sum)
  BY <1>10
<1> HIDE DEF sum
<1>13. \A k \in p .. q : sum[k] = IF k = p THEN 0 ELSE (sum[k - 1] * base + digit(k)) % mod
  BY <1>12 DEF Eq
<1> DEFINE S == {k \in p .. q : sum[k] = f0[k]}
<1>14. p \in S
  <2>1. p \in p .. q
    OBVIOUS
  <2> QED BY <1>8, <1>13, <2>1
<1>15. ASSUME NEW k \in p .. q - 1, k \in S PROVE k + 1 \in S
  <2> DEFINE l == k + 1
  <2>1. l \in p .. q /\ l # p /\ l - 1 = k
    OBVIOUS
  <2> HIDE DEF l
  <2>2. sum[l] = (sum[k] * base + digit(l)) % mod /\ f0[l] = (f0[k] * base + digit(l)) % mod /\ sum[k] = f0[k]
    BY <1>8, <1>13, <1>15, <2>1
  <2> QED BY <2>1, <2>2 DEF l
<1>16. sum[q] = f0[q]
  <2>1. q \in Nat /\ q \in p .. q
    OBVIOUS
  <2> HIDE DEF S, q
  <2>2. \A k \in p .. q : k \in S
    BY <1>14, <1>15, <2>1, FromTo
  <2>3. q \in S
    BY <2>1, <2>2
  <2> QED BY <2>3 DEF S
<1>17. f0[q] = h[n] % mod
  <2>1. q \in p .. q /\ q - p = n
    OBVIOUS
  <2> QED BY <1>11, <2>1
<1> QED BY <1>2, <1>16, <1>17 DEF mod

\* A number from its last digit on is the same as from its first one on.
LEMMA ValueIs ==
    ASSUME text \in Texts, NEW p \in 0 .. Len(text), NEW n \in 0 .. Len(text) - p, NEW base \in Nat,
           RunAt(p, n, HexChars), NEW h, IsHorner(h, p, n, base)
    PROVE  ValueOf(Piece(p, n), base) = h[n]
<1> DEFINE s == Piece(p, n)
           w == Powers(base, n)
           digit(k) == DigitValue[s[n + 1 - k]]
           step(v, k) == v + digit(k) * w[k - 1]
           Eq(f) == f = [k \in 0 .. n |-> IF k = 0 THEN 0 ELSE f[k - 1] + digit(k) * w[k - 1]]
           value == CHOOSE f : Eq(f)
           g == [k \in 1 .. n |-> [v \in Nat |-> v + digit(k) * w[k - 1]]]
<1>1. Len(text) \in Nat /\ n \in Nat /\ p \in Nat
  BY TextIs
<1>2. Len(s) = n /\ \A k \in 1 .. n : s[k] = At(p + k - 1)
  BY PieceIs
<1>3. ValueOf(s, base) = value[n]
  <2> HIDE DEF s
  <2> QED BY <1>2 DEF ValueOf
<1>4. /\ w[0] = 1
      /\ \A k \in 0 .. n : w[k] \in Nat
      /\ \A k \in 1 .. n : w[k] = base * w[k - 1]
  BY <1>1, PowersAre
<1>5. \A k \in 1 .. n : digit(k) = DigitValue[At(p + n - k)] /\ digit(k) \in Nat
  <2> SUFFICES ASSUME NEW k \in 1 .. n PROVE digit(k) = DigitValue[At(p + n - k)] /\ digit(k) \in Nat
    OBVIOUS
  <2>1. n + 1 - k \in 1 .. n /\ p + (n + 1 - k) - 1 = p + n - k /\ p + n - k \in p .. p + n - 1
    BY <1>1
  <2> HIDE DEF s
  <2>2. s[n + 1 - k] = At(p + n - k)
    BY <1>2, <2>1
  <2>3. At(p + n - k) \in HexChars
    BY <2>1 DEF RunAt
  <2> QED BY <2>2, <2>3, DigitValueIs
<1>6. /\ h[0] = 0 /\ h[n] \in Nat
      /\ \A k \in 1 .. n : /\ h[n - (k - 1)] = h[n - k] * base + DigitValue[At(p + n - k)]
                           /\ h[n - k] \in Nat
  <2>1. \A k \in 1 .. n : n - k \in 0 .. n /\ n - (k - 1) \in 1 .. n /\ n - (k - 1) - 1 = n - k
                          /\ p + (n - (k - 1)) - 1 = p + n - k
    BY <1>1
  <2> QED BY <1>1, <2>1 DEF IsHorner
<1> HIDE DEF w, digit, s
<1>7. g \in [1 .. n -> [Nat -> Nat]]
  <2>1. \A k \in 1 .. n : digit(k) \in Nat /\ w[k - 1] \in Nat
    BY <1>1, <1>4, <1>5
  <2>2. ASSUME NEW k \in 1 .. n, NEW v \in Nat PROVE v + digit(k) * w[k - 1] \in Nat
    <3> DEFINE a == digit(k)
               b == w[k - 1]
    <3>1. a \in Nat /\ b \in Nat
      BY <2>1
    <3> HIDE DEF a, b
    <3>2. v + a * b \in Nat
      BY <3>1
    <3> QED BY <3>2 DEF a, b
  <2> QED BY <2>2
<1>8. \A k \in 1 .. n, v \in Nat : g[k][v] = v + digit(k) * w[k - 1]
  OBVIOUS
<1>9. PICK f : IsRun(f, Nat, 0, g, n)
  <2> HIDE DEF g
  <2> QED BY <1>1, <1>7, RunExists
<1>10. f \in [0 .. n -> Nat] /\ f[0] = 0 /\ \A k \in 1 .. n : f[k] = g[k][f[k - 1]]
  BY <1>9 DEF IsRun
<1> HIDE DEF g
<1>11. ASSUME NEW k \in 0 .. n PROVE f[k] = IF k = 0 THEN 0 ELSE f[k - 1] + digit(k) * w[k - 1]
  <2>1. CASE k = 0
    BY <1>10, <2>1
  <2>2. CASE k # 0
    <3>1. k \in 1 .. n /\ k - 1 \in 0 .. n
      BY <1>1, <2>2
    <3>2. f[k - 1] \in Nat /\ f[k] = g[k][f[k - 1]]
      BY <1>10, <3>1
    <3>3. f[k] = f[k - 1] + digit(k) * w[k - 1]
      BY <1>8, <3>1, <3>2
    <3> QED BY <2>2, <3>3
  <2> QED BY <2>1, <2>2
<1>12. Eq(f)
  <2>1. f = [k \in 0 .. n |-> f[k]]
    BY <1>10
  <2> QED BY <1>11, <2>1
<1> HIDE DEF Eq
<1>13. Eq(value)
  BY <1>12
<1> HIDE DEF value
<1>14. \A k \in 0 .. n : value[k] = IF k = 0 THEN 0 ELSE value[k - 1] + digit(k) * w[k - 1]
  BY <1>13 DEF Eq
<1> DEFINE S == {k \in 0 .. n : value[k] \in Nat /\ h[n - k] * w[k] + value[k] = h[n]}
<1>15. 0 \in S
  <2>1. 0 \in 0 .. n /\ n - 0 = n
    BY <1>1
  <2>2. value[0] = 0
    BY <1>14, <2>1
  <2>3. h[n] * 1 + 0 = h[n]
    BY <1>6
  <2> QED BY <1>4, <2>1, <2>2, <2>3
<1>16. ASSUME NEW k \in 0 .. n - 1, k \in S PROVE k + 1 \in S
  <2> DEFINE l == k + 1
  <2>1. l \in 1 .. n /\ l \in 0 .. n /\ l - 1 = k /\ l # 0 /\ k \in 0 .. n
    BY <1>1
  <2> HIDE DEF l
  <2>2. /\ value[l] = value[k] + digit(l) * w[k] /\ w[l] = base * w[k]
        /\ h[n - k] = h[n - l] * base + digit(l)
        /\ h[n - k] * w[k] + value[k] = h[n]
        /\ h[n - l] \in Nat /\ digit(l) \in Nat /\ w[k] \in Nat /\ value[k] \in Nat
    BY <1>4, <1>5, <1>6, <1>14, <1>16, <2>1
  <2> DEFINE a == h[n - l]
             e == digit(l)
             u == w[k]
             v == value[k]
  <2>3. a \in Nat /\ e \in Nat /\ u \in Nat /\ v \in Nat
    BY <2>2
  <2>4. /\ value[l] = v + e * u /\ w[l] = base * u /\ (a * base + e) * u + v = h[n]
    BY <2>2
  <2> HIDE DEF a, e, u, v
  <2>5. a * (base * u) + (v + e * u) = (a * base + e) * u + v
    BY <2>3
  <2>6. v + e * u \in Nat
    BY <2>3
  <2>7. a * w[l] + value[l] = h[n] /\ value[l] \in Nat
    BY <2>4, <2>5, <2>6
  <2> QED BY <2>1, <2>7 DEF a, l
<1>17. n \in S
  <2> HIDE DEF S
  <2>1. \A k \in 0 .. n : k \in S
    BY <1>1, <1>15, <1>16, FromTo
  <2>2. n \in 0 .. n
    BY <1>1
  <2> QED BY <2>1, <2>2
<1>18. h[0] * w[n] + value[n] = h[n] /\ value[n] \in Nat
  <2>1. n - n = 0
    BY <1>1
  <2> QED BY <1>17, <2>1
<1>19. 0 * w[n] = 0
  <2>1. w[n] \in Nat
    BY <1>1, <1>4
  <2> QED BY <2>1
<1>20. value[n] = h[n]
  BY <1>6, <1>18, <1>19
<1> QED BY <1>3, <1>20 DEF s

\* The lexer's number is what the piece says that has the digits, as far as it fits.
LEMMA NumberIs ==
    ASSUME text \in Texts, NEW p \in 0 .. Len(text), NEW n \in 0 .. Len(text) - p, NEW base \in Nat,
           RunAt(p, n, HexChars)
    PROVE  NumberAt(p, p + n, base) = ValueOf(Piece(p, n), base) % Modulus /\ ValueOf(Piece(p, n), base) \in Nat
<1>1. p \in Nat /\ n \in Nat
  BY TextIs
<1>2. PICK h : IsHorner(h, p, n, base)
  BY <1>1, HornerExists
<1>3. NumberAt(p, p + n, base) = h[n] % Modulus
  BY <1>1, <1>2, NumberAtIs
<1>4. ValueOf(Piece(p, n), base) = h[n]
  BY <1>2, ValueIs
<1>5. h[n] \in Nat
  <2>1. n \in 0 .. n
    BY <1>1
  <2> QED BY <1>2, <2>1 DEF IsHorner
<1> QED BY <1>3, <1>4, <1>5

-----------------------------------------------------------------------------
\* What comes with the tokens.

\* ValuesAreExact, of a token whose characters are s in a text of n.
Exact(t, s, n) ==
    /\ t.kind = "cname" \/ (t.kind = "name" /\ t.end < n) =>
         t.len = Cardinality({k \in DOMAIN s : s[k] # "\\"}) /\ t.len <= NameMax
    /\ t.kind = "literal" => t.len = Len(s) - 2 /\ t.len <= NameMax
    /\ t.kind = "uint" /\ "x" \notin {s[k] : k \in DOMAIN s} => t.number = ValueOf(s, 10) % Modulus
    /\ t.kind = "uint" /\ "x" \in {s[k] : k \in DOMAIN s} => t.number = ValueOf(Beyond(s, 2), 16) % Modulus
    /\ t.kind = "int" /\ ValueOf(Beyond(s, 1), 10) <= Modulus \div 2 => t.number = -ValueOf(Beyond(s, 1), 10)
ExactAt(t) == Exact(t, Piece(t.start, t.end - t.start), Len(text))

\* The places of a token that was read, and its characters.
LEMMA TokenPieceIs ==
    ASSUME text \in Texts, NEW p \in 0 .. Len(text) - 1, NEW t, ReadAt(t, p)
    PROVE  /\ Len(text) \in Nat /\ t.end - p \in Nat /\ t.end - p >= 1 /\ t.end = p + (t.end - p)
           /\ p \in 0 .. Len(text) /\ t.end - p \in 0 .. Len(text) - p /\ t.start = p
           /\ t.end \in Nat
<1>1. Len(text) \in Nat
  BY TextIs
<1> QED BY <1>1 DEF ReadAt

\* The characters of a name but for its escape.
LEMMA CountIs ==
    ASSUME text \in Texts, NEW p \in 0 .. Len(text), NEW n \in 0 .. Len(text) - p, NEW a \in {0, 1}, a <= n,
           a = 1 => At(p) = "\\", \A r \in p + a .. p + n - 1 : At(r) # "\\"
    PROVE  Cardinality({k \in DOMAIN Piece(p, n) : Piece(p, n)[k] # "\\"}) = n - a
<1> DEFINE s == Piece(p, n)
           S == {k \in DOMAIN s : s[k] # "\\"}
<1>1. Len(text) \in Nat /\ p \in Nat /\ n \in Nat
  BY TextIs
<1>2. DOMAIN s = 1 .. n /\ \A k \in 1 .. n : s[k] = At(p + k - 1)
  BY PieceIs
<1> HIDE DEF s
<1>3. ASSUME NEW k \in 1 .. n PROVE s[k] # "\\" <=> k \in a + 1 .. n
  <2>1. CASE k \in a + 1 .. n
    <3>1. p + k - 1 \in p + a .. p + n - 1
      BY <1>1, <2>1
    <3> QED BY <1>2, <2>1, <3>1
  <2>2. CASE k \notin a + 1 .. n
    <3>1. a = 1 /\ k = 1 /\ p + k - 1 = p
      BY <1>1, <2>2
    <3>2. s[k] = At(p)
      BY <1>2, <3>1
    <3> QED BY <2>2, <3>1, <3>2
  <2> QED BY <2>1, <2>2
<1>4. S = a + 1 .. n
  <2>1. a + 1 .. n \subseteq 1 .. n
    OBVIOUS
  <2> QED BY <1>2, <1>3, <2>1
<1>5. Cardinality(a + 1 .. n) = n - a
  <2> DEFINE b == a + 1
  <2>1. b \in Int /\ n \in Int
    BY <1>1
  <2>2. (b > n => n - a = 0) /\ (b <= n => n - b + 1 = n - a)
    BY <1>1
  <2>3. Cardinality(b .. n) = IF b > n THEN 0 ELSE n - b + 1
    <3> HIDE DEF b
    <3> QED BY <2>1, FS_Interval
  <2> QED BY <1>1, <2>2, <2>3
<1> QED BY <1>4, <1>5 DEF s

\* A token that is no name, literal or number comes with nothing that could be wrong.
LEMMA OthersExact ==
    ASSUME NEW t, t.kind \notin {"name", "cname", "literal", "uint", "int"}
    PROVE  ExactAt(t)
BY DEF ExactAt, Exact

\* A name of two parts has its length.
LEMMA CNameExact ==
    ASSUME text \in Texts, NEW p \in 0 .. Len(text) - 1, NEW t \in IsCName(p), ReadAt(t, p), RightAt(t)
    PROVE  ExactAt(t)
<1> DEFINE colon == RunEnd(p, NameChars)
           end == RunEnd(colon + 1, NameChars)
           n == t.end - p
           s == Piece(p, n)
<1>1. t = Full(p, p) \/ (t = Token("cname", p, end, end - p, 0) /\ ~(end - p > NameMax))
  BY DEF IsCName
<1> HIDE DEF end
<1>2. CASE t = Full(p, p)
  <2>1. t.kind = "enomem"
    BY <1>2 DEF Full, Blank, Token
  <2> QED BY <2>1, OthersExact
<1>3. CASE t = Token("cname", p, end, end - p, 0) /\ ~(end - p > NameMax)
  <2>1. t.kind = "cname" /\ t.end = end /\ t.len = n
    BY <1>3 DEF Token
  <2>2. Len(text) \in Nat /\ n \in Nat /\ n >= 1 /\ p \in 0 .. Len(text) /\ n \in 0 .. Len(text) - p /\ t.start = p
    BY TokenPieceIs
  <2>3. n <= NameMax
    BY <1>3, <2>1, <2>2, BoundsAre
  <2>4. CNameAt(p, n)
    BY <2>1, <2>2 DEF RightAt, KindRight, Kinds, FitsAt
  <2> HIDE DEF n
  <2>5. ASSUME NEW r \in p .. p + n - 1 PROVE At(r) # "\\"
    <3>1. PICK k \in 2 .. n - 1 : At(p + k - 1) = ":" /\ NameAt(p, k - 1) /\ RunAt(p + k, n - k, NameChars)
      BY <2>4 DEF CNameAt
    <3>2. CASE r = p + k - 1
      BY <3>1, <3>2
    <3>3. CASE r \in p .. p + (k - 1) - 1
      BY <3>1, <3>3, CharsApart DEF NameAt, RunAt
    <3>4. CASE r \in p + k .. p + k + (n - k) - 1
      BY <3>1, <3>4, CharsApart DEF RunAt
    <3> QED BY <2>2, <3>2, <3>3, <3>4
  <2>6. Cardinality({k \in DOMAIN s : s[k] # "\\"}) = n
    <3> DEFINE a == 0
    <3>1. a \in {0, 1} /\ a <= n /\ a # 1 /\ p + a = p /\ n - a = n
      BY <2>2
    <3> HIDE DEF a
    <3>2. \A r \in p + a .. p + n - 1 : At(r) # "\\"
      BY <2>5, <3>1
    <3>3. Cardinality({k \in DOMAIN s : s[k] # "\\"}) = n - a
      BY <2>2, <3>1, <3>2, CountIs
    <3> QED BY <3>1, <3>3
  <2> HIDE DEF s
  <2>7. Exact(t, s, Len(text))
    BY <2>1, <2>3, <2>6 DEF Exact
  <2> QED BY <2>2, <2>7 DEF ExactAt, s, n
<1> QED BY <1>1, <1>2, <1>3

\* A name has its length, without its escape.
LEMMA NameExact ==
    ASSUME text \in Texts, NEW p \in 0 .. Len(text) - 1, NEW t \in IsName(p), ReadAt(t, p), RightAt(t)
    PROVE  ExactAt(t)
<1> DEFINE first == IF At(p) = "\\" THEN p + 1 ELSE p
           end == RunEnd(first, NameChars)
           length == IF end = Len(text) THEN 0 ELSE end - first
           n == t.end - p
           s == Piece(p, n)
<1>1. t = Full(p, first) \/ (t = Token("name", p, end, length, 0) /\ ~(end - first > NameMax))
  BY DEF IsName
<1> HIDE DEF end
<1>2. CASE t = Full(p, first)
  <2>1. t.kind = "enomem"
    BY <1>2 DEF Full, Blank, Token
  <2> QED BY <2>1, OthersExact
<1>3. CASE t = Token("name", p, end, length, 0) /\ ~(end - first > NameMax)
  <2>1. t.kind = "name" /\ t.end = end /\ t.len = length
    BY <1>3 DEF Token
  <2>2. /\ Len(text) \in Nat /\ n \in Nat /\ n >= 1 /\ p \in 0 .. Len(text) /\ n \in 0 .. Len(text) - p
        /\ t.start = p /\ t.end = p + n
    BY TokenPieceIs
  <2>3. NameAt(p, n) \/ EscapedAt(p, n)
    BY <2>1, <2>2 DEF RightAt, KindRight, Kinds, FitsAt
  <2> DEFINE a == first - p
  <2>4. a \in {0, 1} /\ a <= n /\ (a = 1 => At(p) = "\\") /\ first = p + a
    BY <2>2
  <2> HIDE DEF n
  <2>5. ASSUME NEW r \in p + a .. p + n - 1 PROVE At(r) # "\\"
    <3>1. CASE NameAt(p, n)
      <4>1. r \in p .. p + n - 1
        BY <2>2, <2>4
      <4> QED BY <3>1, <4>1, CharsApart DEF NameAt, RunAt
    <3>2. CASE EscapedAt(p, n)
      <4>1. a = 1 /\ RunAt(p + 1, n - 1, NameChars)
        BY <2>2, <3>2 DEF EscapedAt, NameAt
      <4>2. r \in p + 1 .. p + 1 + (n - 1) - 1
        BY <2>2, <4>1
      <4> QED BY <4>1, <4>2, CharsApart DEF RunAt
    <3> QED BY <2>3, <3>1, <3>2
  <2> HIDE DEF a
  <2>6. Cardinality({k \in DOMAIN s : s[k] # "\\"}) = n - a
    BY <2>2, <2>4, <2>5, CountIs
  <2>7. t.end < Len(text) => t.len = n - a /\ n - a <= NameMax
    <3> HIDE DEF first
    <3>1. end = p + n /\ end - first = n - a
      BY <2>1, <2>2, <2>4
    <3>2. n - a <= NameMax
      BY <1>3, <2>2, <2>4, <3>1, BoundsAre
    <3> QED BY <2>1, <2>2, <3>1, <3>2
  <2> HIDE DEF s
  <2>8. Exact(t, s, Len(text))
    BY <2>1, <2>6, <2>7 DEF Exact
  <2> QED BY <2>2, <2>8 DEF ExactAt, s, n
<1> QED BY <1>1, <1>2, <1>3

\* A literal has its length, without its quotes.
LEMMA LiteralExact ==
    ASSUME text \in Texts, NEW p \in 0 .. Len(text) - 1, NEW t \in IsLiteral(p), ReadAt(t, p), RightAt(t)
    PROVE  ExactAt(t)
<1> DEFINE end == RunEnd(p + 1, Chars \ {At(p), "\n"})
           n == t.end - p
           s == Piece(p, n)
<1>1. t = Full(p, p + 1) \/ (t = Token("literal", p, end + 1, end - (p + 1), 0) /\ ~(end - (p + 1) > NameMax))
  BY DEF IsLiteral
<1>2. CASE t = Full(p, p + 1)
  <2>1. t.kind = "enomem"
    BY <1>2 DEF Full, Blank, Token
  <2> QED BY <2>1, OthersExact
<1>3. CASE t = Token("literal", p, end + 1, end - (p + 1), 0) /\ ~(end - (p + 1) > NameMax)
  <2>1. p + 1 \in 0 .. Len(text) /\ "end" \notin Chars \ {At(p), "\n"}
    BY TextIs, NoRunHasTheEnd
  <2>2. end \in p + 1 .. Len(text)
    BY <2>1, RunEndIs
  <2> HIDE DEF end
  <2>3. t.kind = "literal" /\ t.end = end + 1 /\ t.len = end - (p + 1)
    BY <1>3 DEF Token
  <2>4. Len(text) \in Nat /\ n \in Nat /\ p \in 0 .. Len(text) /\ n \in 0 .. Len(text) - p /\ t.start = p
    BY TokenPieceIs
  <2>5. Len(s) = n
    BY <2>4, PieceIs
  <2>6. t.len = n - 2 /\ t.len <= NameMax
    BY <1>3, <2>2, <2>3, <2>4, BoundsAre
  <2> HIDE DEF s, n
  <2>7. Exact(t, s, Len(text))
    BY <2>3, <2>5, <2>6 DEF Exact
  <2> QED BY <2>4, <2>7 DEF ExactAt, s, n
<1> QED BY <1>1, <1>2, <1>3

\* A hexadecimal number is the one that is written, as far as it fits.
LEMMA HexNumberExact ==
    ASSUME text \in Texts, NEW p \in 0 .. Len(text) - 1, NEW t \in IsHexNumber(p), ReadAt(t, p)
    PROVE  ExactAt(t)
<1> DEFINE end == RunEnd(p + 2, HexChars)
           n == t.end - p
           s == Piece(p, n)
           x == p + 2
           m == n - 2
<1>1. t = Token("uint", p, end, 0, NumberAt(x, end, 16)) /\ At(p + 1) = "x" /\ At(x) \in HexChars
  BY DEF IsHexNumber
<1>2. Len(text) \in Nat /\ n \in Nat /\ p \in 0 .. Len(text) /\ n \in 0 .. Len(text) - p /\ t.start = p /\ t.end = p + n
  BY TokenPieceIs
<1>3. x \in 0 .. Len(text) - 1
  <2> SUFFICES ASSUME ~(x < Len(text)) PROVE FALSE
    BY <1>2
  <2>1. x \in Nat /\ x >= Len(text)
    BY <1>2
  <2>2. At(x) = "end"
    <3> HIDE DEF x
    <3> QED BY <2>1, TextIs
  <2> QED BY <1>1, <2>2, NoRunHasTheEnd
<1>4. end \in x .. Len(text) /\ RunAt(x, end - x, HexChars) /\ \A k \in Nat : RunAt(x, k, HexChars) => x + k <= end
  <2>1. x \in 0 .. Len(text)
    BY <1>2, <1>3
  <2> HIDE DEF x
  <2> QED BY <2>1, RunEndIs, NoRunHasTheEnd DEF x
<1>5. t.kind = "uint" /\ t.end = end /\ t.number = NumberAt(x, end, 16)
  BY <1>1 DEF Token
<1> HIDE DEF end
<1>6. RunAt(x, 1, HexChars)
  BY <1>1, <1>2 DEF RunAt
<1>7. x + 1 <= end
  BY <1>4, <1>6
<1>8. m \in Nat /\ m >= 1 /\ end = x + m /\ x \in 0 .. Len(text) /\ m \in 0 .. Len(text) - x /\ end - x = m
  BY <1>2, <1>3, <1>4, <1>5, <1>7
<1>9. t.number = ValueOf(Piece(x, m), 16) % Modulus
  <2> DEFINE base == 16
  <2>1. base \in Nat
    OBVIOUS
  <2> HIDE DEF base, x, m
  <2>2. NumberAt(x, x + m, base) = ValueOf(Piece(x, m), base) % Modulus
    BY <1>4, <1>8, <2>1, NumberIs
  <2> QED BY <1>5, <1>8, <2>2 DEF base
<1>10. Beyond(s, 2) = Piece(x, m)
  <2> DEFINE two == 2
  <2>1. two \in 0 .. n
    BY <1>2, <1>8
  <2> HIDE DEF two
  <2>2. Beyond(s, two) = Piece(p + two, n - two)
    BY <1>2, <2>1, RestIs
  <2> QED BY <2>2 DEF two
<1>11. "x" \in {s[k] : k \in DOMAIN s}
  <2>1. 2 \in 1 .. n /\ p + 2 - 1 = p + 1
    BY <1>2, <1>8
  <2>2. DOMAIN s = 1 .. n /\ s[2] = At(p + 2 - 1)
    BY <1>2, <2>1, PieceIs
  <2> HIDE DEF s
  <2> QED BY <1>1, <2>1, <2>2
<1> HIDE DEF s, n, m, x
<1>12. Exact(t, s, Len(text))
  BY <1>5, <1>9, <1>10, <1>11 DEF Exact
<1> QED BY <1>2, <1>12 DEF ExactAt, s, n

\* An unsigned number is the one that is written, as far as it fits.
LEMMA UnsignedNumberExact ==
    ASSUME text \in Texts, NEW p \in 0 .. Len(text) - 1, NEW t \in IsUnsignedNumber(p), ReadAt(t, p)
    PROVE  ExactAt(t)
<1> DEFINE end == RunEnd(p, Digits)
           n == t.end - p
           s == Piece(p, n)
<1>1. t = Token("uint", p, end, 0, NumberAt(p, end, 10))
  BY DEF IsUnsignedNumber
<1>2. Len(text) \in Nat /\ n \in Nat /\ p \in 0 .. Len(text) /\ n \in 0 .. Len(text) - p /\ t.start = p /\ t.end = p + n
  BY TokenPieceIs
<1>3. RunAt(p, end - p, Digits)
  BY <1>2, RunEndIs, NoRunHasTheEnd
<1>4. t.kind = "uint" /\ t.end = end /\ t.number = NumberAt(p, end, 10)
  BY <1>1 DEF Token
<1> HIDE DEF end
<1>5. RunAt(p, n, Digits)
  BY <1>3, <1>4
<1>6. RunAt(p, n, HexChars)
  BY <1>5, CharsApart DEF RunAt
<1>7. t.number = ValueOf(s, 10) % Modulus
  <2> DEFINE base == 10
  <2>1. base \in Nat
    OBVIOUS
  <2> HIDE DEF base, n
  <2>2. NumberAt(p, p + n, base) = ValueOf(s, base) % Modulus
    BY <1>2, <1>6, <2>1, NumberIs
  <2> QED BY <1>2, <1>4, <2>2 DEF base
<1>8. "x" \notin {s[k] : k \in DOMAIN s}
  <2>1. DOMAIN s = 1 .. n /\ \A k \in 1 .. n : s[k] = At(p + k - 1)
    BY <1>2, PieceIs
  <2> HIDE DEF s, n
  <2>2. ASSUME NEW k \in 1 .. n PROVE s[k] # "x"
    <3>1. p + k - 1 \in p .. p + n - 1
      BY <1>2
    <3>2. At(p + k - 1) \in Digits
      BY <1>5, <3>1 DEF RunAt
    <3>3. At(p + k - 1) # "x"
      BY <3>2, CharsApart
    <3> QED BY <2>1, <3>3
  <2> QED BY <2>1, <2>2
<1> HIDE DEF s, n
<1>9. Exact(t, s, Len(text))
  BY <1>4, <1>7, <1>8 DEF Exact
<1> QED BY <1>2, <1>9 DEF ExactAt, s, n

\* What is left of a negative number, as an integer of Modulus values, is the number when
\* half of them hold it.
LEMMA NegativeIs ==
    ASSUME NEW v \in Nat, v <= Modulus \div 2
    PROVE  SignedOf((-(v % Modulus)) % Modulus) = -v
<1> DEFINE all == Modulus
<1>1. PICK half \in Nat : half > 0 /\ all = 2 * half /\ all \div 2 = half
  BY ModulusIs
<1>2. all \in Nat /\ v <= half /\ v < all
  BY <1>1
<1> HIDE DEF all
<1>3. v % all = v
  BY <1>2
<1>4. CASE v = 0
  <2>1. (-v) % all = 0
    BY <1>1, <1>2, <1>4
  <2>2. SignedOf(0) = 0
    BY <1>1 DEF SignedOf, all
  <2> QED BY <1>3, <1>4, <2>1, <2>2 DEF all
<1>5. CASE v # 0
  <2> DEFINE u == all - v
  <2>1. (-v) % all = u
    BY <1>1, <1>2, <1>5
  <2>2. u >= half /\ u - all = -v
    BY <1>1, <1>2
  <2> HIDE DEF u
  <2>3. SignedOf(u) = -v
    BY <1>1, <2>2 DEF SignedOf, all
  <2> QED BY <1>3, <2>1, <2>3 DEF all
<1> QED BY <1>4, <1>5

\* A signed number is the one that is written when there is such an integer.
LEMMA SignedNumberExact ==
    ASSUME text \in Texts, NEW p \in 0 .. Len(text) - 1, NEW t \in IsSignedNumber(p), ReadAt(t, p), RightAt(t)
    PROVE  ExactAt(t)
<1> DEFINE first == IF At(p) = "-" THEN p + 1 ELSE p
           end == RunEnd(first, Digits)
           n == t.end - p
           s == Piece(p, n)
           x == p + 1
           m == n - 1
<1>1. t = Token("int", p, end, 0, SignedOf((-NumberAt(first, end, 10)) % Modulus))
  BY DEF IsSignedNumber
<1>2. /\ Len(text) \in Nat /\ n \in Nat /\ n >= 1 /\ p \in 0 .. Len(text) /\ n \in 0 .. Len(text) - p
      /\ t.start = p /\ t.end = p + n
  BY TokenPieceIs
<1>3. t.kind = "int" /\ t.end = end /\ t.number = SignedOf((-NumberAt(first, end, 10)) % Modulus)
  <2> HIDE DEF end
  <2> QED BY <1>1 DEF Token
<1> HIDE DEF end
<1>4. n > 1 /\ At(p) = "-" /\ RunAt(x, m, Digits)
  <2>1. IntAt(p, n)
    BY <1>2, <1>3 DEF RightAt, KindRight, Kinds, FitsAt
  <2> QED BY <2>1 DEF IntAt
<1>5. RunAt(x, m, HexChars)
  BY <1>4, CharsApart DEF RunAt
<1>6. first = x /\ end = x + m /\ x \in 0 .. Len(text) /\ m \in 0 .. Len(text) - x
  BY <1>2, <1>3, <1>4
<1> DEFINE v == ValueOf(Piece(x, m), 10)
<1>7. NumberAt(first, end, 10) = v % Modulus /\ v \in Nat
  <2> DEFINE base == 10
  <2>1. base \in Nat
    OBVIOUS
  <2> HIDE DEF base, x, m, first
  <2>2. NumberAt(x, x + m, base) = ValueOf(Piece(x, m), base) % Modulus /\ ValueOf(Piece(x, m), base) \in Nat
    BY <1>5, <1>6, <2>1, NumberIs
  <2> QED BY <1>6, <2>2 DEF base
<1>8. Beyond(s, 1) = Piece(x, m)
  <2> DEFINE one == 1
  <2>1. one \in 0 .. n
    BY <1>2
  <2> HIDE DEF one
  <2>2. Beyond(s, one) = Piece(p + one, n - one)
    BY <1>2, <2>1, RestIs
  <2> QED BY <2>2 DEF one
<1> HIDE DEF v, first
<1>9. v <= Modulus \div 2 => t.number = -v
  BY <1>3, <1>7, NegativeIs
<1> HIDE DEF s, n, x, m
<1>10. Beyond(s, 1) = Piece(x, m) /\ ValueOf(Beyond(s, 1), 10) = v
  BY <1>8 DEF v
<1>11. Exact(t, s, Len(text))
  BY <1>3, <1>9, <1>10 DEF Exact
<1> QED BY <1>2, <1>11 DEF ExactAt, s, n

\* What a recogniser gives is one of its tokens.
LEMMA RecogniseIs ==
    ASSUME NEW p, NEW t \in Recognise(p)
    PROVE  \/ t \in IsCName(p) \/ t \in StringToToken(p) \/ t \in IsLiteral(p) \/ t \in IsName(p)
           \/ t \in IsHexNumber(p) \/ t \in IsUnsignedNumber(p) \/ t \in IsSignedNumber(p)
           \/ t = Blank("unknown", p, p + 1)
<1> DEFINE u == Blank("unknown", p, p + 1)
           tried == <<IsCName(p), StringToToken(p), IsLiteral(p), IsName(p), IsHexNumber(p),
                      IsUnsignedNumber(p), IsSignedNumber(p), {u}>>
           First(k) == tried[k] # {} /\ \A l \in 1 .. k - 1 : tried[l] = {}
<1>1. t \in tried[CHOOSE k \in DOMAIN tried : First(k)]
  BY DEF Recognise
<1>2. DOMAIN tried = 1 .. 8
  OBVIOUS
<1>3. \E k \in 1 .. 8 : First(k)
  <2> DEFINE S == {k \in 1 .. 8 : tried[k] # {}}
  <2>1. 8 \in S
    <3>1. tried[8] = {u}
      OBVIOUS
    <3>2. tried[8] # {}
      <4> HIDE DEF tried
      <4> QED BY <3>1
    <3> HIDE DEF tried
    <3> QED BY <3>2
  <2> HIDE DEF tried
  <2>2. PICK k \in S : \A l \in S : k <= l
    <3>1. S \in SUBSET Nat
      OBVIOUS
    <3> HIDE DEF S
    <3> QED BY <2>1, <3>1, LeastOf
  <2>3. First(k)
    BY <2>2
  <2> QED BY <2>3
<1>4. PICK k \in 1 .. 8 : t \in tried[k]
  <2> HIDE DEF tried, First
  <2> QED BY <1>1, <1>2, <1>3
<1> QED BY <1>4

\* What the recognisers give is exact.
LEMMA RecogniseExact ==
    ASSUME text \in Texts, NEW p \in 0 .. Len(text) - 1, NEW t \in Recognise(p), ReadAt(t, p), RightAt(t)
    PROVE  ExactAt(t)
<1>1. ASSUME t \in StringToToken(p) PROVE ExactAt(t)
  <2>1. t.kind = "word"
    BY <1>1 DEF StringToToken, Blank, Token
  <2> QED BY <2>1, OthersExact
<1>2. ASSUME t = Blank("unknown", p, p + 1) PROVE ExactAt(t)
  <2>1. t.kind = "unknown"
    BY <1>2 DEF Blank, Token
  <2> QED BY <2>1, OthersExact
<1> QED BY <1>1, <1>2, RecogniseIs, CNameExact, LiteralExact, NameExact, HexNumberExact,
           UnsignedNumberExact, SignedNumberExact

\* A call leaves behind what is exact.
LEMMA GetTokenExact ==
    ASSUME IInv, GetToken
    PROVE  ExactAt(token')
<1> DEFINE start == AfterComment(AfterSpace)
<1>1. pos \in 0 .. Len(text) /\ Len(text) \in Nat /\ text \in Texts
  BY CallBegins DEF GetToken, IInv
<1>2. start \in pos .. Len(text)
  BY <1>1, GapIs
<1>3. token' \in CASE At(start) = "end" -> {Blank("eof", start, start)}
                   [] At(start) = "nul" -> {Blank("eof", start, start + 1)}
                   [] OTHER -> Recognise(start)
  BY DEF GetToken
<1> HIDE DEF start
<1>4. PICK t : t = token'
  OBVIOUS
<1>5. CASE At(start) = "end" \/ At(start) = "nul"
  <2>1. t \in {Blank("eof", start, start), Blank("eof", start, start + 1)}
    BY <1>3, <1>4, <1>5
  <2>2. t.kind = "eof"
    BY <2>1 DEF Blank, Token
  <2>3. ExactAt(t)
    BY <2>2, OthersExact
  <2> QED BY <1>4, <2>3
<1>6. CASE At(start) # "end" /\ At(start) # "nul"
  <2>1. t \in Recognise(start)
    BY <1>3, <1>4, <1>6
  <2>2. start \in 0 .. Len(text) - 1
    <3>1. At(Len(text)) = "end"
      BY <1>1, TextIs
    <3> QED BY <1>1, <1>2, <1>6, <3>1
  <2>3. ReadAt(t, start) /\ RightAt(t)
    BY <1>1, <2>1, <2>2, RecogniseRight
  <2>4. ExactAt(t)
    BY <1>1, <2>1, <2>2, <2>3, RecogniseExact
  <2> QED BY <1>4, <2>4
<1> QED BY <1>5, <1>6

\* The value that comes with a token is the whole of its text, without quotes and escape,
\* and a number is the one that is written as far as it fits, whatever the text and however
\* many digits numbers and characters names have room for.
THEOREM ValuesExact == Spec => []ValuesAreExact
<1>1. Init => ExactAt(token)
  <2> SUFFICES ASSUME Init PROVE ExactAt(token)
    OBVIOUS
  <2>1. token.kind = "none"
    BY DEF Init, NoToken, Blank, Token
  <2> QED BY <2>1, OthersExact
<1>2. IInv /\ ExactAt(token) /\ [Next]_vars => ExactAt(token)'
  <2> SUFFICES ASSUME IInv, ExactAt(token), [Next]_vars PROVE ExactAt(token)'
    OBVIOUS
  <2>1. text' = text
    BY DEF Next, GetToken, vars
  <2>2. \A t : ExactAt(t)' <=> ExactAt(t)
    <3>1. \A p, n : Piece(p, n)' = Piece(p, n)
      BY <2>1 DEF Piece
    <3> QED BY <2>1, <3>1 DEF ExactAt
  <2>3. CASE GetToken
    <3>1. PICK t : t = token'
      OBVIOUS
    <3>2. ExactAt(t)
      BY <2>3, <3>1, GetTokenExact
    <3>3. ExactAt(t)'
      BY <2>2, <3>2
    <3> QED BY <3>1, <3>3
  <2>4. CASE UNCHANGED vars
    <3>1. PICK t : t = token
      OBVIOUS
    <3>2. ExactAt(t)'
      BY <2>2, <3>1
    <3> QED BY <2>4, <3>1, <3>2 DEF vars
  <2> QED BY <2>3, <2>4 DEF Next
<1>3. ExactAt(token) => ValuesAreExact
  <2> SUFFICES ASSUME ExactAt(token) PROVE ValuesAreExact
    OBVIOUS
  <2>1. Exact(token, Taken, Len(text))
    BY DEF ExactAt, Taken
  <2> QED BY <2>1 DEF Exact, ValuesAreExact
<1> QED BY <1>1, <1>2, <1>3, Invariance, PTL DEF Spec

-----------------------------------------------------------------------------
\* No call is made for ever: a call that gives a token has read at least one character
\* of the text, and none is read beyond its end.
THEOREM TokensTakeCharacters ==
    Spec => [][pos' \in pos .. Len(text) /\ (token'.kind # "eof" => pos' > pos)]_vars
<1>1. IInv /\ [Next]_vars => [pos' \in pos .. Len(text) /\ (token'.kind # "eof" => pos' > pos)]_vars
  <2> SUFFICES ASSUME IInv, GetToken PROVE pos' \in pos .. Len(text) /\ (token'.kind # "eof" => pos' > pos)
    BY DEF Next
  <2>1. pos \in Nat /\ Len(text) \in Nat
    BY CallBegins DEF GetToken
  <2>2. PICK t : t = token'
    OBVIOUS
  <2>3. CallAt(pos, t) /\ pos' = t.end
    BY <2>2, GetTokenRight DEF GetToken
  <2>4. pos \in 0 .. t.start /\ t.start \in 0 .. Len(text) /\ t.end \in t.start .. Len(text)
    BY <2>3 DEF CallAt
  <2>5. t.kind # "eof" => t.end \in t.start + 1 .. Len(text)
    BY <2>3 DEF CallAt, ReadAt
  <2> QED BY <2>1, <2>2, <2>3, <2>4, <2>5
<1> QED BY <1>1, Invariance, PTL DEF Spec
=============================================================================
