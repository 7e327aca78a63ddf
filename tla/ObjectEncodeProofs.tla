------------------------- MODULE ObjectEncodeProofs -------------------------
(***************************************************************************)
(* Proofs about the object that is filled and encoded, for every schema,   *)
(* every value set and every order of calls.                               *)
(***************************************************************************)
EXTENDS ObjectEncode, FiniteSetTheorems, FunctionTheorems, SequenceTheorems, TLAPS

\* The strings: what is allocated has an id below the next one, a slot refers to no
\* block or to one that is allocated, and no two slots to the same.
SlotsHold ==
    /\ \A k \in DOMAIN slots :
          /\ {"init", "val", "block"} \subseteq DOMAIN slots[k]
          /\ slots[k].block = NoBlock \/ slots[k].block \in live
    /\ \A k, l \in DOMAIN slots :
          k # l /\ slots[k].block = slots[l].block => slots[k].block = NoBlock

IInv ==
    /\ next \in Nat \ {0}
    /\ live \subseteq 1 .. (next - 1)
    /\ phase = "use" => SlotsHold

\* A setter of a number, a decimal or a group leaves the strings where they are.
LEMMA SetKeepsBlocks ==
    ASSUME SlotsHold, NEW k, NEW val, Set(k, val), live' = live
    PROVE  SlotsHold'
<1>1. slots' = [slots EXCEPT ![k].init = TRUE, ![k].val = val]
  BY DEF Set
<1>2. DOMAIN slots' = DOMAIN slots
  BY <1>1
<1>3. ASSUME NEW l \in DOMAIN slots
      PROVE  /\ slots'[l].block = slots[l].block
             /\ {"init", "val", "block"} \subseteq DOMAIN slots'[l]
  BY <1>1 DEF SlotsHold
<1> QED BY <1>2, <1>3 DEF SlotsHold

\* A string set gets a block of its own.
LEMMA SetTextKeepsBlocks ==
    ASSUME IInv, phase = "use", NEW k, NEW text, SetText(k, text)
    PROVE  IInv'
<1>1. phase' = phase
  BY DEF SetText
<1>2. CASE UNCHANGED <<slots, live, next>>
  BY <1>1, <1>2 DEF IInv, SlotsHold
<1>3. CASE /\ slots' = [slots EXCEPT ![k] = [init |-> TRUE, val |-> text, block |-> next]]
           /\ live' = live \union {next}
           /\ next' = next + 1
  <2>1. next \notin live /\ next # NoBlock /\ next' \in Nat \ {0} /\ live' \subseteq 1 .. (next' - 1)
    BY <1>3 DEF IInv, NoBlock
  <2>2. DOMAIN slots' = DOMAIN slots
    BY <1>3
  <2>3. ASSUME NEW l \in DOMAIN slots, l # k PROVE slots'[l] = slots[l]
    BY <1>3, <2>3
  <2>4. k \in DOMAIN slots =>
            slots'[k].block = next /\ {"init", "val", "block"} \subseteq DOMAIN slots'[k]
    BY <1>3
  <2>5. SlotsHold
    BY DEF IInv
  <2>6. \A l \in DOMAIN slots' :
            /\ {"init", "val", "block"} \subseteq DOMAIN slots'[l]
            /\ slots'[l].block = NoBlock \/ slots'[l].block \in live'
    BY <1>3, <2>2, <2>3, <2>4, <2>5 DEF SlotsHold
  <2>7. ASSUME NEW l \in DOMAIN slots', NEW m \in DOMAIN slots', l # m,
               slots'[l].block = slots'[m].block
        PROVE  slots'[l].block = NoBlock
    <3>1. CASE l # k /\ m # k
      BY <2>2, <2>3, <2>5, <2>7, <3>1 DEF SlotsHold
    <3>2. CASE l = k
      BY <2>1, <2>2, <2>3, <2>4, <2>5, <2>7, <3>2 DEF SlotsHold
    <3>3. CASE m = k
      BY <2>1, <2>2, <2>3, <2>4, <2>5, <2>7, <3>3 DEF SlotsHold
    <3> QED BY <3>1, <3>2, <3>3
  <2>8. SlotsHold'
    BY <2>6, <2>7 DEF SlotsHold
  <2> QED BY <2>1, <2>8 DEF IInv
<1> QED BY <1>2, <1>3 DEF SetText

\* Clearing a field leaves its string with it.
LEMMA ClearKeepsBlocks ==
    ASSUME SlotsHold, NEW k, slots' = [slots EXCEPT ![k].init = FALSE], live' = live
    PROVE  SlotsHold'
<1>1. DOMAIN slots' = DOMAIN slots
  OBVIOUS
<1>2. ASSUME NEW l \in DOMAIN slots
      PROVE  /\ slots'[l].block = slots[l].block
             /\ {"init", "val", "block"} \subseteq DOMAIN slots'[l]
  BY DEF SlotsHold
<1> QED BY <1>1, <1>2 DEF SlotsHold

\* Every step keeps the invariant.
LEMMA NextKeeps == IInv /\ [Next]_vars => IInv'
<1> SUFFICES ASSUME IInv, [Next]_vars PROVE IInv'
  OBVIOUS
<1>1. ASSUME NEW k \in Named, NEW word \in Words, SetNumber(k, word) PROVE IInv'
  BY <1>1, SetKeepsBlocks DEF SetNumber, IInv
<1>2. ASSUME NEW k \in Named, NEW m \in Words, NEW e \in Words, SetDecimal(k, m, e) PROVE IInv'
  BY <1>2, SetKeepsBlocks DEF SetDecimal, IInv
<1>3. ASSUME NEW k \in Named, NEW text \in Texts, SetText(k, text) PROVE IInv'
  BY <1>3, SetTextKeepsBlocks DEF SetText
<1>4. ASSUME NEW op, Crash(op) PROVE IInv'
  BY <1>4 DEF Crash, IInv
<1>5. ASSUME NEW k \in Named, SetBool(k) \/ SetEnum(k) PROVE IInv'
  BY <1>4, <1>5 DEF SetBool, SetEnum
<1>6. ASSUME NEW k \in Named, SetGroup(k) PROVE IInv'
  <2>1. CASE Crash("setGroup")
    BY <1>4, <2>1
  <2>2. CASE Set(k, Garbage) /\ UNCHANGED <<phase, live, next>>
    BY <2>2, SetKeepsBlocks DEF IInv
  <2> QED BY <1>6, <2>1, <2>2 DEF SetGroup
<1>7. ASSUME NEW k \in Named, Clear(k) PROVE IInv'
  BY <1>7, ClearKeepsBlocks DEF Clear, IInv
<1>8. CASE Encode
  BY <1>8 DEF Encode, IInv, SlotsHold
<1>9. CASE EncodeCrash
  BY <1>4, <1>9 DEF EncodeCrash
<1>10. CASE EncodeRefused \/ UNCHANGED vars
  BY <1>10 DEF EncodeRefused, vars, IInv, SlotsHold
<1>11. CASE Destroy
  <2>1. phase' # "use" /\ next' = next /\ live' \subseteq live
    BY <1>11 DEF Destroy
  <2> QED BY <2>1 DEF IInv
<1> QED BY <1>1, <1>2, <1>3, <1>5, <1>6, <1>7, <1>8, <1>9, <1>10, <1>11 DEF Next

\* A new object refers to no string.
LEMMA InitHolds == Init => IInv
<1> SUFFICES ASSUME Init PROVE IInv
  OBVIOUS
<1>1. \A k \in DOMAIN slots : slots[k] = Blank(fields[k])
  BY DEF Init
<1>2. SlotsHold
  BY <1>1 DEF SlotsHold, Blank
<1> QED BY <1>2 DEF Init, IInv

\* The strings the fields refer to are allocated, one block to a field, after any
\* calls of the setters, of clear and of encodeCompact, with any failures of the
\* allocator: setting a field again leaks its old string but never shares it.
THEOREM OwnedLive == Spec => []OwnedStringsAreLive
<1>1. Init => IInv
  BY InitHolds
<1>2. IInv => OwnedStringsAreLive
  BY DEF IInv, SlotsHold, OwnedStringsAreLive, Owned
<1> QED BY <1>1, <1>2, NextKeeps, PTL DEF Spec

-----------------------------------------------------------------------------
\* The compact form: what is proved of it, of a codec that sends nothing.

NoValues(kind) == {}
C == INSTANCE CompactProofs WITH
        word <- 0, Kinds <- {}, ValuesOf <- NoValues, MaxItems <- 0,
        sent <- <<>>, marks <- <<>>, partial <- "none", in <- 0, got <- <<>>

\* The definitions of the compact form are those this module extends.
LEMMA SameModulus == C!Modulus = Modulus
BY DEF Modulus, C!Modulus, ValuesIn, C!ValuesIn

\* The size of a word.
LEMMA SameSizeof ==
    ASSUME NEW w, NEW isSigned PROVE C!Sizeof(w, isSigned) = Sizeof(w, isSigned)
BY DEF Sizeof, C!Sizeof, SizeofSigned, C!SizeofSigned, SizeofUnsigned, C!SizeofUnsigned,
       FewestBytes, C!FewestBytes, ValuesIn, C!ValuesIn, AsSigned, C!AsSigned,
       Modulus, C!Modulus, Half, C!Half

\* The encoding of a word.
LEMMA SameEncoding ==
    ASSUME NEW w, NEW isSigned PROVE C!EncodeVLC(w, isSigned) = EncodeVLC(w, isSigned)
BY SameSizeof DEF EncodeVLC, C!EncodeVLC, VLCBytes, C!VLCBytes, ValuesIn, C!ValuesIn

\* The word that some bytes are the encoding of.
LEMMA SameWords ==
    ASSUME NEW isSigned
    PROVE  /\ \A first : C!OneByte(first, isSigned) = OneByte(first, isSigned)
           /\ \A first, second : C!TwoBytes(first, second, isSigned) = TwoBytes(first, second, isSigned)
           /\ \A bytes : C!CountedBytes(bytes, isSigned) = CountedBytes(bytes, isSigned)
BY DEF OneByte, C!OneByte, TwoBytes, C!TwoBytes, CountedBytes, C!CountedBytes,
       ShiftSix, C!ShiftSix, ShiftByte, C!ShiftByte, Modulus, C!Modulus, ValuesIn, C!ValuesIn

\* What is read of a stream.
LEMMA SameReading ==
    /\ \A s, n : C!BufferRead(s, n) = BufferRead(s, n)
    /\ \A mem, pos, n : C!BytesAt(mem, pos, n) = BytesAt(mem, pos, n)
BY DEF BufferRead, C!BufferRead, ReadFits, C!ReadFits, Room, C!Room, UintMinus, C!UintMinus,
       UINT_MAX, C!UINT_MAX, BytesAt, C!BytesAt

\* What DecodeVLC makes of two reads.
Decoded(r1, first, more, r2, rest, isSigned) ==
    CASE ~r1.ok -> Failed(r1.s)
      [] r1.ok /\ first < 128 -> Value(OneByte(first, isSigned), r1.s)
      [] r1.ok /\ first = 192 -> Null(r1.s)
      [] r1.ok /\ first > 192 /\ more > WORD_BYTES -> Failed(r1.s)
      [] r1.ok /\ first \in (128 .. 191) \union (193 .. (192 + WORD_BYTES)) ->
            IF ~r2.ok THEN Failed(r2.s)
            ELSE IF first < 192 THEN Value(TwoBytes(first, rest[1], isSigned), r2.s)
            ELSE Value(CountedBytes(rest, isSigned), r2.s)

\* What is decoded.
LEMMA SameDecoding ==
    ASSUME NEW s, NEW isSigned PROVE C!DecodeVLC(s, isSigned) = DecodeVLC(s, isSigned)
<1> DEFINE first == s.mem[s.pos]
           more == IF first < 192 THEN 1 ELSE first - 192
           r == BufferRead(s, 1)
           q == C!BufferRead(s, 1)
<1>1. DecodeVLC(s, isSigned) =
        Decoded(r, first, more, BufferRead(r.s, more), BytesAt(r.s.mem, r.s.pos, more), isSigned)
  BY DEF DecodeVLC, Decoded
<1>2. /\ C!OneByte(first, isSigned) = OneByte(first, isSigned)
      /\ \A second : C!TwoBytes(first, second, isSigned) = TwoBytes(first, second, isSigned)
      /\ \A bytes : C!CountedBytes(bytes, isSigned) = CountedBytes(bytes, isSigned)
  BY SameWords
<1>3. \A v, t : C!Value(v, t) = Value(v, t) /\ C!Null(t) = Null(t) /\ C!Failed(t) = Failed(t)
  BY DEF Failed, C!Failed, Null, C!Null, Value, C!Value
<1>4. C!DecodeVLC(s, isSigned) =
        Decoded(q, first, more, C!BufferRead(q.s, more), C!BytesAt(q.s.mem, q.s.pos, more), isSigned)
  <2> DEFINE r2 == C!BufferRead(q.s, more)
             rest == C!BytesAt(q.s.mem, q.s.pos, more)
             many == IF ~r2.ok THEN C!Failed(r2.s)
                     ELSE IF first < 192 THEN C!Value(C!TwoBytes(first, rest[1], isSigned), r2.s)
                     ELSE C!Value(C!CountedBytes(rest, isSigned), r2.s)
             result == CASE ~q.ok -> C!Failed(q.s)
                         [] q.ok /\ first < 128 -> C!Value(C!OneByte(first, isSigned), q.s)
                         [] q.ok /\ first = 192 -> C!Null(q.s)
                         [] q.ok /\ first > 192 /\ more > WORD_BYTES -> C!Failed(q.s)
                         [] q.ok /\ first \in (128 .. 191) \union (193 .. (192 + WORD_BYTES)) -> many
  <2>1. C!DecodeVLC(s, isSigned) = result
    BY DEF C!DecodeVLC
  <2> HIDE DEF q, first, more, r2, rest
  <2>2. many = IF ~r2.ok THEN Failed(r2.s)
               ELSE IF first < 192 THEN Value(TwoBytes(first, rest[1], isSigned), r2.s)
               ELSE Value(CountedBytes(rest, isSigned), r2.s)
    <3>1. /\ C!TwoBytes(first, rest[1], isSigned) = TwoBytes(first, rest[1], isSigned)
          /\ C!CountedBytes(rest, isSigned) = CountedBytes(rest, isSigned)
      BY <1>2
    <3>2. C!Failed(r2.s) = Failed(r2.s) /\ \A v : C!Value(v, r2.s) = Value(v, r2.s)
      BY <1>3
    <3> QED BY <3>1, <3>2
  <2>3. /\ C!Failed(q.s) = Failed(q.s) /\ C!Null(q.s) = Null(q.s)
        /\ C!Value(C!OneByte(first, isSigned), q.s) = Value(OneByte(first, isSigned), q.s)
    BY <1>2, <1>3
  <2> HIDE DEF many
  <2>4. result = Decoded(q, first, more, r2, rest, isSigned)
    BY <2>2, <2>3 DEF Decoded
  <2> QED BY <2>1, <2>4 DEF r2, rest
<1>5. q = r /\ \A n : C!BufferRead(r.s, n) = BufferRead(r.s, n)
            /\ C!BytesAt(r.s.mem, r.s.pos, n) = BytesAt(r.s.mem, r.s.pos, n)
  BY SameReading
<1> HIDE DEF q, r, first, more
<1> QED BY <1>1, <1>4, <1>5

\* What is written.
LEMMA SameWriting ==
    ASSUME NEW s, NEW chunks PROVE C!WriteAll(s, chunks) = WriteAll(s, chunks)
BY DEF WriteAll, C!WriteAll, BufferWrite, C!BufferWrite, WriteFits, C!WriteFits,
       Written, C!Written, Room, C!Room, UintMinus, C!UintMinus, UINT_MAX, C!UINT_MAX

\* The bytes of a word are as many as its size.
LEMMA EncodedIs ==
    ASSUME NEW w \in 0 .. Modulus - 1, NEW isSigned \in BOOLEAN
    PROVE  /\ EncodeVLC(w, isSigned) \in Seq(Nat)
           /\ Len(EncodeVLC(w, isSigned)) = Sizeof(w, isSigned)
           /\ Sizeof(w, isSigned) \in 1 .. WORD_BYTES + 1
<1>1. w \in 0 .. C!Modulus - 1
  BY SameModulus
<1>2. /\ C!EncodeVLC(w, isSigned) \in Seq(Nat)
      /\ Len(C!EncodeVLC(w, isSigned)) = C!Sizeof(w, isSigned)
      /\ C!Sizeof(w, isSigned) \in 1 .. WORD_BYTES + 1
  BY <1>1, C!EncodedIs, EncodeAssumption, WordBytesAssumption, IntMaxAssumption
<1> QED BY <1>2, SameSizeof, SameEncoding

\* No writes take nothing.
LEMMA NoneTake == C!Takes(<<>>, 0)
BY C!NoneTake, EncodeAssumption, WordBytesAssumption, IntMaxAssumption

\* A write takes its bytes.
LEMMA OneTakes ==
    ASSUME NEW d \in Seq(Nat) PROVE C!Takes(<<d>>, Len(d))
BY C!OneTakes, EncodeAssumption, WordBytesAssumption, IntMaxAssumption

\* Some writes and others take what both take.
LEMMA BothTake ==
    ASSUME NEW a, NEW m, C!Takes(a, m), NEW b, NEW n, C!Takes(b, n)
    PROVE  C!Takes(a \o b, m + n)
BY C!BothTake, EncodeAssumption, WordBytesAssumption, IntMaxAssumption

\* The message that s wrote up to r, as a decoder has it.
MessageAt(s, r) == [NewBuffer(TRUE, FALSE, r.s.mem, r.s.pos) EXCEPT !.pos = s.pos]

\* A size written ahead of what it is the size of.
LEMMA AnnouncedIsRead ==
    ASSUME NEW s, C!Writer(s), NEW size \in 0 .. Modulus - 1, NEW body, C!Takes(body, size)
    PROVE  LET r == WriteAll(s, <<EncodeVLC(size, FALSE)>> \o body)
               d == DecodeVLC(MessageAt(s, r), FALSE)
           IN  /\ C!Keeps(s, r.s)
               /\ IF r.ok THEN d.ok /\ d.val = r.s.pos - d.s.pos
                          ELSE d.ok => d.val > r.s.pos - d.s.pos
<1> DEFINE r == WriteAll(s, <<EncodeVLC(size, FALSE)>> \o body)
           q == C!WriteAll(s, <<C!EncodeVLC(size, FALSE)>> \o body)
           d == DecodeVLC(MessageAt(s, r), FALSE)
           e == C!DecodeVLC(C!MessageAt(s, q), FALSE)
<1>1. size \in 0 .. C!Modulus - 1
  BY SameModulus
<1>2. /\ C!Keeps(s, q.s)
      /\ IF q.ok THEN e.ok /\ e.val = q.s.pos - e.s.pos
                 ELSE e.ok => e.val > q.s.pos - e.s.pos
  BY <1>1, C!AnnouncedIsRead, EncodeAssumption, WordBytesAssumption, IntMaxAssumption
<1>3. q = r
  BY SameEncoding, SameWriting
<1>4. C!MessageAt(s, q) = MessageAt(s, r)
  <2> HIDE DEF q, r
  <2> QED BY <1>3 DEF MessageAt, C!MessageAt, NewBuffer, C!NewBuffer
<1>5. e = d
  BY <1>4, SameDecoding
<1> HIDE DEF q, r, e, d
<1>6. C!Keeps(s, r.s) /\ IF r.ok THEN d.ok /\ d.val = r.s.pos - d.s.pos
                                  ELSE d.ok => d.val > r.s.pos - d.s.pos
  BY <1>2, <1>3, <1>5
<1> QED BY <1>6 DEF r, d

\* Values of S, each made of the one before it and of its place.
IsBuilt(f, S, x, g, N) ==
    f \in [0 .. N -> S] /\ f = [k \in 0 .. N |-> IF k = 0 THEN x ELSE g[k][f[k - 1]]]

\* A step that can be taken from every value defines a function.
LEMMA Built ==
    ASSUME NEW S, NEW x \in S, NEW N \in Nat, NEW g \in [1 .. N -> [S -> S]]
    PROVE  \E f : IsBuilt(f, S, x, g, N)
<1>1. PICK f : C!IsRun(f, S, x, g, N)
  BY C!RunExists, EncodeAssumption, WordBytesAssumption, IntMaxAssumption
<1>2. f \in [0 .. N -> S] /\ f[0] = x /\ \A n \in 1 .. N : f[n] = g[n][f[n - 1]]
  BY <1>1 DEF C!IsRun
<1>3. ASSUME NEW k \in 0 .. N PROVE f[k] = IF k = 0 THEN x ELSE g[k][f[k - 1]]
  <2>1. CASE k = 0
    BY <1>2, <2>1
  <2>2. CASE k # 0
    <3>1. k \in 1 .. N
      BY <2>2
    <3> QED BY <1>2, <2>2, <3>1
  <2> QED BY <2>1, <2>2
<1> DEFINE h == [k \in 0 .. N |-> IF k = 0 THEN x ELSE g[k][f[k - 1]]]
<1>4. h = [k \in 0 .. N |-> f[k]]
  BY <1>3
<1>5. f = [k \in 0 .. N |-> f[k]]
  BY <1>2
<1>6. f = h
  BY <1>4, <1>5
<1>7. IsBuilt(f, S, x, g, N)
  BY <1>2, <1>6 DEF IsBuilt
<1> QED BY <1>7

\* What holds of the first number and of the one after each it holds of, up to N.
LEMMA FromTo ==
    ASSUME NEW N \in Nat, NEW S, 0 \in S, \A n \in 0 .. (N - 1) : n \in S => n + 1 \in S
    PROVE  \A n \in 0 .. N : n \in S
BY C!FromTo, EncodeAssumption, WordBytesAssumption, IntMaxAssumption

-----------------------------------------------------------------------------
\* The fields of an object.

\* The values a function takes on an interval are finitely many.
LEMMA ValuesAreFinite ==
    ASSUME NEW m, NEW n \in Nat PROVE IsFiniteSet({m[k] : k \in 1 .. n})
<1> DEFINE T == {m[k] : k \in 1 .. n}
           f == [k \in 1 .. n |-> m[k]]
<1>1. f \in [1 .. n -> T] /\ \A t \in T : \E k \in 1 .. n : f[k] = t
  OBVIOUS
<1> HIDE DEF f, T
<1>2. f \in Surjection(1 .. n, T)
  BY <1>1, Fun_IsSurj
<1>3. IsFiniteSet(T)
  BY <1>2, FS_Interval, FS_Surjection
<1> QED BY <1>3 DEF T

\* The remainder of a division is below the divisor.
LEMMA Remainder ==
    ASSUME NEW a \in Nat, NEW n \in Nat, n > 0 PROVE a % n \in 0 .. (n - 1)
OBVIOUS

\* A fixed is mandatory, or a sequence: cacheSize forgets the presence byte of an optional one.
Counted(field) == field.type = "fixed" => ~field.opt \/ field.seq
FixedsAreCounted == \A g \in Groups : OwnFields[g] \in Seq({field \in Fields : Counted(field)})

\* The fields of an object are fields of its group.
LEMMA FieldsAre ==
    ASSUME NEW S, NEW g \in Groups, OwnFields[g] \in Seq(S)
    PROVE  EachField(g) \in Seq(S)
<1> DEFINE own == OwnFields[g]
           n == Len(own)
           depth == NumberOfSuperGroup(g) + 1
<1>1. own \in Seq(S) /\ n \in Nat
  OBVIOUS
<1>2. depth \in Nat
  <2>1. Cardinality(Groups) \in Nat
    BY SchemaAssumption, FS_CardinalityType
  <2>2. IsFiniteSet(Ancestors(g))
    BY <2>1, ValuesAreFinite, FS_Difference DEF Ancestors
  <2>3. NumberOfSuperGroup(g) \in Nat
    BY <2>2, FS_CardinalityType DEF NumberOfSuperGroup
  <2> QED BY <2>3
<1>3. EachField(g) = [k \in 1 .. (depth * n) |-> own[((k - 1) % n) + 1]]
  BY DEF EachField
<1>4. \A j \in 1 .. n : own[j] \in S
  BY <1>1
<1> HIDE DEF own, n, depth
<1>5. depth * n \in Nat
  BY <1>1, <1>2
<1>6. ASSUME NEW k \in 1 .. (depth * n) PROVE own[((k - 1) % n) + 1] \in S
  <2>1. n > 0
    <3>1. ASSUME n = 0 PROVE FALSE
      <4>1. depth * n = 0
        BY <1>2, <3>1
      <4> QED BY <4>1
    <3> QED BY <1>1, <3>1
  <2>2. k - 1 \in Nat
    BY <1>5
  <2>3. (k - 1) % n \in 0 .. n - 1
    BY <1>1, <2>1, <2>2, Remainder
  <2>4. ((k - 1) % n) + 1 \in 1 .. n
    BY <1>1, <2>3
  <2> QED BY <1>4, <2>4
<1> DEFINE f == [k \in 1 .. (depth * n) |-> own[((k - 1) % n) + 1]]
<1>7. f \in [1 .. (depth * n) -> S]
  BY <1>6
<1> HIDE DEF f
<1>8. f \in Seq(S)
  BY <1>5, <1>7
<1> QED BY <1>3, <1>8 DEF f

\* A field that is set has a value of its type. A number can be put in a field that holds a
\* sequence, and anything in one that holds a group.
FieldHolds(field, slot) ==
    slot.init =>
        \/ field.type \in {"number", "u16", "signed", "f64"} /\ slot.val \in Words
        \/ /\ field.type = "decimal" /\ ~field.seq /\ slot.val \in Words \X Words
           /\ AsSigned(slot.val[2]) \in -128 .. 127
        \/ /\ field.type \in {"string", "fixed"} /\ ~field.seq /\ slot.val \in Texts
           /\ field.type = "fixed" => Len(slot.val) = field.size
        \/ field.type = "static"

\* What cacheSize follows as a pointer.
IsPoisoned(field, slot) == slot.init /\ (field.type = "static" \/ (field.seq /\ slot.val # 0))

\* A bound on the bytes of a field, if no text is longer than most.
MostOfField(most) == most + 2 * (WORD_BYTES + 1)

\* One and another.
LEMMA TwoInARow ==
    ASSUME NEW d \in Seq(Nat), NEW e \in Seq(Nat) PROVE <<d>> \o <<e>> = <<d, e>>
<1> DEFINE S == Seq(Nat)
<1>1. <<d>> \in Seq(S) /\ <<e>> \in Seq(S)
  OBVIOUS
<1> HIDE DEF S
<1>2. Len(<<d>>) = 1 /\ Len(<<e>>) = 1 /\ <<d>>[1] = d /\ <<e>>[1] = e
  OBVIOUS
<1> DEFINE s == <<d>> \o <<e>>
           t == <<d, e>>
<1>3. s \in Seq(S) /\ Len(s) = 2 /\ s[1] = d /\ s[2] = e
  BY <1>1, <1>2
<1>4. t \in Seq(S) /\ Len(t) = 2 /\ t[1] = d /\ t[2] = e
  BY DEF S
<1> HIDE DEF s, t
<1>5. \A k \in 1 .. Len(s) : s[k] = t[k]
  BY <1>3, <1>4
<1>6. s = t
  BY <1>3, <1>4, <1>5, SeqEqual
<1> QED BY <1>6 DEF s, t

\* Two writes take the sum of their lengths.
LEMMA TwoTake ==
    ASSUME NEW d \in Seq(Nat), NEW e \in Seq(Nat) PROVE C!Takes(<<d, e>>, Len(d) + Len(e))
<1>1. <<d>> \o <<e>> = <<d, e>>
  BY TwoInARow
<1>2. C!Takes(<<d>>, Len(d)) /\ C!Takes(<<e>>, Len(e))
  BY OneTakes
<1>3. C!Takes(<<d>> \o <<e>>, Len(d) + Len(e))
  BY <1>2, BothTake
<1> QED BY <1>1, <1>3

\* Writes that take a number of bytes, which is no more than some field takes.
TakesNoMore(chunks, n, most) == C!Takes(chunks, n) /\ n \in 0 .. MostOfField(most)

\* A width of a word, and what it says about sizes.
LEMMA Bounds ==
    ASSUME NEW most \in Nat
    PROVE  /\ Modulus \in Nat /\ 0 \in 0 .. Modulus - 1
           /\ \A k \in 1 .. WORD_BYTES + 1, l \in 1 .. WORD_BYTES + 1 :
                 k \in 0 .. MostOfField(most) /\ k + l \in 0 .. MostOfField(most)
           /\ \A k \in 1 .. WORD_BYTES + 1, n \in 0 .. most :
                 n \in 0 .. MostOfField(most) /\ k + n \in 0 .. MostOfField(most)
           /\ 1 \in 0 .. MostOfField(most)
<1>1. WORD_BYTES \in Nat /\ WORD_BYTES >= 2
  BY WordBytesAssumption
<1>2. C!Modulus \in Nat /\ C!Modulus > 0
  BY C!Words, EncodeAssumption, WordBytesAssumption, IntMaxAssumption
<1>3. Modulus \in Nat /\ 0 \in 0 .. Modulus - 1
  BY <1>2, SameModulus
<1> DEFINE W == WORD_BYTES + 1
<1>4. W \in Nat /\ W >= 3
  BY <1>1
<1> HIDE DEF W
<1>5. /\ \A k \in 1 .. W, l \in 1 .. W :
            k \in 0 .. (most + 2 * W) /\ k + l \in 0 .. (most + 2 * W)
      /\ \A k \in 1 .. W, n \in 0 .. most :
            n \in 0 .. (most + 2 * W) /\ k + n \in 0 .. (most + 2 * W)
      /\ 1 \in 0 .. (most + 2 * W)
  BY <1>4
<1> QED BY <1>3, <1>5 DEF W, MostOfField

\* The encoding of a word takes its size.
LEMMA WordTakes ==
    ASSUME NEW most \in Nat, NEW w \in 0 .. Modulus - 1, NEW isSigned \in BOOLEAN
    PROVE  TakesNoMore(<<EncodeVLC(w, isSigned)>>, Sizeof(w, isSigned), most)
<1> DEFINE d == EncodeVLC(w, isSigned)
           k == Sizeof(w, isSigned)
<1>1. d \in Seq(Nat) /\ Len(d) = k /\ k \in 1 .. WORD_BYTES + 1
  BY EncodedIs
<1> HIDE DEF d, k
<1>2. C!Takes(<<d>>, k)
  BY <1>1, OneTakes
<1>3. k \in 0 .. MostOfField(most)
  BY <1>1, Bounds
<1> QED BY <1>2, <1>3 DEF TakesNoMore, d, k

\* An exponent and a mantissa take their sizes.
LEMMA DecimalTakes ==
    ASSUME NEW most \in Nat, NEW v \in 0 .. Modulus - 1, NEW w \in 0 .. Modulus - 1
    PROVE  TakesNoMore(<<EncodeVLC(v, TRUE), EncodeVLC(w, TRUE)>>, Sizeof(v, TRUE) + Sizeof(w, TRUE), most)
<1> DEFINE d == EncodeVLC(v, TRUE)
           e == EncodeVLC(w, TRUE)
           k == Sizeof(v, TRUE)
           l == Sizeof(w, TRUE)
<1>1. /\ d \in Seq(Nat) /\ Len(d) = k /\ k \in 1 .. WORD_BYTES + 1
      /\ e \in Seq(Nat) /\ Len(e) = l /\ l \in 1 .. WORD_BYTES + 1
  BY EncodedIs
<1> HIDE DEF d, e, k, l
<1>2. C!Takes(<<d, e>>, k + l)
  BY <1>1, TwoTake
<1>3. k + l \in 0 .. MostOfField(most)
  BY <1>1, Bounds
<1> QED BY <1>2, <1>3 DEF TakesNoMore, d, e, k, l

\* What is known of a text.
LEMMA TextIs ==
    ASSUME NEW text \in Texts PROVE text \in Seq(Nat)
<1>1. text \in Seq(0 .. 255)
  BY EncodeAssumption
<1>2. 0 .. 255 \subseteq Nat
  OBVIOUS
<1> QED BY <1>1, <1>2, SeqMonotonic

\* A text takes its length, after that of the length.
LEMMA TextTakes ==
    ASSUME NEW most \in Nat, most < Modulus, NEW text \in Texts, Len(text) <= most
    PROVE  /\ TakesNoMore(<<text>>, Len(text), most)
           /\ TakesNoMore(<<EncodeVLC(Len(text), FALSE), text>>,
                          Sizeof(Len(text), FALSE) + Len(text), most)
<1> DEFINE n == Len(text)
           d == EncodeVLC(n, FALSE)
           k == Sizeof(n, FALSE)
<1>1. text \in Seq(Nat)
  BY TextIs
<1>2. n \in 0 .. most
  BY <1>1
<1>3. Len(text) = n
  OBVIOUS
<1> HIDE DEF n
<1>4. Modulus \in Nat
  BY Bounds
<1>5. n \in 0 .. Modulus - 1
  BY <1>2, <1>4
<1>6. d \in Seq(Nat) /\ Len(d) = k /\ k \in 1 .. WORD_BYTES + 1
  BY <1>5, EncodedIs
<1> HIDE DEF d, k
<1>7. C!Takes(<<text>>, n) /\ C!Takes(<<d, text>>, k + n)
  BY <1>1, <1>3, <1>6, OneTakes, TwoTake
<1>8. n \in 0 .. MostOfField(most) /\ k + n \in 0 .. MostOfField(most)
  BY <1>2, <1>6, Bounds
<1>9. TakesNoMore(<<text>>, n, most) /\ TakesNoMore(<<d, text>>, k + n, most)
  BY <1>7, <1>8 DEF TakesNoMore
<1> QED BY <1>9 DEF n, d, k

\* The null and the empty list take a byte.
LEMMA ByteTakes ==
    ASSUME NEW most \in Nat
    PROVE  TakesNoMore(<<EncodeNull>>, 1, most) /\ TakesNoMore(<<EncodeVLC(0, FALSE)>>, 1, most)
<1>1. EncodeNull \in Seq(Nat) /\ Len(EncodeNull) = 1
  BY DEF EncodeNull
<1>2. C!Takes(<<EncodeNull>>, 1)
  BY <1>1, OneTakes
<1>3. 1 \in 0 .. MostOfField(most) /\ 0 \in 0 .. Modulus - 1
  BY Bounds
<1>4. Sizeof(0, FALSE) = 1
  BY DEF Sizeof, SizeofUnsigned
<1>5. TakesNoMore(<<EncodeVLC(0, FALSE)>>, Sizeof(0, FALSE), most)
  BY <1>3, WordTakes
<1> QED BY <1>2, <1>3, <1>4, <1>5 DEF TakesNoMore

\* A double is written as its bits.
LEMMA DoubleChunks ==
    ASSUME NEW field, field.type = "f64", NEW val PROVE ValueChunks(field, val) = <<EncodeVLC(val, FALSE)>>
<1>1. EncodeF64(DoubleOfBits(val)) = EncodeVLC(val, FALSE)
  BY DEF EncodeF64, DoubleOfBits
<1> QED BY <1>1 DEF ValueChunks

\* The writes of a field take the bytes that cacheSize counts.
LEMMA FieldTakes ==
    ASSUME NEW most \in Nat, most < Modulus, \A text \in Texts : Len(text) <= most,
           NEW field, Counted(field), NEW slot, FieldHolds(field, slot),
           ~IsPoisoned(field, slot)
    PROVE  TakesNoMore(Chunks(field, slot), CachedSize(field, slot), most)
<1> DEFINE Goal == TakesNoMore(Chunks(field, slot), CachedSize(field, slot), most)
<1>1. ASSUME ~slot.init PROVE Goal
  <2>1. Chunks(field, slot) = <<EncodeNull>> /\ CachedSize(field, slot) = 1
    BY <1>1 DEF Chunks, CachedSize
  <2> QED BY <2>1, ByteTakes
<1>2. ASSUME slot.init, field.seq PROVE Goal
  <2>1. Chunks(field, slot) = <<EncodeVLC(0, FALSE)>> /\ CachedSize(field, slot) = 1
    BY <1>2 DEF Chunks, CachedSize
  <2> QED BY <2>1, ByteTakes
<1>3. ASSUME slot.init, ~field.seq PROVE Goal
  <2> DEFINE val == slot.val
  <2>1. Chunks(field, slot) = ValueChunks(field, val)
    BY <1>3 DEF Chunks
  <2>2. ASSUME field.type \in {"number", "u16", "f64"}, val \in Words PROVE Goal
    <3>1. ValueChunks(field, val) = <<EncodeVLC(val, FALSE)>>
      BY <2>2, DoubleChunks DEF ValueChunks
    <3>2. CachedSize(field, slot) = Sizeof(val, FALSE)
      BY <1>3, <2>2 DEF CachedSize, Sizeof
    <3>3. val \in 0 .. Modulus - 1
      BY <2>2, EncodeAssumption
    <3> QED BY <2>1, <3>1, <3>2, <3>3, WordTakes
  <2>3. ASSUME field.type = "signed", val \in Words PROVE Goal
    <3>1. ValueChunks(field, val) = <<EncodeVLC(val, TRUE)>>
      BY <2>3 DEF ValueChunks
    <3>2. CachedSize(field, slot) = Sizeof(val, TRUE)
      BY <1>3, <2>3 DEF CachedSize, Sizeof
    <3>3. val \in 0 .. Modulus - 1
      BY <2>3, EncodeAssumption
    <3> QED BY <2>1, <3>1, <3>2, <3>3, WordTakes
  <2>4. ASSUME field.type = "decimal", val \in Words \X Words PROVE Goal
    <3>1. ValueChunks(field, val) = <<EncodeVLC(val[2], TRUE), EncodeVLC(val[1], TRUE)>>
      BY <2>4 DEF ValueChunks
    <3>2. CachedSize(field, slot) = Sizeof(val[2], TRUE) + Sizeof(val[1], TRUE)
      BY <1>3, <2>4 DEF CachedSize, Sizeof
    <3>3. val[1] \in 0 .. Modulus - 1 /\ val[2] \in 0 .. Modulus - 1
      BY <2>4, EncodeAssumption
    <3> QED BY <2>1, <3>1, <3>2, <3>3, DecimalTakes
  <2>5. ASSUME field.type = "string", val \in Texts PROVE Goal
    <3>1. ValueChunks(field, val) = <<EncodeVLC(Len(val), FALSE), val>>
      BY <2>5 DEF ValueChunks
    <3>2. CachedSize(field, slot) = Sizeof(Len(val), FALSE) + Len(val)
      BY <1>3, <2>5 DEF CachedSize, Sizeof
    <3> QED BY <2>1, <2>5, <3>1, <3>2, TextTakes
  <2>6. ASSUME field.type = "fixed", val \in Texts PROVE Goal
    <3>1. ~field.opt
      BY <1>3, <2>6 DEF Counted
    <3>2. ValueChunks(field, val) = <<>> \o <<val>>
      BY <2>6, <3>1 DEF ValueChunks
    <3>3. <<>> \o <<val>> = <<val>>
      OBVIOUS
    <3>4. CachedSize(field, slot) = Len(val)
      BY <1>3, <2>6 DEF CachedSize
    <3> QED BY <2>1, <2>6, <3>2, <3>3, <3>4, TextTakes
  <2>7. \/ field.type \in {"number", "u16", "signed", "f64"} /\ val \in Words
        \/ field.type = "decimal" /\ val \in Words \X Words
        \/ field.type \in {"string", "fixed"} /\ val \in Texts
    BY <1>3 DEF FieldHolds, IsPoisoned
  <2> HIDE DEF Goal, val
  <2> QED BY <2>2, <2>3, <2>4, <2>5, <2>6, <2>7
<1> HIDE DEF Goal
<1>4. Goal
  BY <1>1, <1>2, <1>3
<1> QED BY <1>4 DEF Goal

\* What the body is made of, field by field.
BodyUpTo(upTo) ==
    /\ upTo[0] = <<>>
    /\ \A k \in 1 .. Len(fields) : upTo[k] = upTo[k - 1] \o Chunks(fields[k], slots[k])

\* And what its size is the sum of.
SizeUpTo(sum) ==
    /\ sum[0] = 0
    /\ \A k \in 1 .. Len(fields) : sum[k] = sum[k - 1] + CachedSize(fields[k], slots[k])

\* The body is what its fields are written as.
LEMMA BodyIs ==
    ASSUME Len(fields) \in Nat, \A k \in 1 .. Len(fields) : Chunks(fields[k], slots[k]) \in Seq(Seq(Nat))
    PROVE  \E upTo : BodyUpTo(upTo) /\ Body = upTo[Len(fields)]
<1> DEFINE N == Len(fields)
           S == Seq(Seq(Nat))
           c == [k \in 1 .. N |-> Chunks(fields[k], slots[k])]
           g == [k \in 1 .. N |-> [x \in S |-> x \o c[k]]]
           Eq(f) == f = [k \in 0 .. N |-> IF k = 0 THEN <<>> ELSE f[k - 1] \o Chunks(fields[k], slots[k])]
           upTo == CHOOSE f : Eq(f)
<1>1. \A k \in 1 .. N : c[k] \in S /\ c[k] = Chunks(fields[k], slots[k])
  OBVIOUS
<1>2. <<>> \in S
  OBVIOUS
<1>3. g \in [1 .. N -> [S -> S]]
  <2> HIDE DEF c
  <2>1. ASSUME NEW k \in 1 .. N, NEW x \in S PROVE x \o c[k] \in S
    BY <1>1, ConcatProperties
  <2> QED BY <2>1
<1>4. \A k \in 1 .. N, x \in S : g[k][x] = x \o c[k]
  OBVIOUS
<1> HIDE DEF c, g, S
<1>5. N \in Nat
  OBVIOUS
<1> HIDE DEF N
<1>6. PICK f : IsBuilt(f, S, <<>>, g, N)
  BY <1>2, <1>3, <1>5, Built
<1>7. f \in [0 .. N -> S] /\ f = [k \in 0 .. N |-> IF k = 0 THEN <<>> ELSE g[k][f[k - 1]]]
  BY <1>6 DEF IsBuilt
<1>8. ASSUME NEW k \in 0 .. N
      PROVE  f[k] = IF k = 0 THEN <<>> ELSE f[k - 1] \o Chunks(fields[k], slots[k])
  <2>1. CASE k = 0
    BY <1>7, <2>1
  <2>2. CASE k # 0
    <3>1. k \in 1 .. N /\ k - 1 \in 0 .. N
      BY <1>5, <2>2
    <3>2. f[k] = g[k][f[k - 1]] /\ f[k - 1] \in S
      BY <1>7, <2>2, <3>1
    <3> QED BY <1>1, <1>4, <2>2, <3>1, <3>2
  <2> QED BY <2>1, <2>2
<1>9. f = [k \in 0 .. N |-> f[k]]
  BY <1>7
<1>10. Eq(f)
  BY <1>8, <1>9
<1> HIDE DEF Eq
<1>11. Eq(upTo)
  BY <1>10
<1>12. Body = upTo[N]
  BY DEF Body, N, Eq
<1> HIDE DEF upTo
<1>13. upTo[0] = <<>> /\ \A k \in 1 .. N : upTo[k] = upTo[k - 1] \o Chunks(fields[k], slots[k])
  <2>1. 0 \in 0 .. N /\ \A k \in 1 .. N : k \in 0 .. N /\ k # 0
    BY <1>5
  <2>2. upTo = [k \in 0 .. N |-> IF k = 0 THEN <<>> ELSE upTo[k - 1] \o Chunks(fields[k], slots[k])]
    BY <1>11 DEF Eq
  <2> QED BY <2>1, <2>2
<1> QED BY <1>12, <1>13 DEF BodyUpTo, N

\* Its size is the sum of theirs.
LEMMA BodySizeIs ==
    ASSUME Len(fields) \in Nat, \A k \in 1 .. Len(fields) : CachedSize(fields[k], slots[k]) \in Nat
    PROVE  \E sum : SizeUpTo(sum) /\ BodySize = sum[Len(fields)]
<1> DEFINE N == Len(fields)
           c == [k \in 1 .. N |-> CachedSize(fields[k], slots[k])]
           g == [k \in 1 .. N |-> [x \in Nat |-> x + c[k]]]
           Eq(f) == f = [k \in 0 .. N |-> IF k = 0 THEN 0 ELSE f[k - 1] + CachedSize(fields[k], slots[k])]
           sum == CHOOSE f : Eq(f)
<1>1. \A k \in 1 .. N : c[k] \in Nat /\ c[k] = CachedSize(fields[k], slots[k])
  OBVIOUS
<1>2. g \in [1 .. N -> [Nat -> Nat]]
  <2> HIDE DEF c
  <2>1. ASSUME NEW k \in 1 .. N, NEW x \in Nat PROVE x + c[k] \in Nat
    BY <1>1
  <2> QED BY <2>1
<1>3. \A k \in 1 .. N, x \in Nat : g[k][x] = x + c[k]
  OBVIOUS
<1> HIDE DEF c, g
<1>4. N \in Nat /\ 0 \in Nat
  OBVIOUS
<1> HIDE DEF N
<1>5. PICK f : IsBuilt(f, Nat, 0, g, N)
  BY <1>2, <1>4, Built
<1>6. f \in [0 .. N -> Nat] /\ f = [k \in 0 .. N |-> IF k = 0 THEN 0 ELSE g[k][f[k - 1]]]
  BY <1>5 DEF IsBuilt
<1>7. ASSUME NEW k \in 0 .. N
      PROVE  f[k] = IF k = 0 THEN 0 ELSE f[k - 1] + CachedSize(fields[k], slots[k])
  <2>1. CASE k = 0
    BY <1>6, <2>1
  <2>2. CASE k # 0
    <3>1. k \in 1 .. N /\ k - 1 \in 0 .. N
      BY <1>4, <2>2
    <3>2. f[k] = g[k][f[k - 1]] /\ f[k - 1] \in Nat
      BY <1>6, <2>2, <3>1
    <3> QED BY <1>1, <1>3, <2>2, <3>1, <3>2
  <2> QED BY <2>1, <2>2
<1>8. f = [k \in 0 .. N |-> f[k]]
  BY <1>6
<1>9. Eq(f)
  BY <1>7, <1>8
<1> HIDE DEF Eq
<1>10. Eq(sum)
  BY <1>9
<1>11. BodySize = sum[N]
  BY DEF BodySize, N, Eq
<1> HIDE DEF sum
<1>12. sum[0] = 0 /\ \A k \in 1 .. N : sum[k] = sum[k - 1] + CachedSize(fields[k], slots[k])
  <2>1. 0 \in 0 .. N /\ \A k \in 1 .. N : k \in 0 .. N /\ k # 0
    BY <1>4
  <2>2. sum = [k \in 0 .. N |-> IF k = 0 THEN 0 ELSE sum[k - 1] + CachedSize(fields[k], slots[k])]
    BY <1>10 DEF Eq
  <2> QED BY <2>1, <2>2
<1> QED BY <1>11, <1>12 DEF SizeUpTo, N

\* The writes of the body take the bytes that were counted for it.
LEMMA BodyTakes ==
    ASSUME NEW most \in Nat, Len(fields) \in Nat,
           \A k \in 1 .. Len(fields) :
              TakesNoMore(Chunks(fields[k], slots[k]), CachedSize(fields[k], slots[k]), most)
    PROVE  C!Takes(Body, BodySize) /\ BodySize \in 0 .. Len(fields) * MostOfField(most)
<1> DEFINE N == Len(fields)
           M == MostOfField(most)
<1>1. M \in Nat
  <2>1. WORD_BYTES \in Nat
    BY WordBytesAssumption
  <2> QED BY <2>1 DEF MostOfField
<1>2. \A k \in 1 .. N : /\ C!Takes(Chunks(fields[k], slots[k]), CachedSize(fields[k], slots[k]))
                        /\ CachedSize(fields[k], slots[k]) \in 0 .. M
  BY DEF TakesNoMore
<1>3. PICK upTo : BodyUpTo(upTo) /\ Body = upTo[N]
  <2>1. \A k \in 1 .. N : Chunks(fields[k], slots[k]) \in Seq(Seq(Nat))
    BY <1>2 DEF C!Takes
  <2> QED BY <2>1, BodyIs
<1>4. PICK sum : SizeUpTo(sum) /\ BodySize = sum[N]
  <2>1. \A k \in 1 .. N : CachedSize(fields[k], slots[k]) \in Nat
    BY <1>1, <1>2
  <2> QED BY <2>1, BodySizeIs
<1>5. N \in Nat
  OBVIOUS
<1>6. upTo[0] = <<>> /\ \A k \in 1 .. N : upTo[k] = upTo[k - 1] \o Chunks(fields[k], slots[k])
  BY <1>3 DEF BodyUpTo
<1>7. sum[0] = 0 /\ \A k \in 1 .. N : sum[k] = sum[k - 1] + CachedSize(fields[k], slots[k])
  BY <1>4 DEF SizeUpTo
<1> HIDE DEF N, M
<1> DEFINE T == {n \in 0 .. N : C!Takes(upTo[n], sum[n]) /\ sum[n] \in 0 .. n * M}
<1>8. 0 \in T
  <2>1. 0 * M = 0
    BY <1>1
  <2> QED BY <1>5, <1>6, <1>7, <2>1, NoneTake
<1>9. ASSUME NEW n \in 0 .. (N - 1), n \in T PROVE n + 1 \in T
  <2> DEFINE k == n + 1
             c == Chunks(fields[k], slots[k])
             m == CachedSize(fields[k], slots[k])
  <2>1. k \in 1 .. N /\ k \in 0 .. N /\ k - 1 = n /\ n \in Nat
    BY <1>5
  <2>2. upTo[k] = upTo[n] \o c /\ sum[k] = sum[n] + m
    BY <1>6, <1>7, <2>1
  <2>3. C!Takes(c, m) /\ m \in 0 .. M
    BY <1>2, <2>1
  <2>4. C!Takes(upTo[n], sum[n]) /\ sum[n] \in 0 .. n * M
    BY <1>9
  <2>5. k * M = n * M + M /\ n * M \in Nat
    BY <1>1, <2>1
  <2> HIDE DEF c, m, k
  <2>6. C!Takes(upTo[n] \o c, sum[n] + m)
    BY <2>3, <2>4, BothTake
  <2>7. sum[n] + m \in 0 .. k * M
    <3> DEFINE p == n * M
               q == k * M
    <3>1. q = p + M /\ p \in Nat /\ sum[n] \in 0 .. p
      BY <2>4, <2>5
    <3> HIDE DEF p, q
    <3>2. sum[n] + m \in 0 .. q
      BY <1>1, <2>3, <3>1
    <3> QED BY <3>2 DEF q
  <2>8. C!Takes(upTo[k], sum[k]) /\ sum[k] \in 0 .. k * M
    BY <2>2, <2>6, <2>7
  <2>9. k \in T
    BY <2>1, <2>8
  <2> QED BY <2>9 DEF k
<1> HIDE DEF T
<1>10. \A n \in 0 .. N : n \in T
  BY <1>5, <1>8, <1>9, FromTo
<1>11. N \in T
  BY <1>5, <1>10
<1>12. C!Takes(upTo[N], sum[N]) /\ sum[N] \in 0 .. N * M
  BY <1>11 DEF T
<1>13. C!Takes(Body, BodySize) /\ BodySize \in 0 .. N * M
  BY <1>3, <1>4, <1>12
<1> QED BY <1>13 DEF N, M

-----------------------------------------------------------------------------
\* What a decoder reads of a field.

\* The decoder of a number of some bytes.
LEMMA SameUnsigned ==
    ASSUME NEW s, NEW bytes PROVE C!DecodeUnsigned(s, bytes) = DecodeUnsigned(s, bytes)
<1> DEFINE r == DecodeVLC(s, FALSE)
           q == C!DecodeVLC(s, FALSE)
<1>1. q = r
  BY SameDecoding
<1>2. DecodeUnsigned(s, bytes) = IF r.ok /\ ~r.null /\ ~(r.val < ValuesIn[bytes]) THEN Failed(r.s) ELSE r
  BY DEF DecodeUnsigned, OnlyIf
<1>3. C!DecodeUnsigned(s, bytes) = IF q.ok /\ ~q.null /\ ~(q.val < C!ValuesIn[bytes]) THEN C!Failed(q.s) ELSE q
  BY DEF C!DecodeUnsigned, C!OnlyIf
<1>4. C!ValuesIn = ValuesIn /\ C!Failed(r.s) = Failed(r.s)
  BY DEF ValuesIn, C!ValuesIn, Failed, C!Failed
<1> HIDE DEF q, r
<1> QED BY <1>1, <1>2, <1>3, <1>4

\* The number of a word.
LEMMA SameSigned == ASSUME NEW w PROVE C!AsSigned(w) = AsSigned(w)
BY DEF AsSigned, C!AsSigned, Half, C!Half, Modulus, C!Modulus, ValuesIn, C!ValuesIn

\* The decoder of a signed number.
LEMMA SameNumber ==
    ASSUME NEW s PROVE C!DecodeI64(s) = DecodeI64(s)
<1> DEFINE r == DecodeVLC(s, TRUE)
           q == C!DecodeVLC(s, TRUE)
<1>1. q = r
  BY SameDecoding
<1>2. DecodeI64(s) = IF r.ok /\ ~r.null THEN Value(AsSigned(r.val), r.s) ELSE r
  BY DEF DecodeI64
<1>3. C!DecodeI64(s) = IF q.ok /\ ~q.null THEN C!Value(C!AsSigned(q.val), q.s) ELSE q
  BY DEF C!DecodeI64
<1>4. C!AsSigned(r.val) = AsSigned(r.val) /\ \A v : C!Value(v, r.s) = Value(v, r.s)
  BY SameSigned DEF Value, C!Value
<1> HIDE DEF q, r
<1> QED BY <1>1, <1>2, <1>3, <1>4

\* The decoder of a double.
LEMMA SameDouble ==
    ASSUME NEW s PROVE C!DecodeF64(s) = DecodeF64(s)
<1> DEFINE r == DecodeVLC(s, FALSE)
           q == C!DecodeVLC(s, FALSE)
<1>1. q = r
  BY SameDecoding
<1>2. DecodeF64(s) = IF r.ok /\ ~r.null THEN Value(DoubleOfNumber(r.val), r.s) ELSE r
  BY DEF DecodeF64, DecodeU64
<1>3. C!DecodeF64(s) = IF q.ok /\ ~q.null THEN C!Value(C!DoubleOfNumber(q.val), q.s) ELSE q
  BY DEF C!DecodeF64, C!DecodeU64
<1>4. C!DoubleOfNumber(r.val) = DoubleOfNumber(r.val) /\ \A v : C!Value(v, r.s) = Value(v, r.s)
  BY DEF DoubleOfNumber, C!DoubleOfNumber, Value, C!Value
<1> HIDE DEF q, r
<1> QED BY <1>1, <1>2, <1>3, <1>4

\* The decoder of a decimal.
LEMMA SameDecimal ==
    ASSUME NEW s PROVE C!DecodeDecimal(s) = DecodeDecimal(s)
<1> DEFINE low == -(ValuesIn[1] \div 2)
           high == ValuesIn[1] \div 2
           r == DecodeI64(s)
           q == C!DecodeI64(s)
           e == DecodeSigned(s, 1)
           d == C!DecodeSigned(s, 1)
<1>1. q = r
  BY SameNumber
<1>2. e = IF r.ok /\ ~r.null /\ ~(r.val >= low /\ r.val < high) THEN Failed(r.s) ELSE r
  BY DEF DecodeSigned, OnlyIf
<1>3. d = IF q.ok /\ ~q.null /\ ~(q.val >= -(C!ValuesIn[1] \div 2) /\ q.val < C!ValuesIn[1] \div 2)
          THEN C!Failed(q.s) ELSE q
  BY DEF C!DecodeSigned, C!OnlyIf
<1>4. C!ValuesIn = ValuesIn
  BY DEF ValuesIn, C!ValuesIn
<1>5. \A v, t : C!Value(v, t) = Value(v, t) /\ C!Failed(t) = Failed(t)
  BY DEF Value, C!Value, Failed, C!Failed
<1>6. d = e
  <2> HIDE DEF q, r, d, e
  <2> QED BY <1>1, <1>2, <1>3, <1>4, <1>5 DEF low, high
<1>7. DecodeDecimal(s) = DecimalOf(e, DecodeI64(e.s))
  BY DEF DecodeDecimal
<1>8. C!DecodeDecimal(s) = C!DecimalOf(d, C!DecodeI64(d.s))
  BY DEF C!DecodeDecimal
<1>9. C!DecodeI64(e.s) = DecodeI64(e.s)
  BY SameNumber
<1> HIDE DEF d, e
<1>10. ASSUME NEW m PROVE C!DecimalOf(e, m) = DecimalOf(e, m)
  BY <1>5 DEF DecimalOf, C!DecimalOf
<1> QED BY <1>6, <1>7, <1>8, <1>9, <1>10

\* What is read of bytes that are there, up to end.
ReadTo(r, s, end, null, v) == r = C!Answer(null, v, C!Moved(s, end - s.pos))

\* A decoder that reads so many bytes reads them if they are there.
LEMMA ReadsTo ==
    ASSUME NEW s, C!Reader(s), NEW end \in Nat, end <= s.max, NEW n \in Nat, n = end - s.pos,
           NEW null, NEW v, NEW r, C!Reads(r, s, n, null, v)
    PROVE  ReadTo(r, s, end, null, v)
<1>1. s.pos \in Nat
  BY DEF C!Reader
<1>2. s.pos + n <= s.max
  BY <1>1
<1> QED BY <1>2 DEF C!Reads, ReadTo

\* A word in a buffer.
LEMMA WordReads ==
    ASSUME NEW s, C!Reader(s), NEW w \in 0 .. Modulus - 1, NEW isSigned \in BOOLEAN, NEW at, NEW end,
           s.pos = at, C!Spans(s.mem, at, <<EncodeVLC(w, isSigned)>>, end)
    PROVE  /\ end - at \in Nat /\ end \in Nat
           /\ C!Reads(C!DecodeVLC(s, isSigned), s, end - at, FALSE, w)
<1> DEFINE d == EncodeVLC(w, isSigned)
<1>1. d \in Seq(Nat) /\ C!EncodeVLC(w, isSigned) = d /\ w \in 0 .. C!Modulus - 1
  BY EncodedIs, SameEncoding, SameModulus
<1>2. at \in Nat
  BY DEF C!Reader
<1> HIDE DEF d
<1>3. C!Spans(s.mem, s.pos, <<d>>, end)
  BY DEF d
<1>4. C!Chunk(s.mem, s.pos, d) /\ Len(d) \in Nat /\ end = s.pos + Len(d) /\ end - s.pos = Len(d)
  BY <1>1, <1>3, C!OneChunk, EncodeAssumption, WordBytesAssumption, IntMaxAssumption
<1>5. C!Reads(C!DecodeVLC(s, isSigned), s, Len(d), FALSE, w)
  BY <1>1, <1>4, C!WordReads, EncodeAssumption, WordBytesAssumption, IntMaxAssumption
<1>6. end - at = Len(d) /\ end \in Nat
  BY <1>2, <1>4
<1> QED BY <1>4, <1>5, <1>6

\* A null in a buffer.
LEMMA NullReads ==
    ASSUME NEW s, C!Reader(s), NEW at, NEW end, s.pos = at,
           C!Spans(s.mem, at, <<EncodeNull>>, end), NEW isSigned \in BOOLEAN
    PROVE  /\ end - at \in Nat /\ end \in Nat
           /\ C!Reads(C!DecodeVLC(s, isSigned), s, end - at, TRUE, NULL)
<1> DEFINE d == EncodeNull
<1>1. d \in Seq(Nat) /\ Len(d) = 1 /\ C!EncodeNull = d
  BY DEF EncodeNull, C!EncodeNull
<1>2. at \in Nat
  BY DEF C!Reader
<1> HIDE DEF d
<1>3. C!Spans(s.mem, s.pos, <<d>>, end)
  BY DEF d
<1>4. C!Chunk(s.mem, s.pos, d) /\ end = s.pos + Len(d) /\ end - s.pos = Len(d)
  BY <1>1, <1>3, C!OneChunk, EncodeAssumption, WordBytesAssumption, IntMaxAssumption
<1>5. C!Chunk(s.mem, s.pos, C!EncodeNull)
  BY <1>1, <1>4
<1>6. C!Reads(C!DecodeVLC(s, isSigned), s, 1, TRUE, NULL)
  BY <1>5, C!NullReads, EncodeAssumption, WordBytesAssumption, IntMaxAssumption
<1> DEFINE n == end - at
<1>7. n = 1 /\ end \in Nat
  BY <1>1, <1>2, <1>4
<1> HIDE DEF n
<1>8. C!Reads(C!DecodeVLC(s, isSigned), s, n, TRUE, NULL)
  BY <1>6, <1>7, Zenon
<1>9. n \in Nat /\ end \in Nat /\ C!Reads(C!DecodeVLC(s, isSigned), s, n, TRUE, NULL)
  BY <1>7, <1>8
<1> QED BY <1>9 DEF n

\* A decimal in a buffer.
LEMMA DecimalReads ==
    ASSUME NEW s, C!Reader(s), NEW v \in 0 .. Modulus - 1, NEW w \in 0 .. Modulus - 1,
           AsSigned(v) \in -128 .. 127, NEW end,
           C!Spans(s.mem, s.pos, <<EncodeVLC(v, TRUE), EncodeVLC(w, TRUE)>>, end)
    PROVE  /\ end - s.pos \in Nat /\ end \in Nat
           /\ C!Reads(C!DecodeDecimal(s), s, end - s.pos, FALSE, <<AsSigned(w), AsSigned(v)>>)
<1> DEFINE d == EncodeVLC(v, TRUE)
           e == EncodeVLC(w, TRUE)
           m == Len(d)
           n == Len(e)
           chunks == <<d, e>>
           x == AsSigned(v)
           y == AsSigned(w)
<1>1. /\ d \in Seq(Nat) /\ C!EncodeVLC(v, TRUE) = d /\ v \in 0 .. C!Modulus - 1
      /\ e \in Seq(Nat) /\ C!EncodeVLC(w, TRUE) = e /\ w \in 0 .. C!Modulus - 1
  BY EncodedIs, SameEncoding, SameModulus
<1> HIDE DEF d, e
<1>2. m \in Nat /\ n \in Nat
  BY <1>1
<1>3. s.pos \in Nat /\ s.max \in Nat
  BY DEF C!Reader
<1>4. C!Chunk(s.mem, s.pos, d) /\ C!Chunk(s.mem, s.pos + m, e) /\ end = s.pos + m + n
  <2>1. Len(chunks) = 2 /\ chunks[1] = d /\ chunks[2] = e
    OBVIOUS
  <2>2. C!Spans(s.mem, s.pos, chunks, end)
    BY DEF d, e
  <2> HIDE DEF chunks
  <2> QED BY <2>1, <2>2 DEF C!Spans
<1>5. C!AsSigned(v) = x /\ C!AsSigned(w) = y /\ x >= -128 /\ x < 128
  BY SameSigned
<1> HIDE DEF m, n, chunks, x, y
<1>6. C!Reads(C!DecodeSigned(s, 1), s, m, FALSE, x)
  <2>1. C!Reads(C!DecodeVLC(s, TRUE), s, m, FALSE, v)
    BY <1>1, <1>4, C!WordReads, EncodeAssumption, WordBytesAssumption, IntMaxAssumption DEF m
  <2>2. C!Reads(C!DecodeI64(s), s, m, FALSE, x)
    BY <1>5, <2>1, C!I64Reads, EncodeAssumption, WordBytesAssumption, IntMaxAssumption
  <2>3. C!ValuesIn[1] = 256
    BY C!Widths, EncodeAssumption, WordBytesAssumption, IntMaxAssumption
  <2>4. x >= -(C!ValuesIn[1] \div 2) /\ x < C!ValuesIn[1] \div 2
    BY <1>5, <2>3
  <2> QED BY <2>2, <2>4, C!SignedReads, EncodeAssumption, WordBytesAssumption, IntMaxAssumption
<1>7. s.pos + m <= s.max => C!Reads(C!DecodeI64(C!Moved(s, m)), C!Moved(s, m), n, FALSE, y)
  <2> SUFFICES ASSUME s.pos + m <= s.max
               PROVE  C!Reads(C!DecodeI64(C!Moved(s, m)), C!Moved(s, m), n, FALSE, y)
    OBVIOUS
  <2> DEFINE t == C!Moved(s, m)
  <2>1. C!Reader(t) /\ t.pos = s.pos + m /\ t.mem = s.mem
    BY <1>2, C!MovedIs, EncodeAssumption, WordBytesAssumption, IntMaxAssumption
  <2> HIDE DEF t
  <2>2. C!Chunk(t.mem, t.pos, e)
    BY <1>4, <2>1
  <2>3. C!Reads(C!DecodeVLC(t, TRUE), t, n, FALSE, w)
    BY <1>1, <2>1, <2>2, C!WordReads, EncodeAssumption, WordBytesAssumption, IntMaxAssumption DEF n
  <2>4. C!Reads(C!DecodeI64(t), t, n, FALSE, y)
    BY <1>5, <2>3, C!I64Reads, EncodeAssumption, WordBytesAssumption, IntMaxAssumption
  <2> QED BY <2>4 DEF t
<1>8. C!Reads(C!DecodeDecimal(s), s, m + n, FALSE, <<y, x>>)
  BY <1>2, <1>6, <1>7, C!DecimalReads, EncodeAssumption, WordBytesAssumption, IntMaxAssumption
<1>9. m + n = end - s.pos /\ end - s.pos \in Nat /\ end \in Nat
  BY <1>2, <1>3, <1>4
<1> QED BY <1>8, <1>9 DEF x, y

\* A text in a buffer.
LEMMA TextReads ==
    ASSUME NEW s, C!Reader(s), NEW text \in Texts, NEW n, n = Len(text), C!Chunk(s.mem, s.pos, text),
           s.pos + n <= s.max, n <= INT_MAX
    PROVE  ReadText(s, n) = C!Answer(FALSE, text, C!Moved(s, n))
<1> DEFINE t == C!Moved(s, n)
<1>1. text \in Seq(Nat) /\ n \in Nat
  BY TextIs
<1>2. C!BufferRead(s, n) = [ok |-> TRUE, s |-> t]
  BY <1>1, C!ReadIs, EncodeAssumption, WordBytesAssumption, IntMaxAssumption
<1>3. BufferRead(s, n) = [ok |-> TRUE, s |-> t]
  BY <1>2, SameReading
<1> HIDE DEF t
<1>4. ReadText(s, n) = Value(BytesAt(s.mem, s.pos, n), t)
  BY <1>3 DEF ReadText
<1>5. BytesAt(s.mem, s.pos, n) = text
  <2> DEFINE mem == s.mem
             at == s.pos
  <2>1. at \in Nat
    BY DEF C!Reader
  <2>2. \A i \in 1 .. n : mem[at + (i - 1)] = text[i]
    BY DEF C!Chunk
  <2>3. BytesAt(mem, at, n) = [i \in 1 .. n |-> mem[at + i - 1]]
    BY DEF BytesAt
  <2> HIDE DEF mem, at
  <2>4. \A i \in 1 .. n : at + i - 1 = at + (i - 1)
    BY <1>1, <2>1
  <2>5. [i \in 1 .. n |-> mem[at + i - 1]] = [i \in 1 .. n |-> text[i]]
    BY <2>2, <2>4
  <2>6. text = [i \in 1 .. n |-> text[i]]
    BY <1>1
  <2> QED BY <2>3, <2>5, <2>6 DEF mem, at
<1>6. Value(text, t) = C!Answer(FALSE, text, t)
  BY DEF Value, C!Answer
<1> QED BY <1>4, <1>5, <1>6 DEF t

\* A text after a word: its length, or that it is there.
LEMMA CountedReads ==
    ASSUME NEW s, C!Reader(s), s.max <= INT_MAX, NEW w \in 0 .. Modulus - 1, NEW text \in Texts, NEW end,
           C!Spans(s.mem, s.pos, <<EncodeVLC(w, FALSE), text>>, end), end <= s.max
    PROVE  /\ DecodeVLC(s, FALSE).val = w
           /\ ReadTo(ReadAfter(DecodeVLC(s, FALSE), Len(text)), s, end, FALSE, text)
<1> DEFINE d == EncodeVLC(w, FALSE)
           m == Len(d)
           n == Len(text)
           chunks == <<d, text>>
           t == C!Moved(s, m)
           r == DecodeVLC(s, FALSE)
<1>1. d \in Seq(Nat) /\ C!EncodeVLC(w, FALSE) = d /\ w \in 0 .. C!Modulus - 1
  BY EncodedIs, SameEncoding, SameModulus
<1>2. text \in Seq(Nat)
  BY TextIs
<1> HIDE DEF d
<1>3. m \in Nat /\ n \in Nat
  BY <1>1, <1>2
<1>4. s.pos \in Nat /\ s.max \in Nat
  BY DEF C!Reader
<1>5. C!Chunk(s.mem, s.pos, d) /\ C!Chunk(s.mem, s.pos + m, text) /\ end = s.pos + m + n
  <2>1. Len(chunks) = 2 /\ chunks[1] = d /\ chunks[2] = text
    OBVIOUS
  <2>2. C!Spans(s.mem, s.pos, chunks, end)
    BY DEF d
  <2> HIDE DEF chunks
  <2> QED BY <2>1, <2>2 DEF C!Spans
<1>6. INT_MAX \in Nat
  BY IntMaxAssumption
<1> HIDE DEF chunks
<1>7. C!Reads(r, s, m, FALSE, w)
  <2>1. C!Reads(C!DecodeVLC(s, FALSE), s, m, FALSE, w)
    BY <1>1, <1>5, C!WordReads, EncodeAssumption, WordBytesAssumption, IntMaxAssumption
  <2>2. C!DecodeVLC(s, FALSE) = r
    BY SameDecoding
  <2> HIDE DEF r, m
  <2> QED BY <2>1, <2>2
<1> HIDE DEF r, m, n
<1>8. s.pos + m <= s.max /\ s.pos + m + n <= s.max /\ n <= INT_MAX
  BY <1>3, <1>4, <1>5, <1>6
<1>9. r = C!Answer(FALSE, w, t)
  BY <1>7, <1>8 DEF C!Reads
<1>10. C!Reader(t) /\ t.pos = s.pos + m /\ t.mem = s.mem /\ t.max = s.max
  BY <1>3, <1>8, C!MovedIs, EncodeAssumption, WordBytesAssumption, IntMaxAssumption
<1>11. C!Moved(t, n) = C!Moved(s, m + n)
  BY <1>3, C!MovedTwice, EncodeAssumption, WordBytesAssumption, IntMaxAssumption
<1> HIDE DEF t
<1>12. r.ok = TRUE /\ r.null = FALSE /\ r.val = w /\ r.s = t
  BY <1>9 DEF C!Answer
<1>13. ReadAfter(r, n) = ReadText(t, n)
  BY <1>12 DEF ReadAfter
<1>14. ReadText(t, n) = C!Answer(FALSE, text, C!Moved(t, n))
  <2>1. C!Chunk(t.mem, t.pos, text) /\ t.pos + n <= t.max
    BY <1>5, <1>8, <1>10
  <2> QED BY <1>8, <1>10, <2>1, TextReads DEF n
<1>15. end - s.pos = m + n
  BY <1>3, <1>4, <1>5
<1>16. ReadTo(ReadAfter(r, n), s, end, FALSE, text)
  BY <1>11, <1>13, <1>14, <1>15 DEF ReadTo
<1> QED BY <1>12, <1>16 DEF r, n
\* The decoder of each type.
LEMMA ReadValueIs ==
    ASSUME NEW field, NEW s
    PROVE  LET word == DecodeVLC(s, FALSE)
               r == ReadValue(field, s)
           IN  /\ field.seq => r = word
               /\ ~field.seq /\ field.type \notin {"signed", "u16", "f64", "decimal", "string", "fixed"} => r = word
               /\ ~field.seq /\ field.type = "signed" => r = DecodeVLC(s, TRUE)
               /\ ~field.seq /\ field.type = "u16" => r = DecodeUnsigned(s, 2)
               /\ ~field.seq /\ field.type = "f64" => r = DecodeF64(s)
               /\ ~field.seq /\ field.type = "decimal" => r = DecodeDecimal(s)
               /\ ~field.seq /\ field.type = "string" => r = ReadAfter(word, word.val)
               /\ ~field.seq /\ field.type = "fixed" /\ field.opt => r = ReadAfter(word, field.size)
               /\ ~field.seq /\ field.type = "fixed" /\ ~field.opt => r = ReadText(s, field.size)
<1> DEFINE word == DecodeVLC(s, FALSE)
           signed == DecodeVLC(s, TRUE)
           unsigned == DecodeUnsigned(s, 2)
           double == DecodeF64(s)
           decimal == DecodeDecimal(s)
           string == ReadAfter(word, word.val)
           maybe == ReadAfter(word, field.size)
           text == ReadText(s, field.size)
           r == ReadValue(field, s)
<1>1. r = CASE field.seq -> word
            [] ~field.seq /\ field.type = "signed" -> signed
            [] ~field.seq /\ field.type = "u16" -> unsigned
            [] ~field.seq /\ field.type = "f64" -> double
            [] ~field.seq /\ field.type = "decimal" -> decimal
            [] ~field.seq /\ field.type = "string" -> string
            [] ~field.seq /\ field.type = "fixed" /\ field.opt -> maybe
            [] ~field.seq /\ field.type = "fixed" /\ ~field.opt -> text
            [] OTHER -> word
  BY DEF ReadValue
<1> HIDE DEF word, signed, unsigned, double, decimal, string, maybe, text, r
<1>2. field.seq => r = word
  BY <1>1
<1>3. ~field.seq /\ field.type \notin {"signed", "u16", "f64", "decimal", "string", "fixed"} => r = word
  BY <1>1
<1>4. ~field.seq /\ field.type = "signed" => r = signed
  BY <1>1
<1>5. ~field.seq /\ field.type = "u16" => r = unsigned
  BY <1>1
<1>6. ~field.seq /\ field.type = "decimal" => r = decimal
  BY <1>1
<1>7. ~field.seq /\ field.type = "string" => r = string
  BY <1>1
<1>8. ~field.seq /\ field.type = "fixed" /\ field.opt => r = maybe
  BY <1>1
<1>9. ~field.seq /\ field.type = "fixed" /\ ~field.opt => r = text
  BY <1>1
<1>10. ~field.seq /\ field.type = "f64" => r = double
  BY <1>1
<1> QED BY <1>2, <1>3, <1>4, <1>5, <1>6, <1>7, <1>8, <1>9, <1>10
        DEF word, signed, unsigned, double, decimal, string, maybe, text, r

\* The value of an optional field that was not set is read as null.
LEMMA NullFieldReads ==
    ASSUME NEW s, C!Reader(s), NEW end, C!Spans(s.mem, s.pos, <<EncodeNull>>, end), end <= s.max,
           NEW field, field.opt
    PROVE  ReadTo(ReadField(field, s), s, end, TRUE, NULL)
<1> DEFINE n == end - s.pos
           word == DecodeVLC(s, FALSE)
           r == ReadValue(field, s)
           Goal == ReadTo(r, s, end, TRUE, NULL)
<1>1. n \in Nat /\ end \in Nat /\ \A isSigned \in BOOLEAN : C!Reads(C!DecodeVLC(s, isSigned), s, n, TRUE, NULL)
  BY NullReads
<1> HIDE DEF n
<1>2. n = end - s.pos
  BY DEF n
<1>3. ASSUME NEW q, C!Reads(q, s, n, TRUE, NULL) PROVE ReadTo(q, s, end, TRUE, NULL)
  BY <1>1, <1>2, <1>3, ReadsTo
<1>4. ReadTo(word, s, end, TRUE, NULL) /\ ReadTo(DecodeVLC(s, TRUE), s, end, TRUE, NULL)
  <2>1. C!DecodeVLC(s, FALSE) = word /\ C!DecodeVLC(s, TRUE) = DecodeVLC(s, TRUE)
    BY SameDecoding
  <2>2. C!Reads(C!DecodeVLC(s, FALSE), s, n, TRUE, NULL) /\ C!Reads(C!DecodeVLC(s, TRUE), s, n, TRUE, NULL)
    BY <1>1
  <2> QED BY <1>3, <2>1, <2>2
<1>5. ReadTo(DecodeUnsigned(s, 2), s, end, TRUE, NULL)
  <2>1. C!Reads(C!DecodeUnsigned(s, 2), s, n, TRUE, NULL)
    BY <1>1, C!UnsignedReads, EncodeAssumption, WordBytesAssumption, IntMaxAssumption
  <2> QED BY <1>3, <2>1, SameUnsigned
<1>6. ReadTo(DecodeDecimal(s), s, end, TRUE, NULL)
  <2>1. C!Reads(C!DecodeVLC(s, TRUE), s, n, TRUE, NULL)
    BY <1>1
  <2>2. C!Reads(C!DecodeI64(s), s, n, TRUE, NULL)
    BY <2>1, C!I64Reads, EncodeAssumption, WordBytesAssumption, IntMaxAssumption
  <2>3. C!Reads(C!DecodeSigned(s, 1), s, n, TRUE, NULL)
    BY <2>2, C!SignedReads, EncodeAssumption, WordBytesAssumption, IntMaxAssumption
  <2>4. C!Reads(C!DecodeDecimal(s), s, n, TRUE, NULL)
    BY <2>3, C!NoDecimalReads, EncodeAssumption, WordBytesAssumption, IntMaxAssumption
  <2> QED BY <1>3, <2>4, SameDecimal
<1>11. ReadTo(DecodeF64(s), s, end, TRUE, NULL)
  <2>1. C!Reads(C!DecodeVLC(s, FALSE), s, n, TRUE, NULL)
    BY <1>1
  <2>2. C!Reads(C!DecodeF64(s), s, n, TRUE, IF TRUE THEN NULL ELSE C!DoubleOfNumber(NULL))
    BY <2>1, C!F64Reads, EncodeAssumption, WordBytesAssumption, IntMaxAssumption
  <2>3. C!Reads(C!DecodeF64(s), s, n, TRUE, NULL)
    BY <2>2
  <2> QED BY <1>3, <2>3, SameDouble
<1>7. word.null = TRUE
  <2> HIDE DEF word
  <2> QED BY <1>4 DEF ReadTo, C!Answer
<1>8. ReadAfter(word, word.val) = word /\ ReadAfter(word, field.size) = word
  <2> HIDE DEF word
  <2> QED BY <1>7 DEF ReadAfter
<1>9. Goal
  <2>1. \/ r = word
        \/ r = DecodeVLC(s, TRUE)
        \/ r = DecodeUnsigned(s, 2)
        \/ r = DecodeF64(s)
        \/ r = DecodeDecimal(s)
    <3> HIDE DEF r, word
    <3>1. ASSUME field.seq PROVE r = word
      BY <3>1, ReadValueIs DEF r, word
    <3>2. ASSUME ~field.seq, field.type \notin {"signed", "u16", "f64", "decimal", "string", "fixed"} PROVE r = word
      BY <3>2, ReadValueIs DEF r, word
    <3>3. ASSUME ~field.seq, field.type = "signed" PROVE r = DecodeVLC(s, TRUE)
      BY <3>3, ReadValueIs DEF r
    <3>4. ASSUME ~field.seq, field.type = "u16" PROVE r = DecodeUnsigned(s, 2)
      BY <3>4, ReadValueIs DEF r
    <3>5. ASSUME ~field.seq, field.type = "decimal" PROVE r = DecodeDecimal(s)
      BY <3>5, ReadValueIs DEF r
    <3>6. ASSUME ~field.seq, field.type = "string" PROVE r = word
      <4>1. r = ReadAfter(word, word.val)
        BY <3>6, ReadValueIs DEF r, word
      <4> QED BY <1>8, <4>1
    <3>7. ASSUME ~field.seq, field.type = "fixed" PROVE r = word
      <4>1. r = ReadAfter(word, field.size)
        BY <3>7, ReadValueIs DEF r, word
      <4> QED BY <1>8, <4>1
    <3>8. ASSUME ~field.seq, field.type = "f64" PROVE r = DecodeF64(s)
      BY <3>8, ReadValueIs DEF r
    <3> QED BY <3>1, <3>2, <3>3, <3>4, <3>5, <3>6, <3>7, <3>8
  <2> HIDE DEF r, word
  <2> QED BY <1>4, <1>5, <1>6, <1>11, <2>1
<1> HIDE DEF r
<1>10. ReadField(field, s) = r
  BY DEF ReadField, r
<1> QED BY <1>9, <1>10
\* A number that a field takes is one its decoder does not refuse.
NumberFits(field) == field.type = "u16" /\ ~field.seq => \A word \in Words : word < ValuesIn[2]

\* A word that was set is read as it was set.
LEMMA NumberReads ==
    ASSUME NEW s, C!Reader(s), NEW end, end <= s.max, NEW val \in 0 .. Modulus - 1, NEW isSigned \in BOOLEAN,
           C!Spans(s.mem, s.pos, <<EncodeVLC(val, isSigned)>>, end)
    PROVE  /\ ReadTo(DecodeVLC(s, isSigned), s, end, FALSE, val)
           /\ ~isSigned /\ val < ValuesIn[2] => ReadTo(DecodeUnsigned(s, 2), s, end, FALSE, val)
<1> DEFINE n == end - s.pos
<1>1. n \in Nat /\ end \in Nat /\ C!Reads(C!DecodeVLC(s, isSigned), s, n, FALSE, val)
  BY WordReads
<1> HIDE DEF n
<1>2. n = end - s.pos
  BY DEF n
<1>3. ASSUME NEW q, C!Reads(q, s, n, FALSE, val) PROVE ReadTo(q, s, end, FALSE, val)
  BY <1>1, <1>2, <1>3, ReadsTo
<1>4. ReadTo(DecodeVLC(s, isSigned), s, end, FALSE, val)
  BY <1>1, <1>3, SameDecoding
<1>5. ASSUME ~isSigned, val < ValuesIn[2] PROVE ReadTo(DecodeUnsigned(s, 2), s, end, FALSE, val)
  <2>1. C!Reads(C!DecodeVLC(s, FALSE), s, n, FALSE, val)
    <3>1. isSigned = FALSE
      BY <1>5
    <3> QED BY <1>1, <3>1
  <2>2. val < C!ValuesIn[2]
    BY <1>5 DEF ValuesIn, C!ValuesIn
  <2>3. C!Reads(C!DecodeUnsigned(s, 2), s, n, FALSE, val)
    BY <2>1, <2>2, C!UnsignedReads, EncodeAssumption, WordBytesAssumption, IntMaxAssumption
  <2> QED BY <1>3, <2>3, SameUnsigned
<1> QED BY <1>4, <1>5

\* A text that was set is read as it was set.
LEMMA TextFieldReads ==
    ASSUME NEW s, C!Reader(s), s.max <= INT_MAX, NEW end, end <= s.max, NEW field, ~field.seq,
           field.type \in {"string", "fixed"}, NEW text \in Texts, Len(text) < Modulus,
           field.type = "fixed" => Len(text) = field.size,
           C!Spans(s.mem, s.pos, ValueChunks(field, text), end)
    PROVE  ReadTo(ReadValue(field, s), s, end, FALSE, text)
<1> DEFINE n == Len(text)
           word == DecodeVLC(s, FALSE)
<1>1. text \in Seq(Nat) /\ n \in Nat
  BY TextIs
<1>2. Modulus \in Nat /\ n \in 0 .. Modulus - 1
  BY <1>1, Bounds
<1>3. ASSUME field.type = "string" PROVE ReadTo(ReadValue(field, s), s, end, FALSE, text)
  <2>1. ValueChunks(field, text) = <<EncodeVLC(n, FALSE), text>>
    BY <1>3 DEF ValueChunks
  <2>2. word.val = n /\ ReadTo(ReadAfter(word, n), s, end, FALSE, text)
    <3> HIDE DEF word
    <3> QED BY <1>2, <2>1, CountedReads DEF word
  <2>3. ReadValue(field, s) = ReadAfter(word, word.val)
    BY <1>3, ReadValueIs
  <2> QED BY <2>2, <2>3
<1>4. ASSUME field.type = "fixed", field.opt PROVE ReadTo(ReadValue(field, s), s, end, FALSE, text)
  <2>1. EncodePresent = EncodeVLC(1, FALSE) /\ 1 \in 0 .. Modulus - 1
    <3>1. C!EncodeVLC(1, FALSE) = C!EncodePresent /\ 1 \in 0 .. C!Modulus - 1
      BY C!PresentIs, EncodeAssumption, WordBytesAssumption, IntMaxAssumption
    <3>2. C!EncodePresent = EncodePresent
      BY DEF EncodePresent, C!EncodePresent
    <3> QED BY <3>1, <3>2, SameEncoding, SameModulus
  <2>2. ValueChunks(field, text) = <<EncodePresent>> \o <<text>>
    BY <1>4 DEF ValueChunks
  <2>3. <<EncodePresent>> \o <<text>> = <<EncodePresent, text>>
    <3>1. EncodePresent \in Seq(Nat)
      BY DEF EncodePresent
    <3> QED BY <1>1, <3>1, TwoInARow
  <2>4. C!Spans(s.mem, s.pos, <<EncodeVLC(1, FALSE), text>>, end)
    <3> DEFINE d == EncodeVLC(1, FALSE)
    <3> HIDE DEF d
    <3>1. ValueChunks(field, text) = <<d, text>>
      BY <2>1, <2>2, <2>3 DEF d
    <3> QED BY <3>1 DEF d
  <2>5. ReadTo(ReadAfter(word, n), s, end, FALSE, text)
    BY <2>1, <2>4, CountedReads
  <2>6. ReadValue(field, s) = ReadAfter(word, field.size)
    BY <1>4, ReadValueIs
  <2>7. field.size = n
    BY <1>4
  <2> HIDE DEF word, n
  <2> QED BY <2>5, <2>6, <2>7
<1>5. ASSUME field.type = "fixed", ~field.opt PROVE ReadTo(ReadValue(field, s), s, end, FALSE, text)
  <2>1. ValueChunks(field, text) = <<>> \o <<text>>
    BY <1>5 DEF ValueChunks
  <2>2. <<>> \o <<text>> = <<text>>
    OBVIOUS
  <2>3. C!Spans(s.mem, s.pos, <<text>>, end)
    BY <2>1, <2>2
  <2>4. C!Chunk(s.mem, s.pos, text) /\ end = s.pos + n /\ end - s.pos = n
    BY <1>1, <2>3, C!OneChunk, EncodeAssumption, WordBytesAssumption, IntMaxAssumption
  <2>5. s.pos \in Nat /\ s.max \in Nat /\ INT_MAX \in Nat
    BY IntMaxAssumption DEF C!Reader
  <2> HIDE DEF n
  <2>6. s.pos + n <= s.max /\ n <= INT_MAX
    BY <1>1, <2>4, <2>5
  <2>7. ReadText(s, n) = C!Answer(FALSE, text, C!Moved(s, n))
    BY <2>4, <2>6, TextReads DEF n
  <2>8. ReadTo(ReadText(s, n), s, end, FALSE, text)
    BY <2>4, <2>7 DEF ReadTo
  <2>9. ReadValue(field, s) = ReadText(s, field.size) /\ field.size = n
    BY <1>5, ReadValueIs DEF n
  <2> QED BY <2>8, <2>9
<1> QED BY <1>3, <1>4, <1>5

\* What is read of a field that was written.
Found(field, slot) == IF IsConverted(field, slot) THEN DoubleOfNumber(slot.val) ELSE Sent(field, slot)

\* A field that is set is read as it was set, or converted.
LEMMA SetFieldReads ==
    ASSUME NEW s, C!Reader(s), s.max <= INT_MAX, NEW end, end <= s.max,
           \A text \in Texts : Len(text) < Modulus,
           NEW field, NumberFits(field), NEW slot, slot.init, FieldHolds(field, slot),
           ~IsPoisoned(field, slot), C!Spans(s.mem, s.pos, Chunks(field, slot), end)
    PROVE  ReadTo(ReadField(field, s), s, end, FALSE, Found(field, slot))
<1> DEFINE val == slot.val
           r == ReadValue(field, s)
           Goal == ReadTo(r, s, end, FALSE, Found(field, slot))
<1>1. ASSUME field.seq PROVE Goal
  <2>1. Chunks(field, slot) = <<EncodeVLC(0, FALSE)>>
    BY <1>1 DEF Chunks
  <2>2. 0 \in 0 .. Modulus - 1
    BY Bounds
  <2>3. ReadTo(DecodeVLC(s, FALSE), s, end, FALSE, 0)
    BY <2>1, <2>2, NumberReads
  <2>4. field.type # "decimal" /\ val = 0
    BY <1>1 DEF FieldHolds, IsPoisoned
  <2>5. Found(field, slot) = 0
    BY <1>1, <2>4 DEF Found, IsConverted, Sent
  <2>6. r = DecodeVLC(s, FALSE)
    BY <1>1, ReadValueIs
  <2> QED BY <2>3, <2>5, <2>6
<1>2. ASSUME ~field.seq PROVE Chunks(field, slot) = ValueChunks(field, val)
  BY <1>2 DEF Chunks
<1>3. ASSUME field.type \notin {"decimal", "f64"} PROVE Found(field, slot) = val
  BY <1>3 DEF Found, IsConverted, Sent
<1>4. ASSUME NEW w \in Words PROVE w \in 0 .. Modulus - 1
  BY EncodeAssumption
<1>5. ASSUME ~field.seq, field.type \in {"number", "u16"}, val \in Words PROVE Goal
  <2>1. ValueChunks(field, val) = <<EncodeVLC(val, FALSE)>>
    BY <1>5 DEF ValueChunks
  <2>2. C!Spans(s.mem, s.pos, <<EncodeVLC(val, FALSE)>>, end) /\ val \in 0 .. Modulus - 1
    BY <1>2, <1>4, <1>5, <2>1
  <2>3. ReadTo(DecodeVLC(s, FALSE), s, end, FALSE, val)
    BY <2>2, NumberReads
  <2>4. ASSUME field.type = "u16" PROVE ReadTo(DecodeUnsigned(s, 2), s, end, FALSE, val)
    <3>1. val < ValuesIn[2]
      BY <1>5, <2>4 DEF NumberFits
    <3> QED BY <2>2, <3>1, NumberReads
  <2>5. field.type = "u16" => r = DecodeUnsigned(s, 2)
    BY <1>5, ReadValueIs
  <2>6. field.type = "number" => r = DecodeVLC(s, FALSE)
    BY <1>5, ReadValueIs
  <2> HIDE DEF r
  <2> QED BY <1>3, <1>5, <2>3, <2>4, <2>5, <2>6
<1>6. ASSUME ~field.seq, field.type = "signed", val \in Words PROVE Goal
  <2>1. ValueChunks(field, val) = <<EncodeVLC(val, TRUE)>>
    BY <1>6 DEF ValueChunks
  <2>2. C!Spans(s.mem, s.pos, <<EncodeVLC(val, TRUE)>>, end) /\ val \in 0 .. Modulus - 1
    BY <1>2, <1>4, <1>6, <2>1
  <2>3. ReadTo(DecodeVLC(s, TRUE), s, end, FALSE, val)
    BY <2>2, NumberReads
  <2>4. r = DecodeVLC(s, TRUE)
    BY <1>6, ReadValueIs
  <2> QED BY <1>3, <1>6, <2>3, <2>4
<1>7. ASSUME ~field.seq, field.type = "decimal", val \in Words \X Words, AsSigned(val[2]) \in -128 .. 127
      PROVE  Goal
  <2> DEFINE v == val[2]
             w == val[1]
             n == end - s.pos
  <2>1. ValueChunks(field, val) = <<EncodeVLC(v, TRUE), EncodeVLC(w, TRUE)>>
    BY <1>7 DEF ValueChunks
  <2>2. v \in 0 .. Modulus - 1 /\ w \in 0 .. Modulus - 1
    BY <1>4, <1>7
  <2>3. C!Spans(s.mem, s.pos, <<EncodeVLC(v, TRUE), EncodeVLC(w, TRUE)>>, end)
    BY <1>2, <1>7, <2>1
  <2>4. Found(field, slot) = <<AsSigned(w), AsSigned(v)>>
    BY <1>7 DEF Found, IsConverted, Sent
  <2>5. AsSigned(v) \in -128 .. 127
    BY <1>7
  <2> HIDE DEF v, w
  <2>6. n \in Nat /\ end \in Nat /\ C!Reads(C!DecodeDecimal(s), s, n, FALSE, <<AsSigned(w), AsSigned(v)>>)
    BY <2>2, <2>3, <2>5, DecimalReads
  <2>7. r = C!DecodeDecimal(s)
    BY <1>7, ReadValueIs, SameDecimal
  <2>8. n = end - s.pos
    OBVIOUS
  <2> HIDE DEF n, r
  <2>9. ReadTo(r, s, end, FALSE, <<AsSigned(w), AsSigned(v)>>)
    BY <2>6, <2>7, <2>8, ReadsTo
  <2> QED BY <2>4, <2>9
<1>8. ASSUME ~field.seq, field.type \in {"string", "fixed"}, val \in Texts,
             field.type = "fixed" => Len(val) = field.size
      PROVE  Goal
  <2>1. Len(val) < Modulus /\ C!Spans(s.mem, s.pos, ValueChunks(field, val), end)
    BY <1>2, <1>8
  <2>2. ReadTo(r, s, end, FALSE, val)
    BY <1>8, <2>1, TextFieldReads
  <2> QED BY <1>3, <1>8, <2>2
<1>12. ASSUME ~field.seq, field.type = "f64", val \in Words PROVE Goal
  <2> DEFINE n == end - s.pos
             made == DoubleOfNumber(val)
  <2>1. ValueChunks(field, val) = <<EncodeVLC(val, FALSE)>>
    BY <1>12, DoubleChunks
  <2>2. C!Spans(s.mem, s.pos, <<EncodeVLC(val, FALSE)>>, end) /\ val \in 0 .. Modulus - 1
    BY <1>2, <1>4, <1>12, <2>1
  <2>3. n \in Nat /\ end \in Nat /\ C!Reads(C!DecodeVLC(s, FALSE), s, n, FALSE, val)
    BY <2>2, WordReads
  <2>4. n = end - s.pos
    OBVIOUS
  <2> HIDE DEF n, made
  <2>5. C!Reads(C!DecodeF64(s), s, n, FALSE, made)
    <3>1. C!Reads(C!DecodeF64(s), s, n, FALSE, IF FALSE THEN val ELSE C!DoubleOfNumber(val))
      BY <2>3, C!F64Reads, EncodeAssumption, WordBytesAssumption, IntMaxAssumption
    <3>2. C!DoubleOfNumber(val) = made
      BY DEF C!DoubleOfNumber, DoubleOfNumber, made
    <3> QED BY <3>1, <3>2
  <2>6. r = C!DecodeF64(s)
    BY <1>12, ReadValueIs, SameDouble
  <2> HIDE DEF r
  <2>7. ReadTo(r, s, end, FALSE, made)
    BY <2>3, <2>4, <2>5, <2>6, ReadsTo
  <2>8. Found(field, slot) = made
    <3>1. CASE val = 0
      BY <1>12, <3>1 DEF Found, IsConverted, Sent, DoubleOfBits, DoubleOfNumber, made
    <3>2. CASE val # 0
      BY <1>12, <3>2 DEF Found, IsConverted, made
    <3> QED BY <3>1, <3>2
  <2> QED BY <2>7, <2>8
<1>9. Goal
  <2>1. ~field.seq =>
            \/ field.type \in {"number", "u16", "signed", "f64"} /\ val \in Words
            \/ field.type = "decimal" /\ val \in Words \X Words /\ AsSigned(val[2]) \in -128 .. 127
            \/ /\ field.type \in {"string", "fixed"} /\ val \in Texts
               /\ field.type = "fixed" => Len(val) = field.size
    BY DEF FieldHolds, IsPoisoned
  <2> HIDE DEF Goal, val
  <2> QED BY <1>1, <1>5, <1>6, <1>7, <1>8, <1>12, <2>1
<1> HIDE DEF r
<1>10. r.null = FALSE
  BY <1>9 DEF ReadTo, C!Answer
<1>11. ReadField(field, s) = r
  BY <1>10 DEF ReadField, Mandatory, r
<1> QED BY <1>9, <1>11
\* The fields of an object can be written, and are read as they were.
Readable(k) ==
    /\ NumberFits(fields[k])
    /\ FieldHolds(fields[k], slots[k]) /\ ~IsPoisoned(fields[k], slots[k])
    /\ slots[k].init \/ fields[k].opt

\* What is read of the field k.
AnswerOf(k, s) ==
    C!Answer(IF slots[k].init THEN FALSE ELSE TRUE, Found(fields[k], slots[k]), s)

\* Where fields start and end that are read from u.
AreEnds(p, u) ==
    /\ \A k \in 0 .. Len(fields) : p[k] \in Nat /\ u.pos <= p[k] /\ p[k] <= u.max
    /\ \A k \in 1 .. Len(fields) :
          p[k - 1] <= p[k] /\ C!Spans(u.mem, p[k - 1], Chunks(fields[k], slots[k]), p[k])

\* One field after those before it.
LEMMA NextFieldReads ==
    ASSUME \A text \in Texts : Len(text) < Modulus, Len(fields) \in Nat,
           NEW u, C!Reader(u), u.max <= INT_MAX, NEW p, AreEnds(p, u),
           NEW k \in 1 .. Len(fields), Readable(k)
    PROVE  ReadField(fields[k], C!Moved(u, p[k - 1] - u.pos)) = AnswerOf(k, C!Moved(u, p[k] - u.pos))
<1> DEFINE field == fields[k]
           slot == slots[k]
           a == p[k - 1] - u.pos
           b == p[k] - p[k - 1]
           t == C!Moved(u, a)
           null == IF slot.init THEN FALSE ELSE TRUE
           end == p[k]
<1>1. k - 1 \in 0 .. Len(fields) /\ k \in 0 .. Len(fields)
  OBVIOUS
<1>2. /\ p[k - 1] \in Nat /\ u.pos <= p[k - 1] /\ p[k - 1] <= u.max
      /\ end \in Nat /\ end <= u.max /\ p[k - 1] <= end
      /\ C!Spans(u.mem, p[k - 1], Chunks(field, slot), end)
  BY <1>1 DEF AreEnds
<1>3. u.pos \in Nat /\ u.max \in Nat
  BY DEF C!Reader
<1>4. a \in Nat /\ b \in Nat /\ u.pos + a = p[k - 1] /\ u.pos + a <= u.max /\ a + b = end - u.pos
  <2> DEFINE x == p[k - 1]
             y == u.pos
             z == u.max
  <2>1. x \in Nat /\ y \in Nat /\ z \in Nat /\ end \in Nat /\ y <= x /\ x <= z /\ x <= end
    BY <1>2, <1>3
  <2>2. a = x - y /\ b = end - x
    OBVIOUS
  <2> HIDE DEF a, b, end, x, y, z
  <2>3. a \in Nat /\ b \in Nat /\ y + a = x /\ y + a <= z /\ a + b = end - y
    BY <2>1, <2>2
  <2> QED BY <2>3 DEF x, y, z
<1> HIDE DEF a, b, end
<1>5. C!Reader(t) /\ t.pos = p[k - 1] /\ t.mem = u.mem /\ t.max = u.max
  BY <1>4, C!MovedIs, EncodeAssumption, WordBytesAssumption, IntMaxAssumption
<1>6. C!Moved(t, b) = C!Moved(u, a + b)
  BY <1>4, C!MovedTwice, EncodeAssumption, WordBytesAssumption, IntMaxAssumption
<1> HIDE DEF t
<1>7. C!Spans(t.mem, t.pos, Chunks(field, slot), end) /\ end <= t.max /\ t.max <= INT_MAX
  BY <1>2, <1>5
<1>8. ReadTo(ReadField(field, t), t, end, null, Found(field, slot))
  <2>1. CASE slot.init
    <3>1. ReadTo(ReadField(field, t), t, end, FALSE, Found(field, slot))
      BY <1>5, <1>7, <2>1, SetFieldReads DEF Readable
    <3> QED BY <2>1, <3>1
  <2>2. CASE ~slot.init
    <3>1. Chunks(field, slot) = <<EncodeNull>> /\ Found(field, slot) = NULL /\ field.opt
      BY <2>2 DEF Chunks, Found, IsConverted, Sent, Readable
    <3>2. C!Spans(t.mem, t.pos, <<EncodeNull>>, end)
      BY <1>7, <3>1
    <3>3. ReadTo(ReadField(field, t), t, end, TRUE, NULL)
      BY <1>5, <1>7, <3>1, <3>2, NullFieldReads
    <3> QED BY <2>2, <3>1, <3>3
  <2> QED BY <2>1, <2>2
<1> HIDE DEF null
<1>9. ReadField(field, t) = C!Answer(null, Found(field, slot), C!Moved(t, end - t.pos))
  BY <1>8 DEF ReadTo
<1>10. end - t.pos = b
  BY <1>5 DEF b, end
<1>11. ReadField(field, t) = C!Answer(null, Found(field, slot), C!Moved(u, end - u.pos))
  BY <1>4, <1>6, <1>9, <1>10
<1> QED BY <1>11 DEF AnswerOf, t, a, null, end

\* Every field is read as what was written of it, and the last one ends at the end.
AreSent(at, end) ==
    /\ \A k \in 1 .. Len(fields) : at[k].ok /\ at[k].val = Found(fields[k], slots[k])
    /\ at[Len(fields)].s.pos = end

\* The fields of a message, one after the other.
LEMMA FieldsAreRead ==
    ASSUME \A text \in Texts : Len(text) < Modulus, Len(fields) \in Nat,
           NEW u, C!Reader(u), u.max <= INT_MAX, NEW p, AreEnds(p, u),
           \A k \in 1 .. Len(fields) : Readable(k),
           NEW first, first.s = C!Moved(u, p[0] - u.pos)
    PROVE  AreSent(ReadFrom(first, fields), p[Len(fields)])
<1> DEFINE N == Len(fields)
           Place(k) == C!Moved(u, p[k] - u.pos)
           Eq(f) == f = [k \in 0 .. N |-> IF k = 0 THEN first ELSE ReadField(fields[k], f[k - 1].s)]
           at == CHOOSE f : Eq(f)
           f0 == [k \in 0 .. N |-> IF k = 0 THEN first ELSE AnswerOf(k, Place(k))]
<1>1. N \in Nat
  OBVIOUS
<1>2. \A k \in 1 .. N : ReadField(fields[k], Place(k - 1)) = AnswerOf(k, Place(k))
  BY NextFieldReads
<1>3. \A k \in 0 .. N : Place(k).pos = p[k]
  <2> SUFFICES ASSUME NEW k \in 0 .. N PROVE Place(k).pos = p[k]
    OBVIOUS
  <2> DEFINE a == p[k] - u.pos
  <2>1. a \in Nat /\ u.pos + a = p[k] /\ u.pos + a <= u.max
    <3>1. p[k] \in Nat /\ u.pos <= p[k] /\ p[k] <= u.max
      BY DEF AreEnds
    <3>2. u.pos \in Nat /\ u.max \in Nat
      BY DEF C!Reader
    <3> QED BY <3>1, <3>2
  <2> HIDE DEF a
  <2>2. C!Moved(u, a).pos = u.pos + a
    BY <2>1, C!MovedIs, EncodeAssumption, WordBytesAssumption, IntMaxAssumption
  <2> QED BY <2>1, <2>2 DEF a
<1>4. first.s = Place(0)
  OBVIOUS
<1> HIDE DEF Place, N
<1>5. \A k \in 1 .. N : \A s : /\ AnswerOf(k, s).s = s
                               /\ AnswerOf(k, s).ok = TRUE
                               /\ AnswerOf(k, s).val = Found(fields[k], slots[k])
  BY DEF AnswerOf, C!Answer
<1>6. \A k \in 0 .. N : f0[k] = IF k = 0 THEN first ELSE AnswerOf(k, Place(k))
  OBVIOUS
<1>7. \A k \in 0 .. N : f0[k].s = Place(k)
  <2> HIDE DEF f0
  <2> SUFFICES ASSUME NEW k \in 0 .. N PROVE f0[k].s = Place(k)
    OBVIOUS
  <2>1. CASE k = 0
    BY <1>4, <1>6, <2>1
  <2>2. CASE k # 0
    <3>1. k \in 1 .. N
      BY <1>1, <2>2
    <3> QED BY <1>5, <1>6, <2>2, <3>1
  <2> QED BY <2>1, <2>2
<1>8. Eq(f0)
  <2>1. f0 = [k \in 0 .. N |-> f0[k]]
    OBVIOUS
  <2> HIDE DEF f0
  <2>2. ASSUME NEW k \in 0 .. N
        PROVE  f0[k] = IF k = 0 THEN first ELSE ReadField(fields[k], f0[k - 1].s)
    <3>1. CASE k = 0
      BY <1>6, <3>1
    <3>2. CASE k # 0
      <4>1. k \in 1 .. N /\ k - 1 \in 0 .. N
        BY <1>1, <3>2
      <4>2. f0[k - 1].s = Place(k - 1)
        BY <1>7, <4>1
      <4>3. f0[k] = AnswerOf(k, Place(k))
        BY <1>6, <3>2
      <4> QED BY <1>2, <3>2, <4>1, <4>2, <4>3
    <3> QED BY <3>1, <3>2
  <2> QED BY <2>1, <2>2
<1> HIDE DEF f0, Eq
<1>9. Eq(at)
  BY <1>8
<1> HIDE DEF at
<1>10. at = [k \in 0 .. N |-> IF k = 0 THEN first ELSE ReadField(fields[k], at[k - 1].s)]
  BY <1>9 DEF Eq
<1>11. at[0] = first /\ \A k \in 1 .. N : at[k] = ReadField(fields[k], at[k - 1].s)
  <2>1. 0 \in 0 .. N /\ \A k \in 1 .. N : k \in 0 .. N /\ k # 0
    BY <1>1
  <2> QED BY <1>10, <2>1
<1> DEFINE S == {k \in 0 .. N : at[k].s = Place(k)}
<1>12. 0 \in S
  BY <1>1, <1>4, <1>11
<1>13. ASSUME NEW n \in 0 .. (N - 1), n \in S PROVE n + 1 \in S
  <2> DEFINE k == n + 1
  <2>1. k \in 1 .. N /\ k \in 0 .. N /\ k - 1 = n
    BY <1>1
  <2>2. at[n].s = Place(n)
    BY <1>13
  <2> HIDE DEF k
  <2>3. at[k] = AnswerOf(k, Place(k))
    BY <1>2, <1>11, <2>1, <2>2
  <2>4. at[k].s = Place(k)
    BY <1>5, <2>1, <2>3
  <2> QED BY <2>1, <2>4 DEF k
<1> HIDE DEF S
<1>14. \A n \in 0 .. N : n \in S
  BY <1>1, <1>12, <1>13, FromTo
<1>15. \A n \in 0 .. N : at[n].s = Place(n)
  BY <1>14 DEF S
<1>16. ASSUME NEW k \in 1 .. N PROVE at[k].ok /\ at[k].val = Found(fields[k], slots[k])
  <2>1. k - 1 \in 0 .. N
    BY <1>1
  <2>2. at[k] = AnswerOf(k, Place(k))
    BY <1>2, <1>11, <1>15, <2>1
  <2> QED BY <1>5, <2>2
<1>17. at[N].s.pos = p[N]
  <2>1. N \in 0 .. N
    BY <1>1
  <2> QED BY <1>3, <1>15, <2>1
<1>18. AreSent(at, p[N])
  BY <1>16, <1>17 DEF AreSent, N
<1>19. ReadFrom(first, fields) = at
  BY DEF ReadFrom, at, Eq, N
<1> QED BY <1>18, <1>19 DEF N
-----------------------------------------------------------------------------
\* What is written of the fields.

\* A write, and two, in a row.
LEMMA OneOrTwo ==
    ASSUME NEW d \in Seq(Nat)
    PROVE  /\ C!AreChunks(<<d>>) /\ <<d>> \in Seq(Seq(Nat))
           /\ \A e \in Seq(Nat) : C!AreChunks(<<d, e>>) /\ <<d, e>> \in Seq(Seq(Nat))
<1> DEFINE S == Seq(Nat)
<1>1. d \in S
  OBVIOUS
<1> HIDE DEF S
<1>2. <<d>> \in Seq(S) /\ Len(<<d>>) = 1 /\ <<d>>[1] = d
  BY <1>1
<1>3. ASSUME NEW e \in S PROVE <<d, e>> \in Seq(S) /\ Len(<<d, e>>) = 2 /\ <<d, e>>[1] = d /\ <<d, e>>[2] = e
  BY <1>1
<1>4. C!AreChunks(<<d>>)
  <2> DEFINE c == <<d>>
  <2>1. Len(c) = 1 /\ c[1] \in S
    BY <1>1, <1>2
  <2> HIDE DEF c
  <2>2. C!AreChunks(c)
    BY <2>1 DEF C!AreChunks, S
  <2> QED BY <2>2 DEF c
<1>5. ASSUME NEW e \in S PROVE C!AreChunks(<<d, e>>)
  <2> DEFINE c == <<d, e>>
  <2>1. Len(c) = 2 /\ c[1] \in S /\ c[2] \in S
    BY <1>1, <1>3, <1>5
  <2> HIDE DEF c
  <2>2. C!AreChunks(c)
    BY <2>1 DEF C!AreChunks, S
  <2> QED BY <2>2 DEF c
<1> QED BY <1>2, <1>3, <1>4, <1>5 DEF S

\* The writes of a field are one or two.
LEMMA ChunksAre ==
    ASSUME \A text \in Texts : Len(text) < Modulus, NEW field, NEW slot, FieldHolds(field, slot),
           ~IsPoisoned(field, slot)
    PROVE  C!AreChunks(Chunks(field, slot)) /\ Chunks(field, slot) \in Seq(Seq(Nat))
<1> DEFINE c == Chunks(field, slot)
           val == slot.val
           Goal == C!AreChunks(c) /\ c \in Seq(Seq(Nat))
<1>1. ASSUME NEW d \in Seq(Nat), c = <<d>> PROVE Goal
  BY <1>1, OneOrTwo
<1>2. ASSUME NEW d \in Seq(Nat), NEW e \in Seq(Nat), c = <<d, e>> PROVE Goal
  BY <1>2, OneOrTwo
<1>3. ASSUME NEW w \in Words PROVE w \in 0 .. Modulus - 1
  BY EncodeAssumption
<1>4. ASSUME NEW w \in 0 .. Modulus - 1, NEW isSigned \in BOOLEAN PROVE EncodeVLC(w, isSigned) \in Seq(Nat)
  BY <1>4, EncodedIs
<1>5. ASSUME ~slot.init PROVE Goal
  <2>1. c = <<EncodeNull>> /\ EncodeNull \in Seq(Nat)
    BY <1>5 DEF Chunks, EncodeNull
  <2> QED BY <1>1, <2>1
<1>6. ASSUME slot.init, field.seq PROVE Goal
  <2>1. c = <<EncodeVLC(0, FALSE)>>
    BY <1>6 DEF Chunks
  <2>2. EncodeVLC(0, FALSE) \in Seq(Nat)
    BY <1>4, Bounds
  <2> QED BY <1>1, <2>1, <2>2
<1>7. ASSUME slot.init, ~field.seq PROVE c = ValueChunks(field, val)
  BY <1>7 DEF Chunks
<1> HIDE DEF Goal
<1>8. ASSUME slot.init, ~field.seq, field.type \in {"number", "u16", "signed", "f64"}, val \in Words PROVE Goal
  <2>1. \E isSigned \in BOOLEAN : ValueChunks(field, val) = <<EncodeVLC(val, isSigned)>>
    BY <1>8, DoubleChunks DEF ValueChunks
  <2> QED BY <1>1, <1>3, <1>4, <1>7, <1>8, <2>1
<1>9. ASSUME slot.init, ~field.seq, field.type = "decimal", val \in Words \X Words PROVE Goal
  <2>1. ValueChunks(field, val) = <<EncodeVLC(val[2], TRUE), EncodeVLC(val[1], TRUE)>>
    BY <1>9 DEF ValueChunks
  <2>2. val[1] \in Words /\ val[2] \in Words
    BY <1>9
  <2> QED BY <1>2, <1>3, <1>4, <1>7, <1>9, <2>1, <2>2
<1>10. ASSUME slot.init, ~field.seq, field.type \in {"string", "fixed"}, val \in Texts PROVE Goal
  <2>1. val \in Seq(Nat)
    BY <1>10, TextIs
  <2>2. ASSUME field.type = "string" PROVE Goal
    <3>1. ValueChunks(field, val) = <<EncodeVLC(Len(val), FALSE), val>>
      BY <2>2 DEF ValueChunks
    <3>2. Modulus \in Nat /\ Len(val) \in Nat /\ Len(val) < Modulus
      BY <1>10, <2>1, Bounds
    <3>3. Len(val) \in 0 .. Modulus - 1
      BY <3>2
    <3>4. EncodeVLC(Len(val), FALSE) \in Seq(Nat)
      BY <1>4, <3>3
    <3> QED BY <1>2, <1>7, <1>10, <2>1, <3>1, <3>4
  <2>3. ASSUME field.type = "fixed", field.opt PROVE Goal
    <3>1. ValueChunks(field, val) = <<EncodePresent>> \o <<val>>
      BY <2>3 DEF ValueChunks
    <3>2. EncodePresent \in Seq(Nat)
      BY DEF EncodePresent
    <3>3. <<EncodePresent>> \o <<val>> = <<EncodePresent, val>>
      BY <2>1, <3>2, TwoInARow
    <3> QED BY <1>2, <1>7, <1>10, <2>1, <3>1, <3>2, <3>3
  <2>4. ASSUME field.type = "fixed", ~field.opt PROVE Goal
    <3>1. ValueChunks(field, val) = <<>> \o <<val>>
      BY <2>4 DEF ValueChunks
    <3>2. <<>> \o <<val>> = <<val>>
      OBVIOUS
    <3> QED BY <1>1, <1>7, <1>10, <2>1, <3>1, <3>2
  <2> QED BY <1>10, <2>2, <2>3, <2>4
<1>11. slot.init /\ ~field.seq =>
        \/ field.type \in {"number", "u16", "signed", "f64"} /\ val \in Words
        \/ field.type = "decimal" /\ val \in Words \X Words
        \/ field.type \in {"string", "fixed"} /\ val \in Texts
  BY DEF FieldHolds, IsPoisoned
<1> HIDE DEF val
<1>12. Goal
  BY <1>5, <1>6, <1>8, <1>9, <1>10, <1>11
<1> QED BY <1>12 DEF Goal

\* Where the field k ends, of a body written to s.
EndOfField(s, upTo, k) == WriteAll(s, upTo[k]).s.pos

\* The first n fields are written, or some of them.
IsLaid(s, upTo, n) ==
    LET r == WriteAll(s, upTo[n])
    IN  /\ upTo[n] \in Seq(Seq(Nat))
        /\ r.ok \in BOOLEAN
        /\ C!Keeps(s, r.s)
        /\ EndOfField(s, upTo, n) = r.s.pos
        /\ r.ok =>
              /\ \A k \in 0 .. n : EndOfField(s, upTo, k) \in Nat /\ EndOfField(s, upTo, k) <= r.s.pos
              /\ \A k \in 1 .. n :
                    /\ EndOfField(s, upTo, k - 1) <= EndOfField(s, upTo, k)
                    /\ C!Spans(r.s.mem, EndOfField(s, upTo, k - 1), Chunks(fields[k], slots[k]),
                               EndOfField(s, upTo, k))

\* Nothing is written for no fields.
LEMMA NoneWritten ==
    ASSUME NEW s, C!Writer(s), NEW upTo, upTo[0] = <<>>
    PROVE  IsLaid(s, upTo, 0) /\ EndOfField(s, upTo, 0) = s.pos
<1> DEFINE r == WriteAll(s, <<>>)
<1>1. C!WriteAll(s, <<>>) = r
  BY SameWriting
<1> HIDE DEF r
<1>2. <<>> \in Seq(Seq(Nat)) /\ r.ok \in BOOLEAN /\ C!Keeps(s, r.s)
      /\ (r.ok => r.s.pos = s.pos + 0) /\ (~r.ok => r.s.pos < s.pos + 0)
  BY <1>1, NoneTake DEF C!Takes
<1>3. s.pos \in Nat /\ r.s.pos \in Nat /\ s.pos <= r.s.pos
  BY <1>2 DEF C!Keeps, C!Writer
<1>4. r.s.pos = s.pos
  BY <1>2, <1>3
<1>5. WriteAll(s, upTo[0]) = r
  BY DEF r
<1>6. EndOfField(s, upTo, 0) = r.s.pos
  BY <1>5 DEF EndOfField
<1>7. IsLaid(s, upTo, 0)
  BY <1>2, <1>3, <1>5, <1>6 DEF IsLaid
<1> QED BY <1>4, <1>6, <1>7

\* One field is written after those before it.
LEMMA NextWritten ==
    ASSUME NEW s, C!Writer(s), NEW upTo, NEW n \in Nat, NEW k, k = n + 1, IsLaid(s, upTo, n),
           NEW c, c = Chunks(fields[k], slots[k]), C!AreChunks(c), c \in Seq(Seq(Nat)),
           \A j \in 1 .. n : C!AreChunks(Chunks(fields[j], slots[j])),
           upTo[k] = upTo[n] \o c
    PROVE  IsLaid(s, upTo, k)
<1> DEFINE r == WriteAll(s, upTo[n])
           q == WriteAll(s, upTo[k])
           w == WriteAll(r.s, c)
           End(j) == EndOfField(s, upTo, j)
<1>1. /\ upTo[n] \in Seq(Seq(Nat))
      /\ r.ok \in BOOLEAN
      /\ C!Keeps(s, r.s)
      /\ End(n) = r.s.pos
      /\ r.ok =>
            /\ \A j \in 0 .. n : End(j) \in Nat /\ End(j) <= r.s.pos
            /\ \A j \in 1 .. n :
                  End(j - 1) <= End(j) /\ C!Spans(r.s.mem, End(j - 1), Chunks(fields[j], slots[j]), End(j))
  BY DEF IsLaid
<1>2. upTo[k] \in Seq(Seq(Nat))
  BY <1>1, ConcatProperties
<1>3. q = IF r.ok THEN w ELSE r
  <2>1. C!WriteAll(s, upTo[n] \o c) = IF C!WriteAll(s, upTo[n]).ok
                                     THEN C!WriteAll(C!WriteAll(s, upTo[n]).s, c) ELSE C!WriteAll(s, upTo[n])
    BY <1>1, C!WriteAllBoth, EncodeAssumption, WordBytesAssumption, IntMaxAssumption
  <2>2. C!WriteAll(s, upTo[n]) = r /\ C!WriteAll(s, upTo[n] \o c) = q
    BY SameWriting
  <2>3. C!WriteAll(r.s, c) = w
    BY SameWriting
  <2> HIDE DEF r, q, w
  <2> QED BY <2>1, <2>2, <2>3
<1>4. C!Writer(r.s) /\ r.s.pos \in Nat
  BY <1>1 DEF C!Keeps, C!Writer
<1>5. /\ w.ok \in BOOLEAN
      /\ C!Keeps(r.s, w.s)
      /\ w.ok => C!Spans(w.s.mem, r.s.pos, c, w.s.pos)
  <2>1. C!WriteAll(r.s, c) = w
    BY SameWriting
  <2> DEFINE t == r.s
  <2>2. C!Writer(t)
    BY <1>4
  <2> HIDE DEF r, w, t
  <2>3. LET x == C!WriteAll(t, c)
        IN  x.ok \in BOOLEAN /\ C!Keeps(t, x.s) /\ (x.ok => C!Spans(x.s.mem, t.pos, c, x.s.pos))
    BY <2>2, C!ItemWritten, EncodeAssumption, WordBytesAssumption, IntMaxAssumption
  <2> QED BY <2>1, <2>3 DEF t
<1>6. End(k) = q.s.pos
  BY DEF EndOfField
<1> HIDE DEF q, w, r
<1>7. q.ok \in BOOLEAN /\ C!Keeps(s, q.s)
  <2>1. C!Keeps(s, w.s)
    BY <1>1, <1>5, C!KeepsTwice, EncodeAssumption, WordBytesAssumption, IntMaxAssumption
  <2> QED BY <1>1, <1>3, <1>5, <2>1
<1> DEFINE Laid == /\ \A j \in 0 .. k : End(j) \in Nat /\ End(j) <= q.s.pos
                   /\ \A j \in 1 .. k :
                         End(j - 1) <= End(j) /\ C!Spans(q.s.mem, End(j - 1), Chunks(fields[j], slots[j]), End(j))
<1>8. ASSUME q.ok PROVE Laid
  <2>1. r.ok /\ q = w /\ w.ok
    BY <1>1, <1>3, <1>5, <1>8
  <2>2. w.s.pos \in Nat /\ r.s.pos <= w.s.pos
    BY <1>5 DEF C!Keeps, C!Writer
  <2> HIDE DEF End
  <2>3. ASSUME NEW j \in 0 .. k PROVE End(j) \in Nat /\ End(j) <= q.s.pos
    <3>1. CASE j = k
      BY <1>6, <2>1, <2>2, <3>1
    <3>2. CASE j # k
      <4>1. j \in 0 .. n
        BY <3>2
      <4>2. End(j) \in Nat /\ End(j) <= r.s.pos
        BY <1>1, <2>1, <4>1
      <4> QED BY <1>4, <2>1, <2>2, <4>2
    <3> QED BY <3>1, <3>2
  <2>4. ASSUME NEW j \in 1 .. k
        PROVE  End(j - 1) <= End(j) /\ C!Spans(q.s.mem, End(j - 1), Chunks(fields[j], slots[j]), End(j))
    <3>1. CASE j = k
      <4>1. j - 1 = n /\ End(n) = r.s.pos /\ End(k) = w.s.pos
        BY <1>1, <1>6, <2>1, <3>1
      <4> QED BY <1>5, <2>1, <2>2, <3>1, <4>1
    <3>2. CASE j # k
      <4>1. j \in 1 .. n /\ j \in 0 .. n /\ j - 1 \in 0 .. n
        BY <3>2
      <4> DEFINE d == Chunks(fields[j], slots[j])
      <4>2. /\ End(j - 1) <= End(j) /\ End(j - 1) \in Nat /\ End(j) <= r.s.pos
            /\ C!Spans(r.s.mem, End(j - 1), d, End(j)) /\ C!AreChunks(d)
        BY <1>1, <2>1, <4>1
      <4> HIDE DEF d
      <4>3. C!Spans(w.s.mem, End(j - 1), d, End(j))
        BY <1>4, <1>5, <4>2, C!SpansStay, EncodeAssumption, WordBytesAssumption, IntMaxAssumption
      <4> QED BY <2>1, <4>2, <4>3 DEF d
    <3> QED BY <3>1, <3>2
  <2> QED BY <2>3, <2>4
<1>9. IsLaid(s, upTo, k)
  BY <1>2, <1>6, <1>7, <1>8 DEF IsLaid, q
<1> QED BY <1>9

\* A body is written field by field.
LEMMA BodyLaid ==
    ASSUME NEW s, C!Writer(s), Len(fields) \in Nat, NEW upTo, BodyUpTo(upTo),
           \A k \in 1 .. Len(fields) :
              C!AreChunks(Chunks(fields[k], slots[k])) /\ Chunks(fields[k], slots[k]) \in Seq(Seq(Nat))
    PROVE  IsLaid(s, upTo, Len(fields)) /\ EndOfField(s, upTo, 0) = s.pos
<1> DEFINE N == Len(fields)
           S == {n \in 0 .. N : IsLaid(s, upTo, n)}
<1>1. upTo[0] = <<>> /\ \A k \in 1 .. N : upTo[k] = upTo[k - 1] \o Chunks(fields[k], slots[k])
  BY DEF BodyUpTo
<1>2. N \in Nat
  OBVIOUS
<1>3. IsLaid(s, upTo, 0) /\ EndOfField(s, upTo, 0) = s.pos
  BY <1>1, NoneWritten
<1>4. \A k \in 1 .. N : C!AreChunks(Chunks(fields[k], slots[k])) /\ Chunks(fields[k], slots[k]) \in Seq(Seq(Nat))
  OBVIOUS
<1> HIDE DEF N
<1>5. 0 \in S
  BY <1>2, <1>3
<1>6. ASSUME NEW n \in 0 .. (N - 1), n \in S PROVE n + 1 \in S
  <2> DEFINE k == n + 1
             c == Chunks(fields[k], slots[k])
  <2>1. k \in 1 .. N /\ k \in 0 .. N /\ n \in Nat /\ k - 1 = n /\ \A j \in 1 .. n : j \in 1 .. N
    BY <1>2
  <2>2. k = n + 1 /\ IsLaid(s, upTo, n)
    BY <1>6
  <2> HIDE DEF k
  <2>3. C!AreChunks(c) /\ c \in Seq(Seq(Nat)) /\ upTo[k] = upTo[n] \o c
    BY <1>1, <1>4, <2>1
  <2>4. \A j \in 1 .. n : C!AreChunks(Chunks(fields[j], slots[j]))
    BY <1>4, <2>1
  <2>5. c = Chunks(fields[k], slots[k])
    OBVIOUS
  <2> HIDE DEF c
  <2>6. IsLaid(s, upTo, k)
    BY <2>1, <2>2, <2>3, <2>4, <2>5, NextWritten
  <2> QED BY <2>1, <2>6 DEF k
<1> HIDE DEF S
<1>7. \A n \in 0 .. N : n \in S
  BY <1>2, <1>5, <1>6, FromTo
<1>8. N \in S
  BY <1>2, <1>7
<1> QED BY <1>3, <1>8 DEF S, N
-----------------------------------------------------------------------------
\* The size of a message.

\* The largest message has a size that fits a word.
SizesFit ==
    \E most \in Nat :
        /\ \A text \in Texts : Len(text) <= most
        /\ \A g \in WithId : (Len(EachField(g)) + 1) * MostOfField(most) < Modulus

\* The object is one of its group, with values of its fields' types, and the output can be
\* written.
Sound ==
    /\ group \in Groups
    /\ fields = EachField(group)
    /\ C!Writer(out) /\ out.max = Capacity
    /\ phase = "use" =>
          /\ DOMAIN slots = DOMAIN fields
          /\ \A k \in DOMAIN slots : FieldHolds(fields[k], slots[k])

\* The bytes cacheSize counts for a field are no more than some field has.
LEMMA FieldCounts ==
    ASSUME NEW most \in Nat, most < Modulus, \A text \in Texts : Len(text) <= most,
           NEW field, NEW slot, FieldHolds(field, slot), ~IsPoisoned(field, slot)
    PROVE  CachedSize(field, slot) \in 0 .. MostOfField(most)
<1> DEFINE Goal == CachedSize(field, slot) \in 0 .. MostOfField(most)
           val == slot.val
           W == WORD_BYTES + 1
<1>1. ASSUME NEW w \in 0 .. Modulus - 1, NEW isSigned \in BOOLEAN PROVE Sizeof(w, isSigned) \in 1 .. W
  BY <1>1, EncodedIs
<1>2. /\ \A k \in 1 .. W, l \in 1 .. W : k \in 0 .. MostOfField(most) /\ k + l \in 0 .. MostOfField(most)
      /\ \A k \in 1 .. W, n \in 0 .. most : n \in 0 .. MostOfField(most) /\ k + n \in 0 .. MostOfField(most)
      /\ 1 \in 0 .. MostOfField(most) /\ Modulus \in Nat /\ 1 \in 1 .. W
  <2>1. 1 \in 1 .. W
    BY WordBytesAssumption
  <2> QED BY <2>1, Bounds
<1> HIDE DEF W
<1>3. ASSUME NEW w \in Words PROVE w \in 0 .. Modulus - 1
  BY EncodeAssumption
<1>4. ASSUME ~slot.init \/ field.seq PROVE Goal
  <2>1. CachedSize(field, slot) = 1
    BY <1>4 DEF CachedSize
  <2> QED BY <1>2, <2>1
<1>5. ASSUME slot.init, ~field.seq, field.type \in {"number", "u16", "signed", "f64"}, val \in Words PROVE Goal
  <2>1. \E isSigned \in BOOLEAN : CachedSize(field, slot) = Sizeof(val, isSigned)
    BY <1>5 DEF CachedSize, Sizeof
  <2> QED BY <1>1, <1>2, <1>3, <1>5, <2>1
<1>6. ASSUME slot.init, ~field.seq, field.type = "decimal", val \in Words \X Words PROVE Goal
  <2>1. CachedSize(field, slot) = Sizeof(val[2], TRUE) + Sizeof(val[1], TRUE)
    BY <1>6 DEF CachedSize, Sizeof
  <2>2. val[1] \in 0 .. Modulus - 1 /\ val[2] \in 0 .. Modulus - 1
    BY <1>3, <1>6
  <2>3. Sizeof(val[2], TRUE) \in 1 .. W /\ Sizeof(val[1], TRUE) \in 1 .. W
    BY <1>1, <2>2
  <2> HIDE DEF val
  <2> QED BY <1>2, <2>1, <2>3
<1>7. ASSUME slot.init, ~field.seq, field.type \in {"string", "fixed"}, val \in Texts PROVE Goal
  <2> DEFINE n == Len(val)
  <2>1. val \in Seq(Nat) /\ Len(val) <= most
    BY <1>7, TextIs
  <2>2. n \in 0 .. most
    BY <2>1
  <2>3. \/ CachedSize(field, slot) = n
        \/ CachedSize(field, slot) = Sizeof(n, FALSE) + n
    BY <1>7 DEF CachedSize, Sizeof
  <2> HIDE DEF n, val
  <2>4. n \in 0 .. Modulus - 1
    BY <1>2, <2>2
  <2>5. Sizeof(n, FALSE) \in 1 .. W
    BY <1>1, <2>4
  <2> QED BY <1>2, <2>2, <2>3, <2>5
<1>8. slot.init /\ ~field.seq =>
        \/ field.type \in {"number", "u16", "signed", "f64"} /\ val \in Words
        \/ field.type = "decimal" /\ val \in Words \X Words
        \/ field.type \in {"string", "fixed"} /\ val \in Texts
  BY DEF FieldHolds, IsPoisoned
<1> HIDE DEF val, Goal
<1>9. Goal
  BY <1>4, <1>5, <1>6, <1>7, <1>8
<1> QED BY <1>9 DEF Goal

\* Nor is the size of a body more than those of so many fields.
LEMMA BodyCounts ==
    ASSUME NEW M \in Nat, Len(fields) \in Nat,
           \A k \in 1 .. Len(fields) : CachedSize(fields[k], slots[k]) \in 0 .. M
    PROVE  BodySize \in 0 .. Len(fields) * M
<1> DEFINE N == Len(fields)
<1>1. PICK sum : SizeUpTo(sum) /\ BodySize = sum[N]
  BY BodySizeIs
<1>2. sum[0] = 0 /\ \A k \in 1 .. N : sum[k] = sum[k - 1] + CachedSize(fields[k], slots[k])
  BY <1>1 DEF SizeUpTo
<1>3. N \in Nat /\ \A k \in 1 .. N : CachedSize(fields[k], slots[k]) \in 0 .. M
  OBVIOUS
<1> HIDE DEF N
<1> DEFINE S == {n \in 0 .. N : sum[n] \in 0 .. n * M}
<1>4. 0 \in S
  <2>1. 0 * M = 0
    OBVIOUS
  <2> QED BY <1>2, <1>3, <2>1
<1>5. ASSUME NEW n \in 0 .. (N - 1), n \in S PROVE n + 1 \in S
  <2> DEFINE k == n + 1
             m == CachedSize(fields[k], slots[k])
             p == n * M
             q == k * M
  <2>1. k \in 1 .. N /\ k \in 0 .. N /\ k - 1 = n /\ n \in Nat
    BY <1>3
  <2>2. q = p + M /\ p \in Nat
    BY <2>1
  <2>3. sum[k] = sum[n] + m /\ m \in 0 .. M
    BY <1>2, <1>3, <2>1
  <2>4. sum[n] \in 0 .. p
    BY <1>5
  <2> HIDE DEF k, m, p, q
  <2>5. sum[k] \in 0 .. q
    BY <2>2, <2>3, <2>4
  <2>6. k \in S
    BY <2>1, <2>5 DEF q
  <2> QED BY <2>6 DEF k
<1> HIDE DEF S
<1>6. \A n \in 0 .. N : n \in S
  BY <1>3, <1>4, <1>5, FromTo
<1>7. N \in S
  BY <1>3, <1>6
<1>8. sum[N] \in 0 .. N * M
  BY <1>7 DEF S
<1> QED BY <1>1, <1>8 DEF N

\* No text and no message of this group is too large for a word, if texts have at most so many
\* bytes.
AllFit(most) ==
    /\ \A text \in Texts : Len(text) <= most
    /\ most < Modulus
    /\ Len(fields) * MostOfField(most) \in Nat
    /\ Len(fields) * MostOfField(most) + WORD_BYTES + 1 < Modulus

\* There is a largest message, and it fits.
LEMMA LargestFits ==
    ASSUME SizesFit, Sound, group \in WithId, Len(fields) \in Nat
    PROVE  \E most \in Nat : AllFit(most)
<1> DEFINE N == Len(fields)
           W == WORD_BYTES + 1
<1>1. PICK most \in Nat : /\ \A text \in Texts : Len(text) <= most
                          /\ \A g \in WithId : (Len(EachField(g)) + 1) * MostOfField(most) < Modulus
  BY DEF SizesFit
<1> DEFINE M == MostOfField(most)
           p == N * M
<1>2. Modulus \in Nat /\ W \in Nat /\ W >= 3 /\ WORD_BYTES \in Nat
  BY Bounds, WordBytesAssumption
<1>3. (N + 1) * M < Modulus
  BY <1>1 DEF Sound
<1>4. M = most + 2 * W
  BY DEF MostOfField
<1>5. M \in Nat /\ most <= M /\ W <= M
  <2> HIDE DEF M, W
  <2> QED BY <1>2, <1>4
<1>6. (N + 1) * M = p + M /\ p \in Nat
  <2>1. N \in Nat
    OBVIOUS
  <2> HIDE DEF M, N
  <2> QED BY <1>5, <2>1
<1>7. p + W < Modulus /\ most < Modulus
  <2> HIDE DEF p, M, W, N
  <2> QED BY <1>2, <1>3, <1>5, <1>6
<1>8. p + WORD_BYTES + 1 < Modulus
  <2> HIDE DEF p
  <2> QED BY <1>2, <1>6, <1>7
<1> QED BY <1>1, <1>6, <1>7, <1>8 DEF AllFit

\* What is known when encodeCompact starts to write.
LEMMA EncodesSound ==
    ASSUME SizesFit, Sound, phase = "use", group \in WithId, Stops = {}
    PROVE  /\ Len(fields) \in Nat /\ DOMAIN fields = 1 .. Len(fields)
           /\ \A text \in Texts : Len(text) < Modulus
           /\ \A k \in 1 .. Len(fields) :
                 /\ k \in DOMAIN slots
                 /\ FieldHolds(fields[k], slots[k]) /\ ~IsPoisoned(fields[k], slots[k])
                 /\ slots[k].init \/ fields[k].opt
           /\ group \in 0 .. Modulus - 1
           /\ BodySize + Len(EncodeVLC(group, FALSE)) \in 0 .. Modulus - 1
<1> DEFINE N == Len(fields)
<1>1. fields \in Seq(Fields)
  BY FieldsAre, SchemaAssumption DEF Sound
<1>2. N \in Nat /\ DOMAIN fields = 1 .. N
  BY <1>1, LenProperties
<1>3. \A k \in 1 .. N : /\ k \in DOMAIN slots
                        /\ FieldHolds(fields[k], slots[k]) /\ ~IsPoisoned(fields[k], slots[k])
                        /\ slots[k].init \/ fields[k].opt
  <2> SUFFICES ASSUME NEW k \in 1 .. N
               PROVE  /\ k \in DOMAIN slots
                      /\ FieldHolds(fields[k], slots[k]) /\ ~IsPoisoned(fields[k], slots[k])
                      /\ slots[k].init \/ fields[k].opt
    OBVIOUS
  <2>1. k \in DOMAIN slots /\ FieldHolds(fields[k], slots[k])
    BY <1>2 DEF Sound
  <2>2. ~Missing(k) /\ ~Poisoned(k)
    BY <2>1 DEF Stops
  <2>3. ~IsPoisoned(fields[k], slots[k])
    BY <2>2 DEF Poisoned, Overwritten, Field, IsPoisoned
  <2> QED BY <2>1, <2>2, <2>3 DEF Missing, Field
<1>4. PICK most \in Nat : AllFit(most)
  BY <1>2, LargestFits
<1> DEFINE M == MostOfField(most)
<1>5. /\ \A text \in Texts : Len(text) <= most
      /\ most < Modulus /\ N * M \in Nat /\ N * M + WORD_BYTES + 1 < Modulus
  BY <1>4 DEF AllFit
<1>6. Modulus \in Nat /\ WORD_BYTES \in Nat /\ M \in Nat
  <2>1. Modulus \in Nat /\ WORD_BYTES \in Nat
    BY Bounds, WordBytesAssumption
  <2> QED BY <2>1 DEF MostOfField
<1>7. \A text \in Texts : Len(text) < Modulus
  <2> SUFFICES ASSUME NEW text \in Texts PROVE Len(text) < Modulus
    OBVIOUS
  <2>1. Len(text) \in Nat /\ Len(text) <= most
    BY <1>5, TextIs
  <2> QED BY <1>5, <1>6, <2>1
<1>8. BodySize \in 0 .. N * M
  <2>1. \A k \in 1 .. N : CachedSize(fields[k], slots[k]) \in 0 .. M
    BY <1>3, <1>5, FieldCounts
  <2> HIDE DEF M
  <2> QED BY <1>2, <1>6, <2>1, BodyCounts
<1>9. group \in 0 .. Modulus - 1
  BY EncodeAssumption
<1>10. Len(EncodeVLC(group, FALSE)) \in 1 .. WORD_BYTES + 1
  BY <1>9, EncodedIs
<1>11. BodySize + Len(EncodeVLC(group, FALSE)) \in 0 .. Modulus - 1
  <2> DEFINE p == N * M
             k == Len(EncodeVLC(group, FALSE))
             n == BodySize
  <2>1. p \in Nat /\ p + WORD_BYTES + 1 < Modulus /\ k \in 1 .. WORD_BYTES + 1 /\ n \in 0 .. p
    BY <1>5, <1>8, <1>10
  <2> HIDE DEF p, k, n
  <2>2. n + k \in 0 .. Modulus - 1
    BY <1>6, <2>1
  <2> QED BY <2>2 DEF k, n
<1> QED BY <1>2, <1>3, <1>7, <1>9, <1>11
-----------------------------------------------------------------------------
\* The message as it is read.

\* Every field that holds 16 bits is set to numbers of 16 bits: BLINK_Object_setUint puts any.
NumbersFit == \A g \in Groups : OwnFields[g] \in Seq({field \in Fields : NumberFits(field)})

\* A message can be read from its first byte to its last.
LEMMA MessageIs ==
    ASSUME NEW s, NEW r, s.pos \in Nat, r.s.pos \in Nat, s.pos <= r.s.pos
    PROVE  LET u == MessageAt(s, r)
           IN  C!Reader(u) /\ u.pos = s.pos /\ u.max = r.s.pos /\ u.mem = r.s.mem
<1> DEFINE u == MessageAt(s, r)
           at == s.pos
           end == r.s.pos
           mem == r.s.mem
           full == [in |-> TRUE, out |-> FALSE, mem |-> mem, max |-> end, pos |-> at, eof |-> FALSE]
           first == [in |-> TRUE, out |-> FALSE, mem |-> mem, max |-> end, pos |-> 0, eof |-> FALSE]
<1>1. NewBuffer(TRUE, FALSE, mem, end) = first
  BY DEF NewBuffer
<1>2. u = [first EXCEPT !.pos = at]
  <2> HIDE DEF first
  <2> QED BY <1>1 DEF MessageAt
<1>3. at \in Nat /\ end \in Nat /\ at <= end
  OBVIOUS
<1> HIDE DEF at, end, mem, u
<1>4. u = full
  BY <1>2
<1>5. full \in [in : {TRUE}, out : BOOLEAN, mem : {mem}, max : Nat, pos : Nat, eof : BOOLEAN]
  BY <1>3
<1>6. full.mem = mem /\ full.pos = at /\ full.max = end
  OBVIOUS
<1> HIDE DEF full
<1>7. C!Reader(full)
  BY <1>3, <1>5, <1>6 DEF C!Reader
<1> QED BY <1>4, <1>6, <1>7 DEF at, end, mem, u

\* The two words at the head of a message are read as they were written.
LEMMA HeadReads ==
    ASSUME NEW u, C!Reader(u), NEW v \in 0 .. Modulus - 1, NEW w \in 0 .. Modulus - 1, NEW end,
           C!Spans(u.mem, u.pos, <<EncodeVLC(v, FALSE), EncodeVLC(w, FALSE)>>, end), end <= u.max
    PROVE  /\ end \in Nat /\ u.pos <= end
           /\ DecodeVLC(DecodeVLC(u, FALSE).s, FALSE) = C!Answer(FALSE, w, C!Moved(u, end - u.pos))
<1> DEFINE d == EncodeVLC(v, FALSE)
           e == EncodeVLC(w, FALSE)
           m == Len(d)
           n == Len(e)
           chunks == <<d, e>>
           t == C!Moved(u, m)
           r == DecodeVLC(u, FALSE)
           q == DecodeVLC(t, FALSE)
<1>1. /\ d \in Seq(Nat) /\ C!EncodeVLC(v, FALSE) = d /\ v \in 0 .. C!Modulus - 1
      /\ e \in Seq(Nat) /\ C!EncodeVLC(w, FALSE) = e /\ w \in 0 .. C!Modulus - 1
  BY EncodedIs, SameEncoding, SameModulus
<1> HIDE DEF d, e
<1>2. m \in Nat /\ n \in Nat
  BY <1>1
<1>3. u.pos \in Nat /\ u.max \in Nat
  BY DEF C!Reader
<1>4. C!Chunk(u.mem, u.pos, d) /\ C!Chunk(u.mem, u.pos + m, e) /\ end = u.pos + m + n
  <2>1. Len(chunks) = 2 /\ chunks[1] = d /\ chunks[2] = e
    OBVIOUS
  <2>2. C!Spans(u.mem, u.pos, chunks, end)
    BY DEF d, e
  <2> HIDE DEF chunks
  <2> QED BY <2>1, <2>2 DEF C!Spans
<1> HIDE DEF chunks
<1>5. C!Reads(r, u, m, FALSE, v)
  <2>1. C!Reads(C!DecodeVLC(u, FALSE), u, m, FALSE, v)
    BY <1>1, <1>4, C!WordReads, EncodeAssumption, WordBytesAssumption, IntMaxAssumption
  <2>2. C!DecodeVLC(u, FALSE) = r
    BY SameDecoding
  <2> HIDE DEF r, m
  <2> QED BY <2>1, <2>2
<1> HIDE DEF r, m, n
<1>6. u.pos + m <= u.max /\ u.pos + m + n <= u.max /\ end \in Nat /\ u.pos <= end /\ end - u.pos = m + n
  BY <1>2, <1>3, <1>4
<1>7. C!Reader(t) /\ t.pos = u.pos + m /\ t.mem = u.mem /\ t.max = u.max
  BY <1>2, <1>6, C!MovedIs, EncodeAssumption, WordBytesAssumption, IntMaxAssumption
<1>8. C!Moved(t, n) = C!Moved(u, m + n)
  BY <1>2, C!MovedTwice, EncodeAssumption, WordBytesAssumption, IntMaxAssumption
<1>9. r = C!Answer(FALSE, v, t)
  BY <1>5, <1>6 DEF C!Reads
<1> HIDE DEF t
<1>10. r.s = t
  BY <1>9 DEF C!Answer
<1>11. C!Chunk(t.mem, t.pos, e) /\ t.pos + n <= t.max
  BY <1>4, <1>6, <1>7
<1>12. C!Reads(q, t, n, FALSE, w)
  <2>1. C!Reads(C!DecodeVLC(t, FALSE), t, n, FALSE, w)
    BY <1>1, <1>7, <1>11, C!WordReads, EncodeAssumption, WordBytesAssumption, IntMaxAssumption DEF n
  <2>2. C!DecodeVLC(t, FALSE) = q
    BY SameDecoding
  <2> HIDE DEF q
  <2> QED BY <2>1, <2>2
<1> HIDE DEF q
<1>13. q = C!Answer(FALSE, w, C!Moved(u, m + n))
  BY <1>8, <1>11, <1>12 DEF C!Reads
<1>14. DecodeVLC(r.s, FALSE) = q
  BY <1>10 DEF q
<1> QED BY <1>6, <1>13, <1>14 DEF r

\* Everything encodeCompact writes, of an object it can write.
LEMMA EncodeWrites ==
    ASSUME SizesFit, Sound, phase = "use", group \in WithId, Stops = {}
    PROVE  LET id == EncodeVLC(group, FALSE)
               size == BodySize + Len(id)
               head == <<EncodeVLC(size, FALSE), id>>
               r0 == WriteAll(out, head)
               r == WriteAll(out, head \o Body)
           IN  /\ C!Keeps(out, r.s)
               /\ r.ok => /\ C!Spans(r.s.mem, out.pos, head, r0.s.pos)
                          /\ r0.s.pos <= r.s.pos
                          /\ \E upTo : /\ IsLaid(r0.s, upTo, Len(fields))
                                       /\ EndOfField(r0.s, upTo, 0) = r0.s.pos
                                       /\ WriteAll(r0.s, upTo[Len(fields)]) = r
<1> DEFINE N == Len(fields)
           id == EncodeVLC(group, FALSE)
           size == BodySize + Len(id)
           head == <<EncodeVLC(size, FALSE), id>>
           r0 == WriteAll(out, head)
           r == WriteAll(out, head \o Body)
           t == r0.s
           w == WriteAll(t, Body)
<1>1. /\ N \in Nat
      /\ \A text \in Texts : Len(text) < Modulus
      /\ \A k \in 1 .. N : FieldHolds(fields[k], slots[k]) /\ ~IsPoisoned(fields[k], slots[k])
      /\ group \in 0 .. Modulus - 1
      /\ size \in 0 .. Modulus - 1
  BY EncodesSound
<1>2. \A k \in 1 .. N : C!AreChunks(Chunks(fields[k], slots[k])) /\ Chunks(fields[k], slots[k]) \in Seq(Seq(Nat))
  BY <1>1, ChunksAre
<1>3. C!AreChunks(head) /\ head \in Seq(Seq(Nat))
  <2> DEFINE d == EncodeVLC(size, FALSE)
  <2>1. d \in Seq(Nat) /\ id \in Seq(Nat)
    BY <1>1, EncodedIs
  <2> HIDE DEF d, id
  <2>2. C!AreChunks(<<d, id>>) /\ <<d, id>> \in Seq(Seq(Nat))
    BY <2>1, OneOrTwo
  <2> QED BY <2>2 DEF d, id
<1>4. PICK upTo : BodyUpTo(upTo) /\ Body = upTo[N]
  BY <1>1, <1>2, BodyIs
<1>5. C!Writer(out)
  BY DEF Sound
<1> HIDE DEF head, size, id
<1>6. r0.ok \in BOOLEAN /\ C!Keeps(out, t) /\ (r0.ok => C!Spans(t.mem, out.pos, head, t.pos))
  <2>1. C!WriteAll(out, head) = r0
    BY SameWriting
  <2>2. LET x == C!WriteAll(out, head)
        IN  x.ok \in BOOLEAN /\ C!Keeps(out, x.s) /\ (x.ok => C!Spans(x.s.mem, out.pos, head, x.s.pos))
    BY <1>3, <1>5, C!ItemWritten, EncodeAssumption, WordBytesAssumption, IntMaxAssumption
  <2> HIDE DEF r0
  <2> QED BY <2>1, <2>2
<1>7. C!Writer(t)
  BY <1>6 DEF C!Keeps
<1>8. IsLaid(t, upTo, N) /\ EndOfField(t, upTo, 0) = t.pos
  <2> HIDE DEF t
  <2> QED BY <1>1, <1>2, <1>4, <1>7, BodyLaid
<1>9. w = WriteAll(t, upTo[N]) /\ Body \in Seq(Seq(Nat)) /\ w.ok \in BOOLEAN /\ C!Keeps(t, w.s)
  <2>1. w = WriteAll(t, upTo[N])
    BY <1>4
  <2> HIDE DEF w, t
  <2> QED BY <1>4, <1>8, <2>1 DEF IsLaid
<1>10. r = IF r0.ok THEN w ELSE r0
  <2>1. C!WriteAll(out, head \o Body) = IF C!WriteAll(out, head).ok
                                       THEN C!WriteAll(C!WriteAll(out, head).s, Body) ELSE C!WriteAll(out, head)
    BY <1>3, <1>9, C!WriteAllBoth, EncodeAssumption, WordBytesAssumption, IntMaxAssumption
  <2>2. C!WriteAll(out, head) = r0 /\ C!WriteAll(out, head \o Body) = r
    BY SameWriting
  <2>3. C!WriteAll(t, Body) = w
    BY SameWriting
  <2> HIDE DEF r0, r, w
  <2> QED BY <2>1, <2>2, <2>3
<1> HIDE DEF r0, r, w
<1>11. C!Keeps(out, r.s)
  <2>1. C!Keeps(out, w.s)
    BY <1>5, <1>6, <1>9, C!KeepsTwice, EncodeAssumption, WordBytesAssumption, IntMaxAssumption
  <2> QED BY <1>6, <1>10, <2>1
<1>12. ASSUME r.ok
       PROVE  C!Spans(r.s.mem, out.pos, head, t.pos) /\ t.pos <= r.s.pos /\ WriteAll(t, upTo[N]) = r
  <2>1. r0.ok /\ r = w
    BY <1>10, <1>12
  <2>2. t.pos <= w.s.pos
    BY <1>9 DEF C!Keeps
  <2>3. out.pos \in Nat /\ t.pos \in Nat /\ t.pos <= t.pos
    <3> HIDE DEF t
    <3>1. out.pos \in Nat
      BY <1>5 DEF C!Writer
    <3>2. t.pos \in Nat
      BY <1>7 DEF C!Writer
    <3> QED BY <3>1, <3>2
  <2>4. C!Spans(t.mem, out.pos, head, t.pos)
    BY <1>6, <2>1
  <2> HIDE DEF t
  <2>5. C!Spans(w.s.mem, out.pos, head, t.pos)
    BY <1>3, <1>7, <1>9, <2>3, <2>4, C!SpansStay, EncodeAssumption, WordBytesAssumption, IntMaxAssumption
  <2> QED BY <1>9, <2>1, <2>2, <2>5
<1> QED BY <1>8, <1>11, <1>12 DEF r, r0, head, size, id, N

\* What MessageDecodes says of a message of fields fs and of a group g, whose identifier was
\* read as first.
Decodes(m, fs, g, first) ==
    m.full => /\ first.val = g
              /\ \A k \in DOMAIN fs : /\ ReadFrom(first, fs)[k].ok
                                      /\ \/ IsConverted(fs[k], m.slots[k])
                                         \/ ReadFrom(first, fs)[k].val = Sent(fs[k], m.slots[k])
              /\ ReadFrom(first, fs)[Len(fs)].s.pos = m.end

\* Before a step and after it.
LEMMA DecodesIs ==
    /\ MessageDecodes <=> Decodes(msg, fields, group, ReceivedId)
    /\ MessageDecodes' <=> Decodes(msg', fields', group', ReceivedId')
<1>1. MessageDecodes <=> Decodes(msg, fields, group, ReceivedId)
  BY DEF MessageDecodes, Decodes
<1>2. MessageDecodes' <=> Decodes(msg', fields', group', ReceivedId')
  BY DEF MessageDecodes, Decodes
<1> QED BY <1>1, <1>2

\* The message encodeCompact writes is read as the values that were set.
LEMMA EncodeDecodes ==
    ASSUME SizesFit, NumbersFit, Sound, Encode
    PROVE  MessageDecodes'
<1> DEFINE N == Len(fields)
           id == EncodeVLC(group, FALSE)
           size == BodySize + Len(id)
           head == <<EncodeVLC(size, FALSE), id>>
           r0 == WriteAll(out, head)
           r == WriteAll(out, head \o Body)
           t == r0.s
           u == MessageAt(out, r)
           first == DecodeVLC(DecodeVLC(u, FALSE).s, FALSE)
<1>1. /\ phase = "use" /\ group \in WithId /\ Stops = {} /\ out' = r.s /\ fields' = fields /\ group' = group
      /\ msg' = [at |-> out.pos, end |-> r.s.pos, full |-> r.ok, ok |-> FALSE, slots |-> slots]
  BY DEF Encode
<1>2. /\ N \in Nat /\ DOMAIN fields = 1 .. N
      /\ \A text \in Texts : Len(text) < Modulus
      /\ \A k \in 1 .. N : /\ FieldHolds(fields[k], slots[k]) /\ ~IsPoisoned(fields[k], slots[k])
                           /\ slots[k].init \/ fields[k].opt
      /\ group \in 0 .. Modulus - 1
      /\ size \in 0 .. Modulus - 1
  BY <1>1, EncodesSound
<1>3. \A k \in 1 .. N : Readable(k)
  <2>1. fields \in Seq({field \in Fields : NumberFits(field)})
    BY FieldsAre DEF Sound, NumbersFit
  <2>2. \A k \in 1 .. N : NumberFits(fields[k])
    BY <2>1, ElementOfSeq
  <2> QED BY <1>2, <2>2 DEF Readable
<1>4. /\ C!Keeps(out, r.s)
      /\ r.ok => /\ C!Spans(r.s.mem, out.pos, head, t.pos)
                 /\ t.pos <= r.s.pos
                 /\ \E upTo : /\ IsLaid(t, upTo, N)
                              /\ EndOfField(t, upTo, 0) = t.pos
                              /\ WriteAll(t, upTo[N]) = r
  BY <1>1, EncodeWrites
<1>5. C!Writer(out) /\ out.max = Capacity
  BY DEF Sound
<1> HIDE DEF N, r0, r, head
<1>6. C!Writer(r.s) /\ r.s.max = Capacity /\ out.pos <= r.s.pos
  BY <1>4, <1>5 DEF C!Keeps
<1>7. out.pos \in Nat /\ r.s.pos \in Nat /\ r.s.pos <= Capacity
  BY <1>5, <1>6 DEF C!Writer
<1>8. C!Reader(u) /\ u.pos = out.pos /\ u.max = r.s.pos /\ u.mem = r.s.mem /\ u.max <= INT_MAX
  <2>1. C!Reader(u) /\ u.pos = out.pos /\ u.max = r.s.pos /\ u.mem = r.s.mem
    BY <1>6, <1>7, MessageIs
  <2>2. Capacity \in Nat /\ Capacity <= INT_MAX /\ INT_MAX \in Nat
    BY EncodeAssumption, IntMaxAssumption
  <2> QED BY <1>7, <2>1, <2>2
<1>9. Received' = u
  BY <1>1 DEF Received, MessageAt
<1> HIDE DEF u
<1>10. ReceivedId' = first
  BY <1>9 DEF ReceivedId, ReceivedSize
<1>11. ASSUME r.ok
       PROVE  first.val = group /\ AreSent(ReadFrom(first, fields), r.s.pos)
  <2>1. PICK upTo : IsLaid(t, upTo, N) /\ EndOfField(t, upTo, 0) = t.pos /\ WriteAll(t, upTo[N]) = r
    BY <1>4, <1>11
  <2>2. C!Spans(u.mem, u.pos, head, t.pos) /\ t.pos <= u.max
    BY <1>4, <1>8, <1>11
  <2> DEFINE end == t.pos
             p == [k \in 0 .. N |-> EndOfField(t, upTo, k)]
  <2>3. end \in Nat /\ u.pos <= end /\ first = C!Answer(FALSE, group, C!Moved(u, end - u.pos))
    <3>1. C!Spans(u.mem, u.pos, <<EncodeVLC(size, FALSE), EncodeVLC(group, FALSE)>>, end) /\ end <= u.max
      BY <2>2 DEF head, end
    <3>2. group \in 0 .. Modulus - 1 /\ size \in 0 .. Modulus - 1
      BY <1>2
    <3> HIDE DEF end, size
    <3>3. C!Reader(u) /\ u.max <= INT_MAX
      BY <1>8
    <3> QED BY <3>1, <3>2, <3>3, HeadReads DEF first
  <2>4. \A k \in 0 .. N : p[k] = EndOfField(t, upTo, k)
    OBVIOUS
  <2> HIDE DEF end, p
  <2>5. /\ \A k \in 0 .. N : p[k] \in Nat /\ p[k] <= r.s.pos
        /\ \A k \in 1 .. N : p[k - 1] <= p[k] /\ C!Spans(r.s.mem, p[k - 1], Chunks(fields[k], slots[k]), p[k])
        /\ p[N] = r.s.pos /\ p[0] = end
    <3>1. /\ EndOfField(t, upTo, N) = r.s.pos
          /\ \A k \in 0 .. N : EndOfField(t, upTo, k) \in Nat /\ EndOfField(t, upTo, k) <= r.s.pos
          /\ \A k \in 1 .. N :
                /\ EndOfField(t, upTo, k - 1) <= EndOfField(t, upTo, k)
                /\ C!Spans(r.s.mem, EndOfField(t, upTo, k - 1), Chunks(fields[k], slots[k]),
                           EndOfField(t, upTo, k))
      BY <1>11, <2>1 DEF IsLaid
    <3>2. 0 \in 0 .. N /\ N \in 0 .. N /\ \A k \in 1 .. N : k \in 0 .. N /\ k - 1 \in 0 .. N
      BY <1>2 DEF N
    <3>3. \A k \in 0 .. N : p[k] \in Nat /\ p[k] <= r.s.pos
      BY <2>4, <3>1
    <3>4. ASSUME NEW k \in 1 .. N
          PROVE  p[k - 1] <= p[k] /\ C!Spans(r.s.mem, p[k - 1], Chunks(fields[k], slots[k]), p[k])
      BY <2>4, <3>1, <3>2
    <3>5. p[N] = r.s.pos /\ p[0] = end
      BY <2>1, <2>4, <3>1, <3>2 DEF end
    <3> QED BY <3>3, <3>4, <3>5
  <2>6. AreEnds(p, u)
    <3> DEFINE S == {k \in 0 .. N : u.pos <= p[k]}
    <3>1. N \in Nat /\ u.pos \in Nat
      BY <1>2, <1>7, <1>8 DEF N
    <3>2. 0 \in S
      BY <2>3, <2>5, <3>1
    <3>3. ASSUME NEW n \in 0 .. (N - 1), n \in S PROVE n + 1 \in S
      <4> DEFINE k == n + 1
      <4>1. k \in 1 .. N /\ k \in 0 .. N /\ k - 1 = n
        BY <3>1
      <4> HIDE DEF k
      <4>2. p[n] <= p[k] /\ p[n] \in Nat /\ p[k] \in Nat /\ u.pos <= p[n]
        BY <2>5, <3>3, <4>1
      <4>3. u.pos <= p[k]
        BY <3>1, <4>2
      <4> QED BY <4>1, <4>3 DEF k
    <3> HIDE DEF S
    <3>4. \A k \in 0 .. N : k \in S
      BY <3>1, <3>2, <3>3, FromTo
    <3>5. \A k \in 0 .. N : u.pos <= p[k]
      BY <3>4 DEF S
    <3> QED BY <1>8, <2>5, <3>5 DEF AreEnds, N
  <2> HIDE DEF first
  <2>7. first.s = C!Moved(u, p[0] - u.pos) /\ first.val = group
    BY <2>3, <2>5 DEF C!Answer
  <2>8. AreSent(ReadFrom(first, fields), p[Len(fields)])
    <3>1. Len(fields) \in Nat /\ \A k \in 1 .. Len(fields) : Readable(k)
      BY <1>2, <1>3 DEF N
    <3>2. first.s = C!Moved(u, p[0] - u.pos) /\ C!Reader(u) /\ u.max <= INT_MAX
      BY <1>8, <2>7
    <3> QED BY <1>2, <2>6, <3>1, <3>2, FieldsAreRead
  <2> QED BY <2>5, <2>7, <2>8 DEF N
<1> HIDE DEF first
<1>12. /\ msg'.full = r.ok /\ msg'.end = r.s.pos /\ msg'.slots = slots
  BY <1>1
<1>13. fields' = fields /\ group' = group /\ DOMAIN fields = 1 .. Len(fields)
  BY <1>1, <1>2 DEF N
<1>14. Decodes(msg', fields, group, first)
  <2> DEFINE m == msg'
             at == ReadFrom(first, fields)
  <2>1. m.full = r.ok /\ m.end = r.s.pos /\ m.slots = slots
    BY <1>12
  <2>2. r.ok => first.val = group /\ AreSent(at, r.s.pos)
    BY <1>11
  <2> HIDE DEF m, at
  <2>3. m.full => /\ first.val = group
                  /\ \A k \in DOMAIN fields : at[k].ok /\ at[k].val = Found(fields[k], m.slots[k])
                  /\ at[Len(fields)].s.pos = m.end
    BY <1>13, <2>1, <2>2 DEF AreSent
  <2>4. \A k \in DOMAIN fields :
            IsConverted(fields[k], m.slots[k]) \/ Found(fields[k], m.slots[k]) = Sent(fields[k], m.slots[k])
    BY DEF Found
  <2> QED BY <2>3, <2>4 DEF Decodes, m, at
<1> QED BY <1>10, <1>13, <1>14, DecodesIs

\* The message encodeCompact writes for a sound object announces its size.
LEMMA EncodeAnnounces ==
    ASSUME SizesFit, FixedsAreCounted, Sound, Encode
    PROVE  AnnouncedSizeIsWritten'
<1> DEFINE id == EncodeVLC(group, FALSE)
           size == BodySize + Len(id)
           body == <<id>> \o Body
           r == WriteAll(out, <<EncodeVLC(size, FALSE), id>> \o Body)
           N == Len(fields)
<1>1. /\ phase = "use" /\ group \in WithId /\ Stops = {} /\ out' = r.s
      /\ msg' = [at |-> out.pos, end |-> r.s.pos, full |-> r.ok, ok |-> FALSE, slots |-> slots]
  BY DEF Encode
<1>2. /\ N \in Nat /\ DOMAIN fields = 1 .. N
      /\ \A k \in 1 .. N : FieldHolds(fields[k], slots[k]) /\ ~IsPoisoned(fields[k], slots[k])
      /\ group \in 0 .. Modulus - 1
      /\ size \in 0 .. Modulus - 1
  BY <1>1, EncodesSound
<1>3. \A k \in 1 .. N : Counted(fields[k])
  <2>1. fields \in Seq({field \in Fields : Counted(field)})
    BY FieldsAre DEF Sound, FixedsAreCounted
  <2> QED BY <2>1, ElementOfSeq
<1>4. PICK most \in Nat : AllFit(most)
  BY <1>1, <1>2, LargestFits
<1>5. ASSUME NEW k \in 1 .. N
      PROVE  TakesNoMore(Chunks(fields[k], slots[k]), CachedSize(fields[k], slots[k]), most)
  <2>1. most < Modulus /\ \A text \in Texts : Len(text) <= most
    BY <1>4 DEF AllFit
  <2> QED BY <1>2, <1>3, <2>1, FieldTakes
<1>6. C!Takes(Body, BodySize)
  BY <1>2, <1>5, BodyTakes
<1>7. id \in Seq(Nat) /\ Len(id) \in Nat
  <2>1. id \in Seq(Nat)
    BY <1>2, EncodedIs
  <2> HIDE DEF id
  <2> QED BY <2>1
<1>8. C!Takes(body, Len(id) + BodySize)
  <2>1. C!Takes(<<id>>, Len(id))
    BY <1>7, OneTakes
  <2> QED BY <1>6, <2>1, BothTake
<1>9. Len(id) + BodySize = size
  <2> DEFINE k == Len(id)
             n == BodySize
  <2>1. k \in Nat /\ n \in Nat
    BY <1>6, <1>7 DEF C!Takes
  <2> HIDE DEF k, n
  <2>2. k + n = n + k
    BY <2>1
  <2> QED BY <2>2 DEF k, n
<1>10. <<EncodeVLC(size, FALSE), id>> \o Body = <<EncodeVLC(size, FALSE)>> \o body
  <2> DEFINE d == EncodeVLC(size, FALSE)
             S == Seq(Nat)
  <2>1. d \in Seq(Nat)
    BY <1>2, EncodedIs
  <2>2. Body \in Seq(S)
    BY <1>6 DEF C!Takes
  <2>3. <<d>> \in Seq(S) /\ <<id>> \in Seq(S)
    <3>1. d \in S /\ id \in S
      BY <1>7, <2>1
    <3> HIDE DEF d, S, id
    <3> QED BY <3>1
  <2> HIDE DEF d, S, id
  <2>4. (<<d>> \o <<id>>) \o Body = <<d>> \o (<<id>> \o Body)
    BY <2>2, <2>3, ConcatAssociative
  <2>5. <<d>> \o <<id>> = <<d, id>>
    BY <1>7, <2>1, TwoInARow
  <2> QED BY <2>4, <2>5 DEF d
<1> DEFINE d == DecodeVLC(MessageAt(out, r), FALSE)
<1>11. IF r.ok THEN d.ok /\ d.val = r.s.pos - d.s.pos
               ELSE d.ok => d.val > r.s.pos - d.s.pos
  <2>1. C!Writer(out) /\ C!Takes(body, size)
    BY <1>8, <1>9 DEF Sound
  <2> HIDE DEF body, size
  <2> QED BY <1>2, <1>10, <2>1, AnnouncedIsRead
<1> HIDE DEF r, d, id, size, body, N
<1>12. Received' = MessageAt(out, r)
  BY <1>1 DEF Received, MessageAt
<1>13. ReceivedSize' = d
  BY <1>12 DEF ReceivedSize, d
<1>14. msg'.end = r.s.pos /\ msg'.full = r.ok
  BY <1>1
<1>15. AnnouncedSizeIsWritten'
  BY <1>11, <1>13, <1>14 DEF AnnouncedSizeIsWritten
<1> QED BY <1>15

\* A value set keeps an object sound that it is of the type of.
LEMMA SetKeepsSound ==
    ASSUME IInv, Sound, phase = "use", NEW k, NEW val, Set(k, val),
           \A slot : slot.val = val => FieldHolds(fields[k], slot),
           phase' = phase, group' = group, fields' = fields, out' = out
    PROVE  Sound'
<1>1. DOMAIN slots' = DOMAIN slots /\ \A l \in DOMAIN slots : l # k => slots'[l] = slots[l]
  BY DEF Set
<1>2. k \in DOMAIN slots => slots'[k].val = val
  BY DEF Set, IInv, SlotsHold
<1>3. ASSUME NEW l \in DOMAIN slots PROVE FieldHolds(fields[l], slots'[l])
  <2>1. CASE l = k
    BY <1>2, <2>1
  <2>2. CASE l # k
    BY <1>1, <2>2 DEF Sound
  <2> QED BY <2>1, <2>2
<1>4. DOMAIN slots' = DOMAIN fields' /\ \A l \in DOMAIN slots' : FieldHolds(fields'[l], slots'[l])
  BY <1>1, <1>3 DEF Sound
<1> QED BY <1>4 DEF Sound

\* No other step writes, or changes what is said of the last message.
LEMMA MessageStays ==
    ASSUME [Next]_vars PROVE Encode \/ UNCHANGED <<group, fields, out, msg>>
BY DEF Next, vars, SetNumber, SetDecimal, SetText, SetBool, SetEnum, SetGroup, Clear, EncodeCrash,
       EncodeRefused, Destroy, Crash

SoundInv == IInv /\ Sound

\* An object starts without values.
LEMMA InitSound == Init => SoundInv
<1> SUFFICES ASSUME Init PROVE SoundInv
  OBVIOUS
<1>1. IInv
  BY InitHolds
<1>2. \A k \in DOMAIN slots : ~slots[k].init
  BY DEF Init, Blank
<1>3. C!Writer(out) /\ out.max = Capacity
  BY EncodeAssumption DEF Init, C!Writer, NewBuffer
<1>4. DOMAIN slots = DOMAIN fields
  BY DEF Init
<1>5. Sound
  BY <1>2, <1>3, <1>4 DEF Init, Sound, FieldHolds
<1> QED BY <1>1, <1>5 DEF SoundInv

\* Every step keeps the object sound.
LEMMA NextSound ==
    ASSUME SizesFit, SoundInv, [Next]_vars
    PROVE  SoundInv'
<1>1. IInv'
  BY NextKeeps DEF SoundInv
<1>2. IInv /\ Sound
  BY DEF SoundInv
<1>3. ASSUME NEW k \in Named, NEW word \in Words, SetNumber(k, word) PROVE Sound'
  <2>1. \A slot : slot.val = word => FieldHolds(fields[k], slot)
    BY <1>3 DEF SetNumber, FieldHolds, Field
  <2> QED BY <1>2, <1>3, <2>1, SetKeepsSound DEF SetNumber
<1>4. ASSUME NEW k \in Named, NEW m \in Words, NEW e \in Words, SetDecimal(k, m, e) PROVE Sound'
  <2>1. \A slot : slot.val = <<m, e>> => FieldHolds(fields[k], slot)
    BY <1>4 DEF SetDecimal, FieldHolds, Field
  <2> QED BY <1>2, <1>4, <2>1, SetKeepsSound DEF SetDecimal
<1>5. ASSUME NEW k \in Named, NEW text \in Texts, SetText(k, text) PROVE Sound'
  <2>1. DOMAIN slots' = DOMAIN slots /\ \A l \in DOMAIN slots : l # k => slots'[l] = slots[l]
    BY <1>5 DEF SetText
  <2>2. k \in DOMAIN slots => slots'[k] = slots[k] \/ (slots'[k].val = text /\ Fits(fields[k], text))
    BY <1>5 DEF SetText, Field
  <2>3. \A slot : slot.val = text /\ Fits(fields[k], text) => FieldHolds(fields[k], slot)
    BY <1>5 DEF SetText, FieldHolds, Field, Fits
  <2>4. \A l \in DOMAIN slots : FieldHolds(fields[l], slots'[l])
    BY <1>2, <1>5, <2>1, <2>2, <2>3 DEF Sound, SetText
  <2> QED BY <1>2, <1>5, <2>1, <2>4 DEF Sound, SetText
<1>6. ASSUME NEW op, Crash(op) PROVE Sound'
  BY <1>2, <1>6 DEF Crash, Sound
<1>7. ASSUME NEW k \in Named, SetGroup(k) PROVE Sound'
  <2>1. CASE Crash("setGroup")
    BY <1>6, <2>1
  <2>2. CASE /\ Field(k).type = "static" /\ Set(k, Garbage)
             /\ UNCHANGED <<phase, group, fields, live, next, hasFree, out, crash, msg>>
    <3>1. \A slot : FieldHolds(fields[k], slot)
      BY <2>2 DEF FieldHolds, Field
    <3> QED BY <1>2, <1>7, <2>2, <3>1, SetKeepsSound DEF SetGroup
  <2> QED BY <1>7, <2>1, <2>2 DEF SetGroup
<1>8. ASSUME NEW k \in Named, Clear(k) PROVE Sound'
  <2>1. DOMAIN slots' = DOMAIN slots /\ \A l \in DOMAIN slots : l # k => slots'[l] = slots[l]
    BY <1>8 DEF Clear
  <2>2. k \in DOMAIN slots => ~slots'[k].init
    BY <1>2, <1>8 DEF Clear, IInv, SlotsHold
  <2>3. ASSUME NEW l \in DOMAIN slots PROVE FieldHolds(fields[l], slots'[l])
    <3>1. CASE l = k
      BY <2>2, <3>1 DEF FieldHolds
    <3>2. CASE l # k
      BY <1>2, <1>8, <2>1, <3>2 DEF Sound, Clear
    <3> QED BY <3>1, <3>2
  <2> QED BY <1>2, <1>8, <2>1, <2>3 DEF Sound, Clear
<1>9. ASSUME Encode PROVE Sound'
  <2>1. /\ phase = "use" /\ group \in WithId /\ Stops = {}
        /\ UNCHANGED <<phase, group, fields, slots>>
    BY <1>9 DEF Encode
  <2>2. C!Keeps(out, out')
    <3>1. out' = LET id == EncodeVLC(group, FALSE)
                     size == BodySize + Len(id)
                 IN  WriteAll(out, <<EncodeVLC(size, FALSE), id>> \o Body).s
      BY <1>9 DEF Encode
    <3> QED BY <1>2, <2>1, <3>1, EncodeWrites
  <2>3. C!Writer(out') /\ out'.max = Capacity
    BY <1>2, <2>2 DEF Sound, C!Keeps
  <2> QED BY <1>2, <2>1, <2>3 DEF Sound
<1>10. ASSUME EncodeCrash PROVE Sound'
  BY <1>6, <1>10 DEF EncodeCrash
<1>11. ASSUME EncodeRefused \/ UNCHANGED vars PROVE Sound'
  BY <1>2, <1>11 DEF EncodeRefused, vars, Sound
<1>12. ASSUME Destroy PROVE Sound'
  BY <1>2, <1>12 DEF Destroy, Sound
<1>13. ASSUME NEW k \in Named, SetBool(k) \/ SetEnum(k) PROVE Sound'
  BY <1>6, <1>13 DEF SetBool, SetEnum
<1>14. Sound'
  BY <1>3, <1>4, <1>5, <1>7, <1>8, <1>9, <1>10, <1>11, <1>12, <1>13 DEF Next
<1> QED BY <1>1, <1>14 DEF SoundInv

\* The size at the head of a message is the number of bytes that follow it, and of a message
\* the buffer cut short it is more than those: whatever was set, cleared or refused before,
\* for every schema whose optional fixeds are sequences and whose messages have a size that
\* fits a word.
THEOREM AnnouncedWritten ==
    ASSUME SizesFit, FixedsAreCounted PROVE Spec => []AnnouncedSizeIsWritten
<1> DEFINE Inv == SoundInv /\ AnnouncedSizeIsWritten
<1>1. Init => Inv
  <2>1. Init => AnnouncedSizeIsWritten
    BY DEF Init, AnnouncedSizeIsWritten
  <2> QED BY <2>1, InitSound
<1>2. Inv /\ [Next]_vars => Inv'
  <2> SUFFICES ASSUME Inv, [Next]_vars PROVE Inv'
    OBVIOUS
  <2>1. SoundInv'
    BY NextSound
  <2>2. CASE Encode
    BY <2>1, <2>2, EncodeAnnounces DEF SoundInv
  <2>3. CASE UNCHANGED <<group, fields, out, msg>>
    <3>1. AnnouncedSizeIsWritten'
      BY <2>3 DEF AnnouncedSizeIsWritten, ReceivedSize, Received
    <3> QED BY <2>1, <3>1
  <2> QED BY <2>2, <2>3, MessageStays
<1>3. Inv => AnnouncedSizeIsWritten
  OBVIOUS
<1> QED BY <1>1, <1>2, <1>3, PTL DEF Spec

\* The decoders of blink_compact.c, one for each type of field, find in a message written in
\* full its group, every field with the value that was set and null where none was, and the end
\* where the writes ended: whatever was set, cleared or refused before, for every schema whose
\* messages have a size that fits a word, as long as a field of 16 bits is set to numbers of 16
\* bits. The value of a double is compared only if it is zero: any other is read, but as another
\* double (blink_compact.c:324). The size at its head needs no part in it, and neither have the
\* handlers of decodeCompact, which take a u16 and an empty string for null.
THEOREM MessageIsDecoded ==
    ASSUME SizesFit, NumbersFit PROVE Spec => []MessageDecodes
<1> DEFINE Inv == SoundInv /\ MessageDecodes
<1>1. Init => Inv
  <2>1. Init => MessageDecodes
    BY DEF Init, MessageDecodes, NoMessage
  <2> QED BY <2>1, InitSound
<1>2. Inv /\ [Next]_vars => Inv'
  <2> SUFFICES ASSUME Inv, [Next]_vars PROVE Inv'
    OBVIOUS
  <2>1. SoundInv'
    BY NextSound
  <2>2. CASE Encode
    BY <2>1, <2>2, EncodeDecodes DEF SoundInv
  <2>3. CASE UNCHANGED <<group, fields, out, msg>>
    <3>1. MessageDecodes'
      <4>1. ReceivedId' = ReceivedId
        BY <2>3 DEF ReceivedId, ReceivedSize, Received
      <4>2. Decodes(msg, fields, group, ReceivedId)
        BY DecodesIs
      <4>3. fields' = fields /\ group' = group /\ msg' = msg
        BY <2>3
      <4> QED BY <4>1, <4>2, <4>3, DecodesIs
    <3> QED BY <2>1, <3>1
  <2> QED BY <2>2, <2>3, MessageStays
<1>3. Inv => MessageDecodes
  OBVIOUS
<1> QED BY <1>1, <1>2, <1>3, PTL DEF Spec
=============================================================================
