---------------------------- MODULE StreamProofs ----------------------------
(***************************************************************************)
(* Proofs about the streams, for every buffer size, every int32_t width    *)
(* and every sequence of calls whose seekCur offsets do not overflow.      *)
(***************************************************************************)
EXTENDS Stream, SequenceTheorems, TLAPS

BufferOK(x) ==
    /\ x \in [in : BOOLEAN, out : BOOLEAN, mem : Memory(x.max), max : 0 .. INT_MAX,
              pos : 0 .. UINT_MAX, eof : BOOLEAN]
    /\ x.pos <= x.max

BoundedOK(x) ==
    /\ x \in [max : 0 .. UINT_MAX, pos : 0 .. UINT_MAX, eof : BOOLEAN]
    /\ x.pos <= x.max

\* A write that fits stays inside the buffer, and keeps it a buffer of bytes.
LEMMA WriteKeeps ==
    ASSUME NEW x, BufferOK(x), NEW d \in Payloads
    PROVE  /\ BufferOK(BufferWrite(x, d).s)
           /\ BufferWrite(x, d).s.max = x.max
           /\ BufferWrite(x, d).ok \in BOOLEAN
           /\ BufferWrite(x, d).s.in = x.in /\ BufferWrite(x, d).s.eof = x.eof
           /\ ~BufferWrite(x, d).ok => BufferWrite(x, d).s = x
<1> USE IntMaxAssumption
<1>1. d \in Seq(Byte)
  BY StreamAssumption
<1>2. CASE ~WriteFits(x, d)
  BY <1>2 DEF BufferWrite
<1>3. CASE WriteFits(x, d)
  <2>1. Len(d) \in Nat /\ Len(d) <= x.max - x.pos
    BY <1>1, <1>3 DEF WriteFits, Room, UintMinus, BufferOK, UINT_MAX
  <2>2. Written(x, d).mem \in Memory(x.max)
    <3>0. Written(x, d).mem
            = [i \in DOMAIN x.mem |->
                  IF i \in x.pos .. (x.pos + Len(d) - 1) THEN d[i - x.pos + 1] ELSE x.mem[i]]
      BY DEF Written, BufferOK
    <3>9. DOMAIN x.mem = 0 .. (x.max - 1)
      BY DEF BufferOK, Memory
    <3> SUFFICES ASSUME NEW i \in 0 .. (x.max - 1)
                 PROVE  (IF i \in x.pos .. (x.pos + Len(d) - 1)
                         THEN d[i - x.pos + 1] ELSE x.mem[i]) \in Byte
      BY <3>0, <3>9 DEF Memory
    <3>1. CASE i \in x.pos .. (x.pos + Len(d) - 1)
      <4>1. i - x.pos + 1 \in 1 .. Len(d)
        BY <2>1, <3>1 DEF BufferOK
      <4> QED BY <3>1, <4>1, <1>1
    <3>2. CASE i \notin x.pos .. (x.pos + Len(d) - 1)
      BY <3>2 DEF BufferOK, Memory
    <3> QED BY <3>1, <3>2
  <2> DEFINE m == [i \in DOMAIN x.mem |->
                      IF i \in x.pos .. (x.pos + Len(d) - 1) THEN d[i - x.pos + 1] ELSE x.mem[i]]
             p == x.pos + Len(d)
  <2>3. Written(x, d) = [x EXCEPT !.mem = m, !.pos = p] /\ m \in Memory(x.max)
    <3>1. Written(x, d) = [x EXCEPT !.mem = m, !.pos = p]
      BY DEF Written
    <3>2. Written(x, d).mem = m
      BY <3>1 DEF BufferOK
    <3> QED BY <2>2, <3>1, <3>2
  <2>4. p \in 0 .. UINT_MAX /\ p <= x.max
    BY <2>1 DEF BufferOK, UINT_MAX
  <2>5. /\ BufferOK(Written(x, d)) /\ Written(x, d).max = x.max
        /\ Written(x, d).in = x.in /\ Written(x, d).eof = x.eof
    <3> HIDE DEF m, p
    <3> QED BY <2>3, <2>4 DEF BufferOK
  <2> QED BY <1>3, <2>5 DEF BufferWrite
<1> QED BY <1>2, <1>3

\* A read leaves the bytes alone and stays inside the buffer.
LEMMA ReadKeeps ==
    ASSUME NEW x, BufferOK(x), NEW n \in ReadSizes
    PROVE  /\ BufferOK(BufferRead(x, n).s)
           /\ BufferRead(x, n).ok \in BOOLEAN
           /\ BufferRead(x, n).s.mem = x.mem
           /\ BufferRead(x, n).s.max = x.max
           /\ BufferRead(x, n).s.pos = IF BufferRead(x, n).ok THEN x.pos + n ELSE x.pos
           /\ BufferRead(x, n).ok => x.pos + n <= x.max
           /\ BufferRead(x, n).s.in = x.in
           /\ x.eof \/ (~BufferRead(x, n).ok /\ x.in /\ n <= INT_MAX) => BufferRead(x, n).s.eof
<1> USE IntMaxAssumption
<1>1. n \in Nat
  BY StreamAssumption
<1>2. CASE ~ReadFits(x, n)
  BY <1>2 DEF BufferRead, BufferOK
<1>3. CASE ReadFits(x, n)
  <2>1. n <= x.max - x.pos
    BY <1>1, <1>3 DEF ReadFits, Room, UintMinus, BufferOK, UINT_MAX
  <2> QED BY <1>1, <1>3, <2>1 DEF BufferRead, BufferOK, UINT_MAX
<1> QED BY <1>2, <1>3

\* seekCur stays inside the buffer when the sum does not overflow.
LEMMA SeekCurKeeps ==
    ASSUME NEW x, BufferOK(x), NEW offset \in CurOffsets, x.max + offset <= INT_MAX,
           NEW r \in BufferSeekCur(x, offset)
    PROVE  /\ BufferOK(r.s) /\ r.s.max = x.max
           /\ r.s.in = x.in /\ r.s.eof = x.eof
           /\ ~r.ok => r.s = x
<1> USE IntMaxAssumption
<1> DEFINE moved == [ok |-> TRUE, s |-> [x EXCEPT !.pos = AsUint(AsInt(x.pos) + offset)]]
           refused == [ok |-> FALSE, s |-> x]
<1>1. offset \in Int /\ x.pos \in 0 .. INT_MAX /\ x.max \in 0 .. INT_MAX
  BY StreamAssumption DEF BufferOK
<1>2. CASE offset <= 0
  <2>1. r = [ok |-> TRUE, s |-> x]
    BY <1>1, <1>2 DEF BufferSeekCur
  <2> QED BY <2>1
<1>3. CASE offset > 0
  <2>1. AsInt(x.pos) = x.pos /\ AsInt(x.max) = x.max
    BY <1>1 DEF AsInt
  <2>2. x.pos + offset <= INT_MAX
    BY <1>1 DEF BufferOK
  <2>3. r = IF x.pos + offset <= x.max THEN moved ELSE refused
    BY <1>1, <1>3, <2>1, <2>2 DEF BufferSeekCur
  <2>4. ASSUME x.pos + offset <= x.max
        PROVE  /\ BufferOK([x EXCEPT !.pos = AsUint(x.pos + offset)])
               /\ [x EXCEPT !.pos = AsUint(x.pos + offset)].max = x.max
               /\ [x EXCEPT !.pos = AsUint(x.pos + offset)].in = x.in
               /\ [x EXCEPT !.pos = AsUint(x.pos + offset)].eof = x.eof
    BY <1>1, <1>3, <2>4 DEF AsUint, BufferOK, UINT_MAX
  <2> QED BY <2>1, <2>3, <2>4
<1> QED BY <1>1, <1>2, <1>3

\* A bounded read that delivers stays inside the bound as well as the buffer.
LEMMA BoundedReadKeeps ==
    ASSUME NEW x, BufferOK(x), NEW y, BoundedOK(y), NEW n \in ReadSizes
    PROVE  LET r == BoundedRead(y, x, n) IN
           /\ BufferOK(r.s)
           /\ BoundedOK(r.b)
           /\ r.ok \in BOOLEAN
           /\ r.s.mem = x.mem
           /\ r.s.max = x.max
           /\ r.ok => r.s.pos = x.pos + n /\ x.pos + n <= x.max /\ r.b.pos = y.pos + n
           /\ ~r.ok => r.s.pos = x.pos /\ r.b.pos >= y.pos
           /\ r.s.in = x.in
           /\ x.eof => r.s.eof
           /\ ~r.ok /\ r.b.pos # y.pos /\ x.in => r.s.eof
<1> USE IntMaxAssumption
<1>1. n \in Nat
  BY StreamAssumption
<1>2. CASE n > INT_MAX
  BY <1>1, <1>2 DEF BoundedRead, BoundedOK
<1>3. CASE n <= INT_MAX /\ Room(y) < n
  <2> DEFINE ended == [y EXCEPT !.eof = TRUE]
  <2>1. BoundedOK(ended) /\ ended.pos = y.pos /\ y.pos \in Nat
    <3>1. BoundedOK(ended)
      BY DEF BoundedOK
    <3>2. ended.pos = y.pos
      BY DEF BoundedOK
    <3>3. y.pos \in Nat
      BY DEF BoundedOK, UINT_MAX
    <3> QED BY <3>1, <3>2, <3>3
  <2>2. Room(y) \in Int
    BY DEF Room, UintMinus, BoundedOK, UINT_MAX
  <2>3. BoundedRead(y, x, n) = [ok |-> FALSE, b |-> ended, s |-> x]
    BY <1>1, <1>3, <2>2, IntMaxAssumption DEF BoundedRead
  <2> HIDE DEF ended
  <2>4. ended.pos >= y.pos
    BY <2>1
  <2> QED BY <2>1, <2>3, <2>4
<1>4. CASE n <= INT_MAX /\ Room(y) >= n
  <2> DEFINE moved == [y EXCEPT !.pos = y.pos + n]
  <2>1. n <= y.max - y.pos
    BY <1>1, <1>4 DEF Room, UintMinus, BoundedOK, UINT_MAX
  <2>2. BoundedOK(moved) /\ moved.pos = y.pos + n
    BY <1>1, <2>1 DEF BoundedOK, UINT_MAX
  <2>3. BoundedRead(y, x, n)
          = [ok |-> BufferRead(x, n).ok, b |-> moved, s |-> BufferRead(x, n).s]
    BY <1>1, <1>4 DEF BoundedRead
  <2>4. y.pos + n >= y.pos
    BY <1>1 DEF BoundedOK
  <2> DEFINE below == BufferRead(x, n)
  <2>5. /\ BufferOK(below.s) /\ below.ok \in BOOLEAN
        /\ below.s.mem = x.mem /\ below.s.max = x.max
        /\ below.s.pos = IF below.ok THEN x.pos + n ELSE x.pos
        /\ below.ok => x.pos + n <= x.max
        /\ below.s.in = x.in
        /\ x.eof \/ (~below.ok /\ x.in) => below.s.eof
    BY <1>4, ReadKeeps
  <2>6. /\ BoundedRead(y, x, n).ok = below.ok
        /\ BoundedRead(y, x, n).b = moved
        /\ BoundedRead(y, x, n).s = below.s
    <3> HIDE DEF moved, below
    <3> QED BY <2>3 DEF below
  <2> HIDE DEF moved, below
  <2> QED BY <2>2, <2>4, <2>5, <2>6
<1>5. Room(y) \in Int
  BY DEF Room, UintMinus, BoundedOK, UINT_MAX
<1> QED BY <1>1, <1>2, <1>3, <1>4, <1>5
-----------------------------------------------------------------------------
\* The inductive invariant: types, positions inside their maxima, and the account
\* of what the bounded reads have delivered.
Inv ==
    /\ TypeOK
    /\ InBounds
    /\ BoundedReadsAreThePrefix
    /\ LostBytesMeanEof
    /\ s.max \in Capacities \union {0}

\* A call on the buffer stream that yields a good buffer of the same size keeps
\* the invariant: the account is closed when the call moves or changes anything.
LEMMA DirectKeeps ==
    ASSUME Inv, NEW op, NEW arg, NEW r, BufferOK(r.s), r.s.max = s.max, r.s.in = s.in,
           s.eof => r.s.eof, Direct(op, arg, r)
    PROVE  Inv'
<1>1. BufferOK(s)'
  BY DEF Direct
<1>2. via' \in {via, "other"} /\ (via' # "other" => r.s.pos = s.pos /\ r.s.mem = s.mem)
  BY DEF Direct
<1>3. got' \in Seq(Byte) /\ (via' # "other" => got' = got)
  BY DEF Direct, Inv, TypeOK
<1>4. TypeOK'
  BY <1>1, <1>2, <1>3 DEF Direct, Inv, TypeOK, BufferOK
<1>5. InBounds'
  BY <1>1 DEF Direct, Inv, InBounds, BufferOK
<1>6. BoundedReadsAreThePrefix'
  BY <1>2, <1>3 DEF Direct, Inv, BoundedReadsAreThePrefix
<1>7. LostBytesMeanEof'
  BY <1>2, <1>3 DEF Direct, Inv, LostBytesMeanEof
<1> QED BY <1>4, <1>5, <1>6, <1>7 DEF Inv, Direct

\* The invariant holds of the streams that a run begins with.
LEMMA InitInv == ASSUME Init PROVE Inv
<1> USE StreamAssumption, IntMaxAssumption
<1>1. BufferOK(s) /\ s.max \in Capacities \union {0}
  <2>1. \E in, out \in BOOLEAN, n \in Capacities \union {0} :
           \E mem \in Memory(n) : s = NewBuffer(in, out, mem, n)
    BY DEF Init
  <2>2. PICK in \in BOOLEAN, out \in BOOLEAN, n \in Capacities \union {0} :
           \E mem \in Memory(n) : s = NewBuffer(in, out, mem, n)
    BY <2>1
  <2>3. PICK mem \in Memory(n) : s = NewBuffer(in, out, mem, n)
    BY <2>2
  <2>4. n \in 0 .. INT_MAX /\ 0 \in 0 .. UINT_MAX
    BY DEF UINT_MAX
  <2> QED BY <2>3, <2>4 DEF NewBuffer, BufferOK
<1>2. 0 \in 0 .. UINT_MAX
  BY DEF UINT_MAX
<1>3. TypeOK
  <2>1. b \in [max : 0 .. UINT_MAX, pos : 0 .. UINT_MAX, eof : BOOLEAN]
    BY <1>2 DEF Init, NewBounded
  <2>2. got \in Seq(Byte)
    BY DEF Init
  <2> QED BY <1>1, <1>2, <2>1, <2>2 DEF Init, TypeOK, BufferOK
<1> QED BY <1>1, <1>2, <1>3 DEF Init, Inv, InBounds, BoundedReadsAreThePrefix, LostBytesMeanEof, BufferOK, NewBounded

\* What a bounded read appends to the account are the next bytes of the buffer.
LEMMA ReadBoundedKeeps ==
    ASSUME Inv, NEW n \in ReadSizes, ReadBounded(n)
    PROVE  Inv'
<1> DEFINE r == BoundedRead(b, s, n)
<1> USE IntMaxAssumption
<1>1. BufferOK(s) /\ BoundedOK(b) /\ n \in Nat
  BY StreamAssumption DEF Inv, TypeOK, InBounds, BufferOK, BoundedOK
<1>2. /\ BufferOK(r.s) /\ BoundedOK(r.b) /\ r.ok \in BOOLEAN
      /\ r.s.mem = s.mem /\ r.s.max = s.max
      /\ r.ok => r.s.pos = s.pos + n /\ s.pos + n <= s.max /\ r.b.pos = b.pos + n
      /\ ~r.ok => r.s.pos = s.pos /\ r.b.pos >= b.pos
      /\ r.s.in = s.in
      /\ s.eof => r.s.eof
      /\ ~r.ok /\ r.b.pos # b.pos /\ s.in => r.s.eof
  BY <1>1, BoundedReadKeeps
<1>3. /\ s' = r.s /\ b' = r.b /\ bound /\ bound' = bound /\ origin' = origin /\ via' = via
      /\ got' = IF r.ok /\ via = "reads" THEN got \o BytesAt(s.mem, s.pos, n) ELSE got
  BY DEF ReadBounded
<1> DEFINE new == BytesAt(s.mem, s.pos, n)
<1>6. r.ok /\ via = "reads" => got' = got \o new
  BY <1>3
<1>7. ~(r.ok /\ via = "reads") => got' = got
  BY <1>3
<1> HIDE DEF r
<1>4. CASE r.ok
  <2>0. s.pos + n <= s.max
    BY <1>2, <1>4
  <2>1. \A i \in 1 .. n : s.mem[s.pos + i - 1] \in Byte
    BY <1>1, <2>0 DEF BufferOK, Memory
  <2>2. new \in Seq(Byte) /\ Len(new) = n /\ \A i \in 1 .. n : new[i] = s.mem[s.pos + i - 1]
    BY <1>1, <2>1 DEF BytesAt
  <2> HIDE DEF new
  <2>3. got \in Seq(Byte)
    BY DEF Inv, TypeOK
  <2>4. got \o new \in Seq(Byte) /\ Len(got \o new) = Len(got) + n
    <3>1. /\ got \o new \in Seq(Byte)
          /\ Len(got \o new) = Len(got) + Len(new)
      BY ONLY <2>2, <2>3, ConcatProperties
    <3> QED BY <2>2, <3>1
  <2>5. TypeOK'
    <3>1. got' \in Seq(Byte)
      BY <1>6, <1>7, <2>3, <2>4
    <3> QED BY <1>2, <1>3, <3>1 DEF Inv, TypeOK, BufferOK, BoundedOK
  <2>6. InBounds'
    BY <1>2, <1>3 DEF InBounds, BufferOK, BoundedOK
  <2>7. ASSUME via = "reads" PROVE BoundedReadsAreThePrefix'
    <3>1. /\ got' = got \o new /\ Len(got) <= b.pos /\ s.pos = origin + Len(got)
          /\ got = BytesAt(s.mem, origin, Len(got))
      BY <1>3, <1>4, <1>6, <2>7 DEF Inv, BoundedReadsAreThePrefix
    <3>2. Len(got) \in Nat /\ s.pos \in Nat /\ b.pos \in Nat /\ origin \in Nat
      BY <1>1, <2>3 DEF BufferOK, BoundedOK, Inv, TypeOK, UINT_MAX
    <3>3. Len(got') <= b'.pos /\ s'.pos = origin' + Len(got')
      <4>1. b'.pos = b.pos + n /\ s'.pos = s.pos + n /\ origin' = origin
        BY <1>2, <1>3, <1>4
      <4>2. Len(got') = Len(got) + n /\ Len(got) <= b.pos /\ s.pos = origin + Len(got)
        BY <2>4, <3>1
      <4> QED BY <1>1, <3>2, <4>1, <4>2
    <3>4. ASSUME NEW i \in 1 .. Len(got') PROVE got'[i] = s'.mem[origin' + i - 1]
      <4>1. CASE i <= Len(got)
        <5>1. (got \o new)[i] = got[i]
          BY <2>2, <2>3, <3>1, <3>4, <4>1
        <5>2. got[i] = s.mem[origin + i - 1]
          BY <3>1, <3>2, <3>4, <4>1 DEF BytesAt
        <5> QED BY <1>2, <1>3, <3>1, <5>1, <5>2
      <4>2. CASE i > Len(got)
        <5>1. i - Len(got) \in 1 .. n
          BY <1>1, <2>4, <3>1, <3>2, <3>4, <4>2
        <5>2. (got \o new)[i] = new[i - Len(got)]
          BY <2>2, <2>3, <2>4, <3>1, <3>2, <3>4, <4>2
        <5>3. s.pos + (i - Len(got)) - 1 = origin + i - 1
          BY <3>1, <3>2, <5>1
        <5> QED BY <1>2, <1>3, <2>2, <3>1, <5>1, <5>2, <5>3
      <4> QED BY <3>2, <4>1, <4>2
    <3>5. got' = BytesAt(s'.mem, origin', Len(got'))
      <4>1. got' \in Seq(Byte)
        BY <2>5 DEF TypeOK
      <4> QED BY <3>4, <4>1 DEF BytesAt
    <3> QED BY <3>3, <3>5 DEF BoundedReadsAreThePrefix
  <2>8. ASSUME via # "reads" PROVE BoundedReadsAreThePrefix'
    BY <1>3, <2>8 DEF BoundedReadsAreThePrefix
  <2>9. LostBytesMeanEof'
    <3>1. Len(got) \in Nat /\ b.pos \in Nat /\ b'.pos = b.pos + n
      BY <1>1, <1>2, <1>3, <1>4, <2>3 DEF BoundedOK, UINT_MAX
    <3>2. via = "reads" => Len(got') = Len(got) + n
      BY <1>4, <1>6, <2>4
    <3>3. LostBytesMeanEof
      BY DEF Inv
    <3> QED BY <1>1, <1>2, <1>3, <3>1, <3>2, <3>3 DEF LostBytesMeanEof
  <2> QED BY <1>2, <1>3, <2>5, <2>6, <2>7, <2>8, <2>9 DEF Inv
<1>5. CASE ~r.ok
  <2>1. TypeOK'
    BY <1>2, <1>3, <1>5 DEF Inv, TypeOK, BufferOK, BoundedOK
  <2>2. InBounds'
    BY <1>2, <1>3 DEF InBounds, BufferOK, BoundedOK
  <2>3. BoundedReadsAreThePrefix'
    <3>1. Len(got) \in Nat /\ b.pos \in Nat /\ b'.pos \in Nat /\ got' = got
      BY <1>1, <1>2, <1>3, <1>5, <1>7 DEF Inv, TypeOK, BoundedOK, UINT_MAX
    <3> QED BY <1>2, <1>3, <1>5, <3>1 DEF Inv, BoundedReadsAreThePrefix
  <2>4. LostBytesMeanEof'
    <3>1. LostBytesMeanEof /\ got' = got
      BY <1>5, <1>7 DEF Inv
    <3>2. CASE r.b.pos = b.pos
      BY <1>2, <1>3, <3>1, <3>2 DEF LostBytesMeanEof
    <3>3. CASE r.b.pos # b.pos
      BY <1>2, <1>3, <1>5, <3>3 DEF LostBytesMeanEof
    <3> QED BY <3>2, <3>3
  <2> QED BY <1>2, <1>3, <2>1, <2>2, <2>3, <2>4 DEF Inv
<1> QED BY <1>2, <1>4, <1>5

\* Every call keeps the invariant.
LEMMA StepInv ==
    ASSUME OffsetsDoNotOverflow, Inv, [Next]_vars
    PROVE  Inv'
<1> USE IntMaxAssumption, StreamAssumption
<1>1. BufferOK(s) /\ BoundedOK(b)
  BY DEF Inv, TypeOK, InBounds, BufferOK, BoundedOK
<1>2. ASSUME NEW d \in Payloads, Write(d) PROVE Inv'
  BY <1>1, <1>2, WriteKeeps, DirectKeeps DEF Write
<1>3. ASSUME NEW n \in ReadSizes, Read(n) PROVE Inv'
  BY <1>1, <1>3, ReadKeeps, DirectKeeps DEF Read
<1>4. ASSUME Peek PROVE Inv'
  <2> DEFINE r == [ok |-> CanPeek(s), s |-> s]
  <2>1. BufferOK(r.s) /\ r.s = s /\ Direct("peek", 1, r)
    BY <1>1, <1>4 DEF Peek
  <2> HIDE DEF r
  <2> QED BY <2>1, DirectKeeps
<1>5. ASSUME NEW offset \in SetOffsets, SeekSet(offset) PROVE Inv'
  <2>1. offset \in 0 .. UINT_MAX
    OBVIOUS
  <2>2. /\ BufferOK(BufferSeekSet(s, offset).s) /\ BufferSeekSet(s, offset).s.max = s.max
        /\ BufferSeekSet(s, offset).s.in = s.in /\ BufferSeekSet(s, offset).s.eof = s.eof
    BY <1>1, <2>1 DEF BufferSeekSet, BufferOK
  <2> QED BY <1>5, <2>2, DirectKeeps DEF SeekSet
<1>6. ASSUME NEW offset \in CurOffsets, SeekCur(offset) PROVE Inv'
  <2>1. s.max + offset <= INT_MAX
    <3>1. CASE s.max \in Capacities
      BY <3>1 DEF OffsetsDoNotOverflow
    <3>2. CASE s.max = 0
      BY <3>2
    <3> QED BY <3>1, <3>2 DEF Inv
  <2>2. PICK r \in BufferSeekCur(s, offset) : Direct("seekCur", offset, r)
    BY <1>6 DEF SeekCur
  <2>3. BufferOK(r.s) /\ r.s.max = s.max /\ r.s.in = s.in /\ r.s.eof = s.eof
    BY <1>1, <2>1, SeekCurKeeps
  <2> QED BY <2>2, <2>3, DirectKeeps
<1>7. ASSUME NEW limit \in Limits, InitBounded(limit) PROVE Inv'
  <2>1. BoundedOK(b')
    BY <1>7 DEF InitBounded, NewBounded, BoundedOK, UINT_MAX
  <2>2. TypeOK'
    BY <1>7, <2>1 DEF InitBounded, Inv, TypeOK, BoundedOK
  <2>3. BoundedReadsAreThePrefix'
    <3>1. b'.pos = 0 /\ got' = <<>> /\ origin' = s.pos /\ s' = s /\ s.pos \in Nat
      BY <1>7 DEF InitBounded, NewBounded, Inv, TypeOK
    <3>2. <<>> = BytesAt(s.mem, s.pos, 0)
      BY DEF BytesAt
    <3> QED BY <3>1, <3>2 DEF BoundedReadsAreThePrefix
  <2>4. LostBytesMeanEof'
    BY <1>7 DEF InitBounded, NewBounded, LostBytesMeanEof
  <2> QED BY <1>7, <2>1, <2>2, <2>3, <2>4 DEF InitBounded, Inv, InBounds, BoundedOK
<1>8. ASSUME NEW n \in ReadSizes, ReadBounded(n) PROVE Inv'
  BY <1>8, ReadBoundedKeeps
<1>9. ASSUME NEW d \in Payloads, WriteBounded(d) PROVE Inv'
  <2> DEFINE r == BoundedWrite(b, s, d)
  <2>1. BufferOK(r.s) /\ r.s.max = s.max /\ r.s.in = s.in /\ r.s.eof = s.eof
    BY <1>1, WriteKeeps DEF BoundedWrite
  <2>2. Len(d) \in Nat
    OBVIOUS
  <2>3. ~r.ok \/ Len(d) = 0 => r.s.pos = s.pos /\ r.s.mem = s.mem
    <3>1. CASE r.s = s
      BY <3>1
    <3>2. CASE r.s # s
      <4>1. r = BufferWrite(s, d) /\ WriteFits(s, d)
        BY <3>2 DEF BoundedWrite, BufferWrite
      <4>2. r.ok /\ r.s = Written(s, d)
        BY <4>1 DEF BufferWrite
      <4>3. ASSUME Len(d) = 0 PROVE Written(s, d).pos = s.pos /\ Written(s, d).mem = s.mem
        <5>1. Written(s, d).pos = s.pos + 0
          BY <4>3, <1>1 DEF Written, BufferOK
        <5>2. s.pos .. (s.pos + Len(d) - 1) = {}
          BY <4>3, <1>1 DEF BufferOK
        <5>3. Written(s, d).mem = [i \in DOMAIN s.mem |-> s.mem[i]]
          BY <5>2, <1>1 DEF Written, BufferOK
        <5> QED BY <5>1, <5>3, <1>1 DEF BufferOK, Memory
      <4> QED BY <4>2, <4>3
    <3> QED BY <3>1, <3>2
  <2> HIDE DEF r
  <2>4. /\ s' = r.s /\ b' = b /\ bound' = bound /\ origin' = origin
        /\ via' = IF via = "reads" /\ r.ok /\ Len(d) > 0 THEN "writes" ELSE via
        /\ got' = IF via' = "reads" THEN got ELSE <<>>
    BY <1>9 DEF WriteBounded, r
  <2>5. TypeOK'
    BY <2>1, <2>4 DEF Inv, TypeOK, BufferOK
  <2>6. InBounds'
    BY <1>1, <2>1, <2>4 DEF InBounds, BufferOK, BoundedOK
  <2>7. BoundedReadsAreThePrefix'
    <3>1. ASSUME via' = "reads" PROVE via = "reads" /\ got' = got /\ (~r.ok \/ Len(d) = 0)
      BY <2>2, <2>4, <3>1
    <3> QED BY <2>3, <2>4, <3>1 DEF Inv, BoundedReadsAreThePrefix
  <2>8. LostBytesMeanEof'
    <3>1. ASSUME via' = "reads" PROVE via = "reads" /\ got' = got
      BY <2>4, <3>1
    <3> QED BY <2>1, <2>4, <3>1 DEF Inv, LostBytesMeanEof
  <2> QED BY <2>1, <2>4, <2>5, <2>6, <2>7, <2>8 DEF Inv
<1>10. ASSUME NEW limit \in Limits, SetMaxBounded(limit) PROVE Inv'
  <2>1. BoundedOK(b') /\ b'.pos = b.pos
    BY <1>1, <1>10 DEF SetMaxBounded, SetMax, BoundedOK
  <2> QED BY <1>10, <2>1
      DEF SetMaxBounded, Inv, TypeOK, InBounds, BoundedReadsAreThePrefix, LostBytesMeanEof, BoundedOK
<1>11. CASE UNCHANGED vars
  BY <1>11 DEF vars, Inv, TypeOK, InBounds, BoundedReadsAreThePrefix, LostBytesMeanEof
<1> QED BY <1>2, <1>3, <1>4, <1>5, <1>6, <1>7, <1>8, <1>9, <1>10, <1>11 DEF Next

\* The streams keep the inductive invariant.
THEOREM StreamInvariant == OffsetsDoNotOverflow => (Spec => []Inv)
<1> SUFFICES ASSUME OffsetsDoNotOverflow PROVE Spec => []Inv
  OBVIOUS
<1>1. Init => Inv
  BY InitInv
<1>2. Inv /\ [Next]_vars => Inv'
  BY StepInv
<1> QED BY <1>1, <1>2, PTL DEF Spec

\* Every state of the streams has the types of the C structures.
THEOREM TypeCorrect == OffsetsDoNotOverflow => (Spec => []TypeOK)
<1>1. Inv => TypeOK
  BY DEF Inv
<1> QED BY <1>1, StreamInvariant, PTL

\* No sequence of calls moves a stream past its end: the unsigned differences the
\* guards compute never wrap, and no access leaves the buffer.
THEOREM StreamInBounds == OffsetsDoNotOverflow => (Spec => []InBounds)
<1>1. Inv => InBounds
  BY DEF Inv
<1> QED BY <1>1, StreamInvariant, PTL

\* A bounded stream delivers the bytes that follow, in order and each once, and
\* never more of them than its bound.
THEOREM BoundedPrefix == OffsetsDoNotOverflow => (Spec => []BoundedReadsAreThePrefix)
<1>1. Inv => BoundedReadsAreThePrefix
  BY DEF Inv
<1> QED BY <1>1, StreamInvariant, PTL

\* Bytes a bounded stream counts and does not deliver are reported: the stream below
\* has its eof set, so that a truncated message is told from one that ends.
THEOREM LostBytesAreReported == OffsetsDoNotOverflow => (Spec => []LostBytesMeanEof)
<1>1. Inv => LostBytesMeanEof
  BY DEF Inv
<1> QED BY <1>1, StreamInvariant, PTL

\* A call on the buffer stream whose outcome leaves the stream alone when it fails.
LEMMA DirectFails ==
    ASSUME NEW op, NEW arg, NEW r, Direct(op, arg, r),
           op # "readBounded",
           ~r.ok => r.s.pos = s.pos /\ r.s.mem = s.mem /\ r.s.max = s.max
    PROVE  RefusalKeepsPlace
BY DEF Direct, RefusalKeepsPlace

\* What each call does to the streams when it returns false.
LEMMA StepFails ==
    ASSUME OffsetsDoNotOverflow, Inv, [Next]_vars
    PROVE  [RefusalKeepsPlace]_vars
<1> USE IntMaxAssumption, StreamAssumption
<1>1. BufferOK(s) /\ BoundedOK(b)
  BY DEF Inv, TypeOK, InBounds, BufferOK, BoundedOK
<1>2. ASSUME NEW d \in Payloads, Write(d) PROVE RefusalKeepsPlace
  BY <1>1, <1>2, WriteKeeps, DirectFails DEF Write
<1>3. ASSUME NEW n \in ReadSizes, Read(n) PROVE RefusalKeepsPlace
  BY <1>1, <1>3, ReadKeeps, DirectFails DEF Read
<1>4. ASSUME Peek PROVE RefusalKeepsPlace
  <2> DEFINE r == [ok |-> CanPeek(s), s |-> s]
  <2>1. r.s = s /\ Direct("peek", 1, r)
    BY <1>4 DEF Peek
  <2> HIDE DEF r
  <2> QED BY <2>1, DirectFails
<1>5. ASSUME NEW offset \in SetOffsets, SeekSet(offset) PROVE RefusalKeepsPlace
  <2>1. ~BufferSeekSet(s, offset).ok => BufferSeekSet(s, offset).s = s
    BY DEF BufferSeekSet
  <2> QED BY <1>5, <2>1, DirectFails DEF SeekSet
<1>6. ASSUME NEW offset \in CurOffsets, SeekCur(offset) PROVE RefusalKeepsPlace
  <2>1. s.max + offset <= INT_MAX
    <3>1. CASE s.max \in Capacities
      BY <3>1 DEF OffsetsDoNotOverflow
    <3>2. CASE s.max = 0
      BY <3>2
    <3> QED BY <3>1, <3>2 DEF Inv
  <2>2. PICK r \in BufferSeekCur(s, offset) : Direct("seekCur", offset, r)
    BY <1>6 DEF SeekCur
  <2>3. ~r.ok => r.s = s
    BY <1>1, <2>1, SeekCurKeeps
  <2> QED BY <2>2, <2>3, DirectFails
<1>7. ASSUME NEW limit \in Limits, InitBounded(limit) PROVE RefusalKeepsPlace
  BY <1>7 DEF InitBounded, RefusalKeepsPlace
<1>8. ASSUME NEW n \in ReadSizes, ReadBounded(n) PROVE RefusalKeepsPlace
  <2> DEFINE r == BoundedRead(b, s, n)
  <2>1. r.s.mem = s.mem /\ r.s.max = s.max /\ (~r.ok => r.s.pos = s.pos)
    BY <1>1, BoundedReadKeeps
  <2>2. Room(b) = b.max - b.pos
    BY <1>1 DEF Room, UintMinus, BoundedOK
  <2>3. ~r.ok => r.b.max = b.max /\ r.b.pos = IF RefusedBelow(n) THEN b.pos + n ELSE b.pos
    BY <1>1, <2>2 DEF BoundedRead, BufferRead, RefusedBelow, BoundedOK
  <2>4. s' = r.s /\ b' = r.b /\ res' = [op |-> "readBounded", arg |-> n, ok |-> r.ok]
        /\ (~r.ok => got' = got)
    BY <1>8 DEF ReadBounded
  <2> HIDE DEF r
  <2> QED BY <2>1, <2>3, <2>4 DEF RefusalKeepsPlace
<1>9. ASSUME NEW d \in Payloads, WriteBounded(d) PROVE RefusalKeepsPlace
  <2> DEFINE r == BoundedWrite(b, s, d)
  <2>1. ~r.ok => r.s = s
    BY <1>1, WriteKeeps DEF BoundedWrite
  <2>2. s' = r.s /\ b' = b /\ res' = [op |-> "writeBounded", arg |-> Len(d), ok |-> r.ok]
        /\ got' \in {got, <<>>}
    BY <1>9 DEF WriteBounded
  <2> HIDE DEF r
  <2> QED BY <2>1, <2>2 DEF RefusalKeepsPlace
<1>10. ASSUME NEW limit \in Limits, SetMaxBounded(limit) PROVE RefusalKeepsPlace
  BY <1>10 DEF SetMaxBounded, SetMax, RefusalKeepsPlace
<1>11. CASE UNCHANGED vars
  BY <1>11
<1> QED BY <1>2, <1>3, <1>4, <1>5, <1>6, <1>7, <1>8, <1>9, <1>10, <1>11 DEF Next

\* A call that returns false has moved no position and no maximum, stored no byte and
\* delivered none, whatever was called before it, but for the bounded position of a read
\* that the bound allows and the stream below refuses: that one moves by the bytes asked
\* for. The callers of the streams try one form of a value after another and rely on it.
THEOREM RefusalsOnlyLoseBound == OffsetsDoNotOverflow => (Spec => RefusedReadsOnlyLoseBound)
<1> SUFFICES ASSUME OffsetsDoNotOverflow PROVE Spec => RefusedReadsOnlyLoseBound
  OBVIOUS
<1>1. Inv /\ [Next]_vars => [RefusalKeepsPlace]_vars
  BY StepFails
<1>2. Spec => []Inv
  BY StreamInvariant
<1> QED BY <1>1, <1>2, PTL DEF Spec, RefusedReadsOnlyLoseBound
=============================================================================
