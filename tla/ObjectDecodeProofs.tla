------------------------- MODULE ObjectDecodeProofs -------------------------
(***************************************************************************)
(* Proofs about the decoder of messages, for every schema of finitely many *)
(* groups, every message and every order of allocation failures.           *)
(***************************************************************************)
EXTENDS ObjectDecode, SequenceTheorems, FiniteSetTheorems, FunctionTheorems, TLAPS

Message(n) == [0 .. (n - 1) -> Alphabet]

InputOK(x) ==
    /\ x \in [in : BOOLEAN, out : BOOLEAN, mem : Message(x.max),
              max : Nat, pos : Nat, eof : BOOLEAN]
    /\ x.pos <= x.max

BoundOK(y) ==
    /\ y \in [max : Nat, pos : Nat, eof : BOOLEAN]
    /\ y.pos <= y.max

-----------------------------------------------------------------------------
\* The fields of a group.

\* The values a function takes on an interval are finitely many.
LEMMA ValuesAreFinite ==
    ASSUME NEW m, NEW n \in Nat
    PROVE  IsFiniteSet({m[k] : k \in 1 .. n})
<1> DEFINE T == {m[k] : k \in 1 .. n}
           f == [k \in 1 .. n |-> m[k]]
<1>1. f \in [1 .. n -> T] /\ \A t \in T : \E k \in 1 .. n : f[k] = t
  OBVIOUS
<1>2. f \in Surjection(1 .. n, T)
  <2> HIDE DEF f, T
  <2> QED BY <1>1, Fun_IsSurj
<1>3. IsFiniteSet(1 .. n)
  BY FS_Interval
<1> HIDE DEF f, T
<1>4. IsFiniteSet(T)
  BY <1>2, <1>3, FS_Surjection
<1> QED BY <1>4 DEF T

\* numberOfSuperGroup is a number, whatever the supergroups are.
LEMMA NumberOfSuperGroupType ==
    ASSUME NEW g \in Groups
    PROVE  NumberOfSuperGroup(g) \in Nat
<1>1. Cardinality(Groups) \in Nat
  BY SchemaAssumption, FS_CardinalityType
<1>2. IsFiniteSet(Ancestors(g))
  BY <1>1, ValuesAreFinite, FS_Difference DEF Ancestors
<1> QED BY <1>2, FS_CardinalityType DEF NumberOfSuperGroup

\* The remainder of a division is below the divisor.
LEMMA Remainder ==
    ASSUME NEW a \in Nat, NEW n \in Nat, n > 0
    PROVE  a % n \in 0 .. (n - 1)
OBVIOUS

\* A sequence repeated d times over is a sequence of the same elements.
LEMMA RepeatedType ==
    ASSUME NEW S, NEW own \in Seq(S), NEW d \in Nat
    PROVE  [k \in 1 .. (d * Len(own)) |-> own[((k - 1) % Len(own)) + 1]] \in Seq(S)
<1>1. d * Len(own) \in Nat
  OBVIOUS
<1>2. ASSUME NEW k \in 1 .. (d * Len(own)) PROVE own[((k - 1) % Len(own)) + 1] \in S
  <2>1. Len(own) > 0
    <3>1. CASE Len(own) = 0
      BY <3>1
    <3> QED BY <3>1
  <2>2. (k - 1) % Len(own) \in 0 .. Len(own) - 1
    BY <2>1, Remainder
  <2> QED BY <2>2
<1> QED BY <1>1, <1>2

\* eachField visits fields of the schema.
LEMMA EachFieldType ==
    ASSUME NEW g \in Groups
    PROVE  EachField(g) \in Seq(Fields)
<1>1. OwnFields[g] \in Seq(Fields)
  BY SchemaAssumption
<1>2. NumberOfSuperGroup(g) + 1 \in Nat
  BY NumberOfSuperGroupType
<1> QED BY <1>1, <1>2, RepeatedType DEF EachField

-----------------------------------------------------------------------------
\* Reading.

\* A read of the input itself.
LEMMA BufferReadAdvances ==
    ASSUME NEW x, InputOK(x), NEW n \in Nat
    PROVE  LET r == BufferRead(x, n) IN
           /\ InputOK(r.s) /\ r.ok \in BOOLEAN /\ r.s.mem = x.mem /\ r.s.max = x.max
           /\ r.ok => r.s.pos = x.pos + n /\ x.pos + n <= x.max
<1>1. CASE ~ReadFits(x, n)
  <2> DEFINE e == x.eof \/ (n <= INT_MAX /\ x.in)
  <2>1. BufferRead(x, n) = [ok |-> FALSE, s |-> [x EXCEPT !.eof = e]]
    BY <1>1 DEF BufferRead
  <2>2. e \in BOOLEAN
    OBVIOUS
  <2> HIDE DEF e
  <2>3. InputOK([x EXCEPT !.eof = e]) /\ [x EXCEPT !.eof = e].mem = x.mem
        /\ [x EXCEPT !.eof = e].max = x.max
    BY <2>2 DEF InputOK
  <2> QED BY <2>1, <2>3 DEF InputOK
<1>2. CASE ReadFits(x, n)
  <2>1. n <= x.max - x.pos
    BY <1>2 DEF ReadFits, Room, UintMinus, InputOK
  <2>2. BufferRead(x, n) = [ok |-> TRUE, s |-> [x EXCEPT !.pos = x.pos + n]]
    BY <1>2 DEF BufferRead
  <2>3. /\ InputOK([x EXCEPT !.pos = x.pos + n])
        /\ [x EXCEPT !.pos = x.pos + n].mem = x.mem
        /\ [x EXCEPT !.pos = x.pos + n].max = x.max
        /\ [x EXCEPT !.pos = x.pos + n].pos = x.pos + n
    BY <2>1 DEF InputOK
  <2> QED BY <2>1, <2>2, <2>3 DEF InputOK
<1> QED BY <1>1, <1>2

\* What is left of the streams after a value: the bound is the same and, if the
\* value was read, both positions have moved by as much.
Level(r, y, x) ==
    /\ InputOK(r.in) /\ BoundOK(r.b)
    /\ r.b.max = y.max
    /\ r.ok => r.in.pos + y.pos = x.pos + r.b.pos

\* A bounded read moves both positions by what was read, if it was, and both stay
\* inside their bounds whether it was or not.
LEMMA BoundedReadAdvances ==
    ASSUME NEW x, InputOK(x), NEW y, BoundOK(y), NEW n \in Nat
    PROVE  LET r == BoundedRead(y, x, n) IN
           /\ Level([ok |-> r.ok, b |-> r.b, in |-> r.s], y, x)
           /\ r.ok \in BOOLEAN
           /\ r.ok => x.pos + n <= x.max
<1>1. CASE n > INT_MAX
  BY <1>1 DEF BoundedRead, Level
<1>2. CASE ~(n > INT_MAX) /\ ~(Room(y) >= n)
  <2>1. BoundedRead(y, x, n) = [ok |-> FALSE, b |-> [y EXCEPT !.eof = TRUE], s |-> x]
    BY <1>2 DEF BoundedRead
  <2>2. BoundOK([y EXCEPT !.eof = TRUE]) /\ [y EXCEPT !.eof = TRUE].max = y.max
    BY DEF BoundOK
  <2> QED BY <2>1, <2>2 DEF BoundOK, Level
<1>3. CASE ~(n > INT_MAX) /\ Room(y) >= n
  <2> DEFINE r == BufferRead(x, n)
  <2>1. n <= y.max - y.pos
    BY <1>3 DEF Room, UintMinus, BoundOK
  <2>2. BoundedRead(y, x, n) = [ok |-> r.ok, b |-> [y EXCEPT !.pos = y.pos + n], s |-> r.s]
    BY <1>3 DEF BoundedRead
  <2>3. /\ BoundOK([y EXCEPT !.pos = y.pos + n])
        /\ [y EXCEPT !.pos = y.pos + n].max = y.max
        /\ [y EXCEPT !.pos = y.pos + n].pos = y.pos + n
    BY <2>1 DEF BoundOK
  <2>4. /\ InputOK(r.s) /\ r.ok \in BOOLEAN /\ r.s.mem = x.mem /\ r.s.max = x.max
        /\ r.ok => r.s.pos = x.pos + n /\ x.pos + n <= x.max
    BY BufferReadAdvances
  <2>5. r.ok => r.s.pos + y.pos = x.pos + (y.pos + n)
    BY <2>4 DEF InputOK, BoundOK
  <2> HIDE DEF r
  <2> QED BY <2>2, <2>3, <2>4, <2>5 DEF BoundOK, Level
<1> QED BY <1>1, <1>2, <1>3

\* One number of a message is one byte of it.
LEMMA DecodeOneLevel ==
    ASSUME NEW x, InputOK(x), NEW y, BoundOK(y)
    PROVE  LET r == DecodeOne(y, x) IN
           Level(r, y, x) /\ r.ok \in BOOLEAN /\ r.null \in BOOLEAN /\ r.val \in Nat
<1> DEFINE r == BoundedRead(y, x, 1)
           byte == x.mem[x.pos]
<1>1. /\ Level([ok |-> r.ok, b |-> r.b, in |-> r.s], y, x)
      /\ r.ok \in BOOLEAN
      /\ r.ok => x.pos + 1 <= x.max
  BY BoundedReadAdvances
<1>2. DecodeOne(y, x) = [ok |-> r.ok, null |-> r.ok /\ byte = 192,
                         val |-> IF r.ok THEN byte ELSE 0, b |-> r.b, in |-> r.s]
  BY DEF DecodeOne
<1> HIDE DEF r
<1>3. r.ok => byte \in Alphabet
  BY <1>1 DEF InputOK, Message
<1>4. (IF r.ok THEN byte ELSE 0) \in Nat
  <2> HIDE DEF byte
  <2>1. Alphabet \subseteq Nat
    BY DecodeAssumption
  <2> QED BY <1>3, <2>1
<1> HIDE DEF byte
<1> QED BY <1>1, <1>2, <1>4 DEF Level

-----------------------------------------------------------------------------
\* The heap.

Nested == {"childObject", "childArray"}

HeapOK(h) ==
    /\ h \in [live : SUBSET [id : Nat \ {0}, kind : Kinds], next : Nat \ {0}]
    /\ \A x \in h.live : x.id < h.next
    /\ \A x, y \in h.live : x.id = y.id => x = y

\* The allocated blocks that an object must refer to: all but those of nested groups.
Mine(h) == {x.id : x \in {y \in h.live : y.kind \notin Nested}}

\* A heap that has grown by the blocks ids, if at all: nothing that was there is
\* gone, and nothing else is new but what belongs to nested groups.
Grown(h, new, ids) ==
    /\ HeapOK(new)
    /\ h.next <= new.next
    /\ h.live \subseteq new.live
    /\ Mine(new) = Mine(h) \union ids
    /\ \A id \in ids : h.next <= id

\* calloc.
LEMMA CallocGrows ==
    ASSUME NEW h, HeapOK(h), NEW kind \in Kinds
    PROVE  /\ Grown(h, Calloc(h, kind), IF kind \in Nested THEN {} ELSE {h.next})
           /\ Calloc(h, kind).live = h.live \union {[id |-> h.next, kind |-> kind]}
           /\ Calloc(h, kind).next = h.next + 1
<1> DEFINE new == [id |-> h.next, kind |-> kind]
           c == Calloc(h, kind)
<1>1. c.live = h.live \union {new} /\ c.next = h.next + 1
  BY DEF Calloc
<1>2. new \in [id : Nat \ {0}, kind : Kinds] /\ new.id = h.next /\ new.kind = kind
  BY DEF HeapOK
<1>3. c = [live |-> h.live \union {new}, next |-> h.next + 1]
  BY DEF Calloc
<1> HIDE DEF c, new
<1>4. HeapOK(c)
  BY <1>1, <1>2, <1>3 DEF HeapOK
<1>5. Mine(c) = Mine(h) \union (IF kind \in Nested THEN {} ELSE {h.next})
  BY <1>1, <1>2 DEF Mine
<1>6. h.next <= c.next /\ h.live \subseteq c.live
  BY <1>1 DEF HeapOK
<1> QED BY <1>1, <1>4, <1>5, <1>6 DEF Grown, c, new, HeapOK

\* Freeing takes away the blocks it names and nothing else, or nothing at all when
\* there is no free function.
LEMMA ReleaseKeeps ==
    ASSUME NEW h, HeapOK(h), NEW ids
    PROVE  /\ HeapOK(Release(h, ids))
           /\ Release(h, ids).next = h.next
           /\ Release(h, ids).live \subseteq h.live
           /\ hasFree => \A x \in Release(h, ids).live : x.id \notin ids
           /\ \A x \in h.live : x.id \notin ids => x \in Release(h, ids).live
<1>1. CASE ~hasFree
  BY <1>1 DEF Release
<1>2. CASE hasFree
  <2> DEFINE kept == {x \in h.live : x.id \notin ids}
  <2>1. Release(h, ids) = [h EXCEPT !.live = kept]
    BY <1>2 DEF Release
  <2>2. kept \subseteq h.live
    OBVIOUS
  <2>3. /\ [h EXCEPT !.live = kept].live = kept
        /\ [h EXCEPT !.live = kept].next = h.next
    BY DEF HeapOK
  <2>4. HeapOK([h EXCEPT !.live = kept])
    <3> HIDE DEF kept
    <3> QED BY <2>2 DEF HeapOK
  <2> QED BY <2>1, <2>2, <2>3, <2>4
<1> QED BY <1>1, <1>2

\* Growing is transitive.
LEMMA GrownTwice ==
    ASSUME NEW h, HeapOK(h), NEW h1, NEW h2, NEW ids1, NEW ids2,
           Grown(h, h1, ids1), Grown(h1, h2, ids2)
    PROVE  Grown(h, h2, ids1 \union ids2)
<1>1. h.next \in Nat /\ h1.next \in Nat /\ h2.next \in Nat
  BY DEF Grown, HeapOK
<1>2. Mine(h2) \subseteq Nat /\ ids1 \subseteq Nat /\ ids2 \subseteq Nat
  BY DEF Grown, HeapOK, Mine
<1> QED BY <1>1, <1>2 DEF Grown

\* The object made for a nested group is not the decoded object's, and what is
\* left of it when its array cannot be had is not either.
LEMMA NestedGroupGrows ==
    ASSUME NEW h, HeapOK(h), NEW g, NEW new \in NewGroup(h, g, "childObject", "childArray")
    PROVE  new.ok \in BOOLEAN /\ Grown(h, new.heap, {})
<1> DEFINE one == Calloc(h, "childObject")
           two == Calloc(one, "childArray")
<1>1. Grown(h, one, {}) /\ one.live = h.live \union {[id |-> h.next, kind |-> "childObject"]}
      /\ one.next = h.next + 1
  BY CallocGrows DEF Kinds, Nested
<1>2. HeapOK(one)
  BY <1>1 DEF Grown
<1>3. Grown(h, two, {})
  <2>1. Grown(one, two, {})
    BY <1>2, CallocGrows DEF Kinds, Nested
  <2> HIDE DEF one, two
  <2> QED BY <1>1, <2>1, GrownTwice
<1>4. Grown(h, Release(one, {h.next}), {})
  <2> DEFINE left == Release(one, {h.next})
  <2>1. /\ HeapOK(left) /\ left.next = one.next
        /\ left.live \subseteq one.live
        /\ \A x \in one.live : x.id \notin {h.next} => x \in left.live
    BY <1>2, ReleaseKeeps
  <2>2. \A x \in h.live : x.id # h.next
    BY DEF HeapOK
  <2>3. h.live \subseteq left.live
    BY <1>1, <2>1, <2>2
  <2> HIDE DEF left
  <2>4. Mine(left) = Mine(h)
    BY <1>1, <2>1, <2>3 DEF Mine, Nested
  <2>5. h.next <= left.next
    BY <1>1, <2>1 DEF HeapOK
  <2> QED BY <2>1, <2>3, <2>4, <2>5 DEF Grown, left
<1>5. Grown(h, h, {})
  BY DEF Grown, HeapOK
<1>6. \/ new.ok = TRUE /\ new.heap \in {one, two}
      \/ new.ok = FALSE /\ new.heap \in {h, Release(one, {h.next})}
  BY DEF NewGroup
<1> QED BY <1>1, <1>3, <1>4, <1>5, <1>6

-----------------------------------------------------------------------------
\* The handlers.

\* The types of which ValueIsKept says something.
Keeping == {"number", "signed", "f64", "bool", "decimal", "fixed", "string"}

\* What a handler does to a field: the streams stay level, the data it hands over is
\* the one block it allocated, and unless it fails a value that comes is kept, and comes
\* if the field is mandatory.
Handled(field, h, r) ==
    /\ Level(r, b, in)
    /\ r.ok \in BOOLEAN /\ r.init \in BOOLEAN /\ r.wire \in BOOLEAN /\ r.data \in Nat
    /\ Grown(h, r.heap, {r.data} \ {NoBlock})
    /\ r.data # NoBlock => HoldsData(field)
    /\ r.ok => (field.opt \/ r.wire) /\ ValueIsKept(field, r)

\* Giving up is always level, and a value taken from the stream as it is.
LEMMA PlainOutcomeHandled ==
    ASSUME NEW h, HeapOK(h), NEW field, NEW r, Level(r, b, in), NEW ok \in BOOLEAN, ok => r.ok,
           NEW init \in BOOLEAN, NEW wire \in BOOLEAN,
           ok => /\ field.opt \/ wire
                 /\ field.type = "fixed" => ~wire
                 /\ field.type = "string" => ~init
                 /\ field.type \in {"number", "signed", "f64", "bool", "decimal"} /\ wire => init
    PROVE  Handled(field, h, Outcome(ok, r, h, NoBlock, init, wire))
<1> DEFINE o == Outcome(ok, r, h, NoBlock, init, wire)
<1>1. /\ o.ok = ok /\ o.b = r.b /\ o.in = r.in /\ o.heap = h /\ o.data = NoBlock
      /\ o.init = init /\ o.wire = wire
  BY DEF Outcome
<1>2. Grown(h, h, {NoBlock} \ {NoBlock})
  BY DEF Grown, HeapOK
<1>3. NoBlock \in Nat
  BY DEF NoBlock
<1> HIDE DEF o
<1>4. Level(o, b, in)
  BY <1>1 DEF Level
<1>5. ok => ValueIsKept(field, o)
  BY <1>1 DEF ValueIsKept
<1> QED BY <1>1, <1>2, <1>3, <1>4, <1>5 DEF Handled, o

\* An outcome that fails needs no more than streams inside their bounds.
LEMMA FailOutcomeHandled ==
    ASSUME NEW h, HeapOK(h), NEW field, NEW r, InputOK(r.in), BoundOK(r.b), r.b.max = b.max
    PROVE  Handled(field, h, FailOutcome(r, h))
<1> DEFINE o == FailOutcome(r, h)
<1>1. /\ o.ok = FALSE /\ o.b = r.b /\ o.in = r.in /\ o.heap = h /\ o.data = NoBlock
      /\ o.init = FALSE /\ o.wire = FALSE
  BY DEF Outcome, FailOutcome
<1>2. Grown(h, h, {NoBlock} \ {NoBlock})
  BY DEF Grown, HeapOK
<1>3. NoBlock \in Nat
  BY DEF NoBlock
<1> HIDE DEF o
<1>4. Level(o, b, in)
  BY <1>1 DEF Level
<1> QED BY <1>1, <1>2, <1>3, <1>4 DEF Handled, o

\* The bytes of a string or fixed: the data hangs on the field even when they do
\* not come.
LEMMA ReadDataHandled ==
    ASSUME NEW h, HeapOK(h), NEW field, HoldsData(field),
           NEW r, Level(r, b, in), r.ok, BoundOK(b), InputOK(in),
           NEW size \in Nat, NEW o \in ReadData(r, h, size)
    PROVE  Handled(field, h, o)
<1> DEFINE bytes == BoundedRead(r.b, r.in, size)
           after == [b |-> bytes.b, in |-> bytes.s]
           kept == Outcome(bytes.ok, after, Calloc(h, "data"), h.next, bytes.ok, bytes.ok)
<1>1. CASE o = FailOutcome(r, h)
  BY <1>1, FailOutcomeHandled DEF Level
<1>2. CASE o = kept
  <2>1. Level([ok |-> bytes.ok, b |-> bytes.b, in |-> bytes.s], r.b, r.in)
        /\ bytes.ok \in BOOLEAN
    <3>1. InputOK(r.in) /\ BoundOK(r.b)
      BY DEF Level
    <3> QED BY <3>1, BoundedReadAdvances
  <2>2. Grown(h, Calloc(h, "data"), {h.next})
    BY CallocGrows DEF Kinds, Nested
  <2>3. h.next \in Nat /\ {h.next} \ {NoBlock} = {h.next}
    BY DEF HeapOK, NoBlock
  <2>4. /\ kept.ok = bytes.ok /\ kept.b = bytes.b /\ kept.in = bytes.s
        /\ kept.heap = Calloc(h, "data") /\ kept.data = h.next
        /\ kept.init = bytes.ok /\ kept.wire = bytes.ok
    BY DEF Outcome
  <2> HIDE DEF bytes, kept
  <2>5. Level(kept, b, in)
    BY <2>1, <2>4 DEF Level, InputOK, BoundOK
  <2>6. h.next # NoBlock
    BY DEF HeapOK, NoBlock
  <2>7. kept.ok => kept.wire /\ ValueIsKept(field, kept)
    BY <2>4, <2>6 DEF ValueIsKept
  <2> QED BY <1>2, <2>1, <2>2, <2>3, <2>4, <2>5, <2>7 DEF Handled
<1> QED BY <1>1, <1>2 DEF ReadData

\* decodeCompact_u8 and the others of one number, bool and enum.
LEMMA NumbersHandled ==
    ASSUME NEW h, HeapOK(h), NEW field \in Fields, field.type \notin {"string", "fixed"},
           NEW r, Level(r, b, in),
           r.ok \in BOOLEAN, r.null \in BOOLEAN,
           NEW o \in DecodeNumber(field, r, h) \union DecodeBool(field, r, h)
    PROVE  Handled(field, h, o)
<1>1. \/ o = FailOutcome(r, h)
      \/ r.ok /\ o = NullOutcome(field, r, h)
      \/ r.ok /\ o = Outcome(TRUE, r, h, NoBlock, TRUE, TRUE)
  BY DEF DecodeNumber, DecodeBool
<1>2. CASE o = FailOutcome(r, h)
  BY <1>2, FailOutcomeHandled DEF Level
<1>3. CASE r.ok /\ o = NullOutcome(field, r, h)
  BY <1>3, PlainOutcomeHandled DEF NullOutcome, Fields
<1>4. CASE r.ok /\ o = Outcome(TRUE, r, h, NoBlock, TRUE, TRUE)
  BY <1>4, PlainOutcomeHandled
<1> QED BY <1>1, <1>2, <1>3, <1>4

\* decodeCompact_u16, whose value is not marked.
LEMMA U16Handled ==
    ASSUME NEW h, HeapOK(h), NEW field \in Fields, field.type = "u16",
           NEW r, Level(r, b, in), r.ok \in BOOLEAN, r.null \in BOOLEAN,
           NEW o \in DecodeU16(field, r, h)
    PROVE  Handled(field, h, o)
<1>1. \/ o = FailOutcome(r, h)
      \/ r.ok /\ o = NullOutcome(field, r, h)
      \/ r.ok /\ o = Outcome(TRUE, r, h, NoBlock, FALSE, TRUE)
  BY DEF DecodeU16
<1>2. CASE o = FailOutcome(r, h)
  BY <1>2, FailOutcomeHandled DEF Level
<1>3. CASE r.ok /\ o = NullOutcome(field, r, h)
  BY <1>3, PlainOutcomeHandled DEF NullOutcome, Fields
<1>4. CASE r.ok /\ o = Outcome(TRUE, r, h, NoBlock, FALSE, TRUE)
  BY <1>4, PlainOutcomeHandled
<1> QED BY <1>1, <1>2, <1>3, <1>4

\* decodeCompact_decimal: the exponent, then the mantissa.
LEMMA DecimalHandled ==
    ASSUME NEW h, HeapOK(h), NEW field \in Fields, field.type = "decimal", NEW r, Level(r, b, in),
           r.ok \in BOOLEAN, r.null \in BOOLEAN, BoundOK(b), InputOK(in),
           NEW o \in DecodeDecimal(field, r, h)
    PROVE  Handled(field, h, o)
<1> DEFINE m == DecodeOne(r.b, r.in)
<1>1. Level(m, r.b, r.in) /\ m.ok \in BOOLEAN
  BY DecodeOneLevel DEF Level
<1>2. \/ o = FailOutcome(r, h)
      \/ r.ok /\ o = NullOutcome(field, r, h)
      \/ o = FailOutcome(m, h)
      \/ r.ok /\ m.ok /\ o = Outcome(TRUE, m, h, NoBlock, TRUE, TRUE)
  BY DEF DecodeDecimal
<1> HIDE DEF m
<1>3. CASE o = FailOutcome(r, h)
  BY <1>3, FailOutcomeHandled DEF Level
<1>4. CASE r.ok /\ o = NullOutcome(field, r, h)
  BY <1>4, PlainOutcomeHandled DEF NullOutcome, Fields
<1>5. CASE o = FailOutcome(m, h)
  BY <1>1, <1>5, FailOutcomeHandled DEF Level
<1>6. CASE r.ok /\ m.ok /\ o = Outcome(TRUE, m, h, NoBlock, TRUE, TRUE)
  <2>1. Level(m, b, in)
    BY <1>1, <1>6 DEF Level, InputOK, BoundOK
  <2> QED BY <1>6, <2>1, PlainOutcomeHandled
<1> QED BY <1>2, <1>3, <1>4, <1>5, <1>6

\* decodeCompact_string.
LEMMA StringHandled ==
    ASSUME NEW h, HeapOK(h), NEW field \in Fields, field.type = "string",
           NEW r, Level(r, b, in), r.ok \in BOOLEAN, r.null \in BOOLEAN, r.val \in Nat,
           BoundOK(b), InputOK(in), NEW o \in DecodeString(field, r, h)
    PROVE  Handled(field, h, o)
<1>1. \/ o = FailOutcome(r, h)
      \/ r.ok /\ o = NullOutcome(field, r, h)
      \/ r.ok /\ o = Outcome(TRUE, r, h, NoBlock, FALSE, TRUE)
      \/ r.ok /\ o \in ReadData(r, h, r.val)
  BY DEF DecodeString
<1>2. CASE o = FailOutcome(r, h)
  BY <1>2, FailOutcomeHandled DEF Level
<1>3. CASE r.ok /\ o = NullOutcome(field, r, h)
  BY <1>3, PlainOutcomeHandled DEF NullOutcome, Fields
<1>4. CASE r.ok /\ o = Outcome(TRUE, r, h, NoBlock, FALSE, TRUE)
  BY <1>4, PlainOutcomeHandled
<1>5. CASE r.ok /\ o \in ReadData(r, h, r.val)
  BY <1>5, ReadDataHandled DEF HoldsData
<1> QED BY <1>1, <1>2, <1>3, <1>4, <1>5

\* The presence flag, if the field has one: without a flag the value is there.
LEMMA PresenceLevel ==
    ASSUME NEW field \in Fields, InputOK(in), BoundOK(b)
    PROVE  LET p == Presence(field, b, in) IN
           /\ Level(p, b, in)
           /\ p.ok \in BOOLEAN /\ p.present \in BOOLEAN
           /\ ~field.opt => p.present
<1> DEFINE r == DecodeOne(b, in)
<1>1. Level(r, b, in) /\ r.ok \in BOOLEAN /\ r.null \in BOOLEAN
  BY DecodeOneLevel
<1> HIDE DEF r
<1>2. CASE ~field.opt
  <2>1. Presence(field, b, in) = [ok |-> TRUE, present |-> TRUE, b |-> b, in |-> in]
    BY <1>2 DEF Presence
  <2> QED BY <2>1 DEF Level, InputOK, BoundOK
<1>3. CASE field.opt
  <2> DEFINE ok == r.ok /\ (r.null \/ r.val = 1)
             present == r.ok /\ ~r.null
  <2>1. Presence(field, b, in) = [ok |-> ok, present |-> present, b |-> r.b, in |-> r.in]
    BY <1>3 DEF Presence, r
  <2>2. ok \in BOOLEAN /\ present \in BOOLEAN /\ (ok => r.ok)
    OBVIOUS
  <2> HIDE DEF ok, present
  <2> QED BY <1>1, <1>3, <2>1, <2>2 DEF Level
<1> QED BY <1>2, <1>3

\* decodeCompact_fixed.
LEMMA FixedHandled ==
    ASSUME NEW h, HeapOK(h), NEW field \in Fields, field.type = "fixed",
           NEW p, Level(p, b, in), p.ok \in BOOLEAN, p.present \in BOOLEAN,
           ~field.opt => p.present,
           BoundOK(b), InputOK(in), NEW o \in DecodeFixed(field, p, h)
    PROVE  Handled(field, h, o)
<1>1. \/ o = FailOutcome(p, h)
      \/ p.ok /\ ~p.present /\ o = Outcome(TRUE, p, h, NoBlock, FALSE, FALSE)
      \/ p.ok /\ o \in ReadData(p, h, field.size)
  BY DEF DecodeFixed
<1>2. CASE o = FailOutcome(p, h)
  BY <1>2, FailOutcomeHandled DEF Level
<1>3. CASE p.ok /\ ~p.present /\ o = Outcome(TRUE, p, h, NoBlock, FALSE, FALSE)
  BY <1>3, PlainOutcomeHandled DEF Fields
<1>4. CASE p.ok /\ o \in ReadData(p, h, field.size)
  BY <1>4, ReadDataHandled DEF HoldsData, Fields
<1> QED BY <1>1, <1>2, <1>3, <1>4

\* The outcome of a handler that makes an object for a nested group.
LEMMA NewNestedHandled ==
    ASSUME NEW h, HeapOK(h), NEW field, field.type \notin Keeping,
           NEW r, Level(r, b, in), r.ok, NEW g,
           NEW new \in NewGroup(h, g, "childObject", "childArray")
    PROVE  Handled(field, h, Outcome(new.ok, r, new.heap, NoBlock, FALSE, new.ok))
<1> DEFINE o == Outcome(new.ok, r, new.heap, NoBlock, FALSE, new.ok)
<1>1. new.ok \in BOOLEAN /\ Grown(h, new.heap, {})
  BY NestedGroupGrows
<1>2. /\ o.ok = new.ok /\ o.b = r.b /\ o.in = r.in /\ o.heap = new.heap
      /\ o.data = NoBlock /\ o.init = FALSE /\ o.wire = new.ok
  BY DEF Outcome
<1>3. {NoBlock} \ {NoBlock} = {} /\ NoBlock \in Nat
  BY DEF NoBlock
<1> HIDE DEF o
<1>4. Level(o, b, in)
  BY <1>2 DEF Level
<1>5. Grown(h, o.heap, {o.data} \ {NoBlock})
  BY <1>1, <1>2, <1>3
<1>6. ValueIsKept(field, o)
  BY DEF ValueIsKept, Keeping
<1> QED BY <1>1, <1>2, <1>3, <1>4, <1>5, <1>6 DEF Handled, o

\* decodeCompact_staticGroup.
LEMMA StaticGroupHandled ==
    ASSUME NEW h, HeapOK(h), NEW field \in Fields, field.type = "static",
           NEW p, Level(p, b, in), p.ok \in BOOLEAN, p.present \in BOOLEAN,
           ~field.opt => p.present, NEW o \in DecodeStaticGroup(field, p, h)
    PROVE  Handled(field, h, o)
<1>1. field.type \notin Keeping
  BY DEF Keeping
<1>2. \/ o = FailOutcome(p, h)
      \/ p.ok /\ field.opt /\ o = Outcome(TRUE, p, h, NoBlock, FALSE, FALSE)
      \/ /\ p.ok
         /\ \E new \in NewGroup(h, field.group, "childObject", "childArray") :
                o = Outcome(new.ok, p, new.heap, NoBlock, FALSE, new.ok)
  BY DEF DecodeStaticGroup, Fields
<1>3. CASE o = FailOutcome(p, h)
  BY <1>3, FailOutcomeHandled DEF Level
<1>4. CASE p.ok /\ field.opt /\ o = Outcome(TRUE, p, h, NoBlock, FALSE, FALSE)
  BY <1>1, <1>4, PlainOutcomeHandled DEF Keeping
<1>5. ASSUME p.ok, NEW new \in NewGroup(h, field.group, "childObject", "childArray"),
             o = Outcome(new.ok, p, new.heap, NoBlock, FALSE, new.ok)
      PROVE  Handled(field, h, o)
  BY <1>1, <1>5, NewNestedHandled
<1> QED BY <1>2, <1>3, <1>4, <1>5

\* decodeCompact_dynamicGroup and _object: the bound is set back to what it was.
LEMMA DynamicGroupHandled ==
    ASSUME NEW h, HeapOK(h), NEW field \in Fields, field.type \in {"dynamic", "object"},
           NEW size, Level(size, b, in), size.ok \in BOOLEAN, size.null \in BOOLEAN,
           BoundOK(b), InputOK(in), NEW o \in DecodeDynamicGroup(field, size, h)
    PROVE  Handled(field, h, o)
<1> DEFINE bounded == SetMax(size.b, b.max).b
           id == DecodeOne(bounded, size.in)
<1>1. field.type \notin Keeping
  BY DEF Keeping
<1>2. BoundOK(bounded) /\ bounded.max = b.max /\ bounded.pos = size.b.pos
  <2>1. size.b.max = b.max /\ BoundOK(size.b)
    BY DEF Level
  <2> QED BY <2>1 DEF SetMax, BoundOK
<1> HIDE DEF bounded
<1>3. Level(id, bounded, size.in) /\ id.ok \in BOOLEAN
  <2>1. InputOK(size.in)
    BY DEF Level
  <2> QED BY <1>2, <2>1, DecodeOneLevel
<1>4. \/ o = FailOutcome(size, h)
      \/ size.ok /\ o = NullOutcome(field, size, h)
      \/ o = FailOutcome(id, h)
      \/ /\ size.ok /\ id.ok
         /\ \E new \in NewGroup(h, id.val, "childObject", "childArray") :
                o = Outcome(new.ok, id, new.heap, NoBlock, FALSE, new.ok)
  <2> DEFINE wanted == id.val \in Groups /\ (field.type = "object" \/ IsKindOf(id.val, field.group))
             failed == {FailOutcome(size, h)}
             null == {NullOutcome(field, size, h)}
             refused == {FailOutcome(id, h)}
             made == {Outcome(new.ok, id, new.heap, NoBlock, FALSE, new.ok) :
                         new \in NewGroup(h, id.val, "childObject", "childArray")}
  <2>1. o \in IF ~size.ok THEN failed
             ELSE IF size.null THEN null
             ELSE IF size.val = 0 \/ size.b.max - size.b.pos < size.val THEN failed
             ELSE IF ~id.ok \/ id.null \/ ~wanted THEN refused
             ELSE made
    BY Zenon DEF DecodeDynamicGroup, bounded
  <2> HIDE DEF wanted, made, failed, null, refused
  <2>2. \/ o \in failed
        \/ size.ok /\ o \in null
        \/ o \in refused
        \/ size.ok /\ id.ok /\ o \in made
    BY <2>1
  <2> USE DEF made, failed, null, refused
  <2> HIDE DEF id
  <2> QED BY <2>2
<1> HIDE DEF id
<1>5. CASE o = FailOutcome(size, h)
  BY <1>5, FailOutcomeHandled DEF Level
<1>6. CASE size.ok /\ o = NullOutcome(field, size, h)
  BY <1>1, <1>6, PlainOutcomeHandled DEF NullOutcome, Fields, Keeping
<1>7. CASE o = FailOutcome(id, h)
  BY <1>2, <1>3, <1>7, FailOutcomeHandled DEF Level
<1>8. ASSUME size.ok, id.ok, NEW new \in NewGroup(h, id.val, "childObject", "childArray"),
             o = Outcome(new.ok, id, new.heap, NoBlock, FALSE, new.ok)
      PROVE  Handled(field, h, o)
  <2>1. Level(id, b, in)
    BY <1>2, <1>3, <1>8 DEF Level, InputOK, BoundOK
  <2> QED BY <1>1, <1>8, <2>1, NewNestedHandled
<1> QED BY <1>4, <1>5, <1>6, <1>7, <1>8

\* Every handler, for every type of field.
LEMMA HandleHandled ==
    ASSUME NEW h, HeapOK(h), NEW field \in Fields, BoundOK(b), InputOK(in),
           NEW o \in Handle(field, h)
    PROVE  Handled(field, h, o)
<1> DEFINE r == DecodeOne(b, in)
           p == Presence(field, b, in)
<1>1. Level(r, b, in) /\ r.ok \in BOOLEAN /\ r.null \in BOOLEAN /\ r.val \in Nat
  BY DecodeOneLevel
<1>2. /\ Level(p, b, in) /\ p.ok \in BOOLEAN /\ p.present \in BOOLEAN
      /\ ~field.opt => p.present
  BY PresenceLevel
<1>3. field.type \in FieldTypes
  BY DEF Fields
<1>4. \/ /\ field.type \notin {"string", "fixed"}
         /\ o \in DecodeNumber(field, r, h) \union DecodeBool(field, r, h)
      \/ field.type = "u16" /\ o \in DecodeU16(field, r, h)
      \/ field.type = "decimal" /\ o \in DecodeDecimal(field, r, h)
      \/ field.type = "string" /\ o \in DecodeString(field, r, h)
      \/ field.type = "fixed" /\ o \in DecodeFixed(field, p, h)
      \/ field.type = "static" /\ o \in DecodeStaticGroup(field, p, h)
      \/ field.type \in {"dynamic", "object"} /\ o \in DecodeDynamicGroup(field, r, h)
  BY <1>3 DEF Handle, FieldTypes
<1> HIDE DEF r, p
<1>5. CASE field.type \notin {"string", "fixed"}
              /\ o \in DecodeNumber(field, r, h) \union DecodeBool(field, r, h)
  BY <1>1, <1>5, NumbersHandled
<1>6. CASE field.type = "u16" /\ o \in DecodeU16(field, r, h)
  BY <1>1, <1>6, U16Handled
<1>7. CASE field.type = "decimal" /\ o \in DecodeDecimal(field, r, h)
  BY <1>1, <1>7, DecimalHandled
<1>8. CASE field.type = "string" /\ o \in DecodeString(field, r, h)
  BY <1>1, <1>8, StringHandled
<1>9. CASE field.type = "fixed" /\ o \in DecodeFixed(field, p, h)
  BY <1>2, <1>9, FixedHandled
<1>10. CASE field.type = "static" /\ o \in DecodeStaticGroup(field, p, h)
  BY <1>2, <1>10, StaticGroupHandled
<1>11. CASE field.type \in {"dynamic", "object"} /\ o \in DecodeDynamicGroup(field, r, h)
  BY <1>1, <1>11, DynamicGroupHandled
<1> QED BY <1>4, <1>5, <1>6, <1>7, <1>8, <1>9, <1>10, <1>11

-----------------------------------------------------------------------------
\* The object and the invariant.

Elements == [block : Nat, data : Nat, wire : BOOLEAN]
Slots == [init : BOOLEAN, data : Nat, size : Nat, elems : Seq(Elements), wire : BOOLEAN]

ObjectOK(o) ==
    /\ o \in [block : Nat \ {0}, array : Nat, fields : Seq(Fields), slots : Seq(Slots)]
    /\ Len(o.slots) = Len(o.fields)

\* The object refers to the blocks that are its own and to no other.
Holds(o, h) ==
    /\ Blocks(o) = Mine(h)
    /\ o.array # NoBlock => [id |-> o.array, kind |-> "array"] \in h.live

\* How far the loop has come: the first n fields are read, the next one has m - 1
\* elements when m is not zero, and the others are as they were made.
Progress(o, n, m) ==
    /\ \A k \in 1 .. n : FieldIsRead(o.fields[k], o.slots[k])
    /\ \A k \in (n + 1) .. Len(o.slots) : k > n + 1 \/ m = 0 => o.slots[k] = EmptySlot
    /\ m > 0 => /\ n < Len(o.slots)
                /\ o.fields[n + 1].seq
                /\ Len(o.slots[n + 1].elems) = m - 1
                /\ m - 1 <= o.slots[n + 1].size
                /\ o.slots[n + 1].wire
                /\ \A k \in DOMAIN o.slots[n + 1].elems :
                       ElementIsRead(o.fields[n + 1], o.slots[n + 1].elems[k])

Stray(h) == \A x \in h.live : x.kind \in Nested \union {"array"}

IInv ==
    /\ phase \in {"header", "fields", "done", "failed", "aborted", "gone"}
    /\ InputOK(in) /\ BoundOK(b) /\ i \in Nat /\ j \in Nat /\ hasFree \in BOOLEAN
    /\ HeapOK(heap)
    /\ phase = "header" => in.pos = 0 /\ i = 0 /\ j = 0 /\ heap.live = {}
    /\ phase \in {"header", "failed", "gone"} => root = NoRoot
    /\ phase \in {"failed", "gone"} /\ hasFree => Stray(heap)
    /\ phase \in {"fields", "done", "aborted"} =>
          ObjectOK(root) /\ Holds(root, heap) /\ i <= Len(root.slots)
    /\ phase \in {"fields", "done"} => Progress(root, i, j) /\ in.pos = 1 + b.pos
    /\ phase = "fields" => i < Len(root.slots)
    /\ phase = "done" => i = Len(root.slots)
    /\ phase \in {"done", "gone"} => b.pos = b.max /\ in.pos = 1 + b.pos

-----------------------------------------------------------------------------
\* What the end of a turn does.

\* The blocks of an object, one by one.
LEMMA BlocksOfObject ==
    ASSUME NEW o, NEW x
    PROVE  x \in Blocks(o) <=>
              /\ x # NoBlock
              /\ \/ x = o.block \/ x = o.array
                 \/ \E k \in DOMAIN o.slots : x \in SlotBlocks(o.fields[k], o.slots[k])
<1> DEFINE of == UNION {SlotBlocks(o.fields[k], o.slots[k]) : k \in DOMAIN o.slots}
<1>1. x \in of <=> \E k \in DOMAIN o.slots : x \in SlotBlocks(o.fields[k], o.slots[k])
  OBVIOUS
<1>2. Blocks(o) = (of \union {o.block, o.array}) \ {NoBlock}
  BY DEF Blocks
<1> HIDE DEF of
<1> QED BY <1>1, <1>2

\* Everything of an object that is destroyed goes back, but for its array.
LEMMA DestroyLeavesStray ==
    ASSUME NEW h, HeapOK(h), NEW o, ObjectOK(o), Holds(o, h)
    PROVE  HeapOK(DestroyGroup(h, o)) /\ (hasFree => Stray(DestroyGroup(h, o)))
<1> DEFINE ids == (UNION {SlotBlocks(o.fields[k], o.slots[k]) : k \in DOMAIN o.slots})
                      \union {o.block}
           d == Release(h, ids)
<1>1. DestroyGroup(h, o) = d
  BY DEF DestroyGroup
<1>2. Blocks(o) = (ids \union {o.array}) \ {NoBlock}
  <2> SUFFICES ASSUME NEW x PROVE x \in Blocks(o) <=> x \in (ids \union {o.array}) \ {NoBlock}
    OBVIOUS
  <2>1. x \in ids <=> \/ x = o.block
                       \/ \E k \in DOMAIN o.slots : x \in SlotBlocks(o.fields[k], o.slots[k])
    OBVIOUS
  <2> HIDE DEF ids
  <2> QED BY <2>1, BlocksOfObject
<1> HIDE DEF ids
<1>3. HeapOK(d) /\ d.live \subseteq h.live /\ (hasFree => \A x \in d.live : x.id \notin ids)
  BY ReleaseKeeps
<1>4. ASSUME hasFree, NEW x \in d.live, x.kind \notin Nested PROVE x.kind = "array"
  <2>1. x \in h.live /\ x.id \in Mine(h) /\ x.id \notin ids
    BY <1>3, <1>4 DEF Mine
  <2>2. x.id = o.array /\ o.array # NoBlock
    BY <2>1, <1>2 DEF Holds
  <2>3. x = [id |-> o.array, kind |-> "array"]
    BY <2>1, <2>2 DEF Holds, HeapOK
  <2> QED BY <2>3
<1> QED BY <1>1, <1>3, <1>4 DEF Stray

\* The error exit before there is an object.
LEMMA DestroyNothing ==
    ASSUME NEW h, HeapOK(h), hasFree => Stray(h)
    PROVE  HeapOK(DestroyGroup(h, NoRoot)) /\ (hasFree => Stray(DestroyGroup(h, NoRoot)))
BY ReleaseKeeps DEF DestroyGroup, Stray

\* The end of a turn keeps the invariant, from an object and a heap that keep it.
LEMMA EndTurnKeeps ==
    ASSUME NEW h, HeapOK(h), NEW o, ObjectOK(o), Holds(o, h),
           NEW n \in Nat, n <= Len(o.slots), i' = n, j' \in Nat,
           Progress(o, n, j'), n = Len(o.slots) => j' = 0,
           InputOK(in'), BoundOK(b'), in'.pos = 1 + b'.pos,
           hasFree' = hasFree, hasFree \in BOOLEAN,
           EndTurn(n, o, h)
    PROVE  IInv'
<1>1. CASE n < Len(o.slots)
  <2>1. phase' = "fields" /\ heap' = h /\ root' = o
    BY <1>1 DEF EndTurn
  <2> QED BY <1>1, <2>1 DEF IInv
<1>2. CASE ~(n < Len(o.slots)) /\ b'.pos < b'.max
  <2>1. phase' = "failed" /\ heap' = DestroyGroup(h, o) /\ root' = NoRoot
    BY <1>2 DEF EndTurn, Fail
  <2> QED BY <2>1, DestroyLeavesStray DEF IInv
<1>3. CASE ~(n < Len(o.slots)) /\ ~(b'.pos < b'.max)
  <2>1. phase' = "done" /\ heap' = h /\ root' = o
    BY <1>3 DEF EndTurn
  <2>2. b'.pos = b'.max
    BY <1>3 DEF BoundOK
  <2>3. n = Len(o.slots)
    BY <1>3 DEF ObjectOK
  <2> QED BY <2>1, <2>2, <2>3 DEF IInv
<1> QED BY <1>1, <1>2, <1>3

\* So does the error exit.
LEMMA FailKeeps ==
    ASSUME NEW h, HeapOK(h), NEW o,
           \/ ObjectOK(o) /\ Holds(o, h)
           \/ o = NoRoot /\ (hasFree => Stray(h)),
           i' \in Nat, j' \in Nat, InputOK(in'), BoundOK(b'),
           hasFree' = hasFree, hasFree \in BOOLEAN, Fail(h, o)
    PROVE  IInv'
<1>1. HeapOK(DestroyGroup(h, o)) /\ (hasFree => Stray(DestroyGroup(h, o)))
  BY DestroyLeavesStray, DestroyNothing
<1>2. phase' = "failed" /\ heap' = DestroyGroup(h, o) /\ root' = NoRoot
  BY DEF Fail
<1> QED BY <1>1, <1>2 DEF IInv

-----------------------------------------------------------------------------
\* Changing one field of an object.

\* The object o with slot in place of its k-th, as WithSlot makes it.
Replaced(o, k, slot) == [o EXCEPT !.slots[k] = slot]

\* The field refers to the blocks ids besides those it referred to before.
Refers(field, before, after, ids) ==
    SlotBlocks(field, after) \ {NoBlock} = (SlotBlocks(field, before) \ {NoBlock}) \union ids

\* The blocks of the object change by those of the field.
LEMMA WithSlotHolds ==
    ASSUME NEW o, ObjectOK(o), NEW k \in 1 .. Len(o.slots), NEW slot \in Slots, NEW ids,
           Refers(o.fields[k], o.slots[k], slot, ids),
           NEW h, Holds(o, h), NEW new, Grown(h, new, ids),
           NEW changed, changed = Replaced(o, k, slot)
    PROVE  /\ ObjectOK(changed) /\ Holds(changed, new)
           /\ changed.fields = o.fields /\ changed.slots = [o.slots EXCEPT ![k] = slot]
           /\ Len(changed.slots) = Len(o.slots)
<1>1. /\ changed.fields = o.fields /\ changed.slots = [o.slots EXCEPT ![k] = slot]
      /\ changed.block = o.block /\ changed.array = o.array
      /\ changed \in [block : Nat \ {0}, array : Nat, fields : Seq(Fields), slots : Seq(Slots)]
  <2> DEFINE slots == [o.slots EXCEPT ![k] = slot]
  <2>1. changed = [o EXCEPT !.slots = slots]
    BY DEF Replaced
  <2>2. slots \in Seq(Slots)
    BY DEF ObjectOK
  <2> HIDE DEF slots
  <2>3. changed.slots = slots
    BY <2>1 DEF ObjectOK
  <2>4. /\ changed.fields = o.fields /\ changed.block = o.block /\ changed.array = o.array
        /\ changed \in [block : Nat \ {0}, array : Nat, fields : Seq(Fields), slots : Seq(Slots)]
    BY <2>1, <2>2 DEF ObjectOK
  <2> QED BY <2>3, <2>4 DEF slots
<1>2. Len(changed.slots) = Len(o.slots) /\ DOMAIN changed.slots = DOMAIN o.slots
      /\ DOMAIN o.slots = 1 .. Len(o.slots)
  BY <1>1 DEF ObjectOK
<1>3. ObjectOK(changed)
  BY <1>1, <1>2 DEF ObjectOK
<1>4. /\ changed.slots[k] = slot
      /\ \A l \in DOMAIN o.slots \ {k} : changed.slots[l] = o.slots[l]
  BY <1>1, <1>2 DEF ObjectOK
<1>5. \A l \in DOMAIN o.slots :
          SlotBlocks(changed.fields[l], changed.slots[l]) \ {NoBlock}
              = (SlotBlocks(o.fields[l], o.slots[l]) \ {NoBlock})
                    \union (IF l = k THEN ids ELSE {})
  BY <1>1, <1>4 DEF Refers
<1>6. Blocks(changed) = Blocks(o) \union ids
  <2> SUFFICES ASSUME NEW x PROVE x \in Blocks(changed) <=> x \in Blocks(o) \union ids
    OBVIOUS
  <2>1. k \in DOMAIN o.slots
    BY <1>2
  <2>2. NoBlock \notin ids
    BY DEF Refers
  <2>3. x # NoBlock => \A l \in DOMAIN o.slots :
            x \in SlotBlocks(changed.fields[l], changed.slots[l])
                <=> x \in SlotBlocks(o.fields[l], o.slots[l]) \/ (l = k /\ x \in ids)
    BY <1>5
  <2> QED BY <1>1, <1>2, <2>1, <2>2, <2>3, BlocksOfObject
<1>7. Holds(changed, new)
  BY <1>1, <1>6 DEF Holds, Grown
<1> QED BY <1>1, <1>2, <1>3, <1>7

-----------------------------------------------------------------------------
\* The steps.

\* The object of a message starts with its own blocks and with no field begun; when
\* there is no memory for it, nothing is left behind.
LEMMA NewObject ==
    ASSUME NEW h, HeapOK(h), h.live = {}, NEW g \in Groups,
           NEW new \in NewGroup(h, g, "object", "array")
    PROVE  /\ HeapOK(new.heap)
           /\ new.ok \in BOOLEAN
           /\ new.ok => ObjectOK(new.group) /\ Holds(new.group, new.heap) /\ Progress(new.group, 0, 0)
           /\ ~new.ok /\ hasFree => Stray(new.heap)
<1> DEFINE fields == EachField(g)
           one == Calloc(h, "object")
           two == Calloc(one, "array")
           made == [ok |-> TRUE, heap |-> IF fields = <<>> THEN one ELSE two,
                    group |-> [block |-> h.next,
                               array |-> IF fields = <<>> THEN NoBlock ELSE one.next,
                               fields |-> fields,
                               slots |-> [k \in DOMAIN fields |-> EmptySlot]]]
<1>1. /\ HeapOK(one) /\ one.live = {[id |-> h.next, kind |-> "object"]}
      /\ one.next = h.next + 1 /\ Mine(one) = {h.next}
  <2>1. Mine(h) = {}
    BY DEF Mine
  <2>2. "object" \in Kinds /\ "object" \notin Nested
    BY DEF Kinds, Nested
  <2> QED BY <2>1, <2>2, CallocGrows DEF Grown
<1>2. /\ HeapOK(two) /\ Mine(two) = {h.next, one.next}
      /\ [id |-> one.next, kind |-> "array"] \in two.live
  <2>1. "array" \in Kinds /\ "array" \notin Nested
    BY DEF Kinds, Nested
  <2> HIDE DEF one
  <2> QED BY <1>1, <2>1, CallocGrows DEF Grown
<1>3. CASE new = made
  <2>1. fields \in Seq(Fields)
    BY EachFieldType
  <2> DEFINE slots == [k \in DOMAIN fields |-> EmptySlot]
  <2>2. EmptySlot \in Slots
    BY DEF EmptySlot, Slots, NoBlock
  <2> HIDE DEF fields
  <2>3. slots \in Seq(Slots) /\ Len(slots) = Len(fields) /\ DOMAIN slots = DOMAIN fields
        /\ \A k \in DOMAIN slots : slots[k] = EmptySlot
    BY <2>1, <2>2
  <2> HIDE DEF one, two, slots
  <2>4. /\ new.ok = TRUE /\ new.heap = (IF fields = <<>> THEN one ELSE two)
        /\ new.group = [block |-> h.next, array |-> IF fields = <<>> THEN NoBlock ELSE one.next,
                        fields |-> fields, slots |-> slots]
    BY <1>3 DEF slots
  <2> DEFINE o == new.group
  <2>5. /\ o.block = h.next /\ o.array = (IF fields = <<>> THEN NoBlock ELSE one.next)
        /\ o.fields = fields /\ o.slots = slots
    BY <2>4
  <2>6. ObjectOK(o)
    BY <1>1, <2>1, <2>3, <2>4 DEF ObjectOK, HeapOK, NoBlock
  <2>7. Blocks(o) = {o.block, o.array} \ {NoBlock}
    <3> SUFFICES ASSUME NEW x PROVE x \in Blocks(o) <=> x \in {o.block, o.array} \ {NoBlock}
      OBVIOUS
    <3>1. \A k \in DOMAIN slots : x \in SlotBlocks(fields[k], slots[k]) => x = NoBlock
      BY <2>3 DEF SlotBlocks, EmptySlot
    <3> HIDE DEF o
    <3> QED BY <2>5, <3>1, BlocksOfObject
  <2>8. h.next # NoBlock /\ one.next # NoBlock
    BY <1>1 DEF HeapOK, NoBlock
  <2>9. Holds(o, new.heap)
    <3> HIDE DEF o
    <3>1. CASE fields = <<>>
      BY <1>1, <2>4, <2>5, <2>7, <2>8, <3>1 DEF Holds
    <3>2. CASE fields # <<>>
      BY <1>2, <2>4, <2>5, <2>7, <2>8, <3>2 DEF Holds
    <3> QED BY <3>1, <3>2
  <2>10. Progress(o, 0, 0)
    <3> HIDE DEF o
    <3> QED BY <2>3, <2>5 DEF Progress
  <2> QED BY <1>1, <1>2, <2>4, <2>6, <2>9, <2>10
<1>4. CASE new.ok = FALSE /\ new.heap = h
  BY <1>4 DEF Stray
<1>5. CASE new.ok = FALSE /\ new.heap = Release(one, {h.next})
  <2> HIDE DEF one
  <2>1. HeapOK(new.heap) /\ new.heap.live \subseteq one.live
        /\ (hasFree => \A x \in new.heap.live : x.id \notin {h.next})
    BY <1>1, <1>5, ReleaseKeeps
  <2>2. hasFree => new.heap.live = {}
    BY <1>1, <2>1
  <2>3. hasFree => Stray(new.heap)
    BY <2>2 DEF Stray
  <2> QED BY <1>5, <2>1, <2>3
<1>6. \/ new = made
      \/ new.ok = FALSE /\ new.heap \in {h, Release(one, {h.next})}
  BY DEF NewGroup
<1> HIDE DEF made, one, two
<1> QED BY <1>3, <1>4, <1>5, <1>6

\* The initial state satisfies the invariant.
LEMMA InitIInv == Init => IInv
<1> SUFFICES ASSUME Init PROVE IInv
  OBVIOUS
<1>1. PICK n \in 0 .. MaxInput : \E mem \in Message(n) : in = NewBuffer(TRUE, FALSE, mem, n)
  BY DEF Init, Message
<1>2. InputOK(in) /\ in.pos = 0
  BY <1>1, DecodeAssumption DEF NewBuffer, InputOK
<1>3. BoundOK(b)
  BY DEF Init, NewBounded, BoundOK
<1>4. HeapOK(heap) /\ heap.live = {}
  BY DEF Init, HeapOK
<1>5. hasFree \in BOOLEAN
  BY DecodeAssumption DEF Init
<1> QED BY <1>2, <1>3, <1>4, <1>5 DEF Init, IInv

\* The header of a message.
LEMMA HeaderKeeps ==
    ASSUME IInv, Header
    PROVE  IInv'
<1> DEFINE size == BufferRead(in, 1)
           limit == in.mem[in.pos]
           bounded == NewBounded(limit)
           id == DecodeOne(bounded, size.s)
<1>1. phase = "header"
  BY DEF Header
<1>2. /\ InputOK(in) /\ BoundOK(b) /\ in.pos = 0 /\ i = 0 /\ j = 0 /\ root = NoRoot
      /\ HeapOK(heap) /\ heap.live = {} /\ hasFree \in BOOLEAN
  BY <1>1 DEF IInv
<1>3. i' = 0 /\ j' = 0 /\ hasFree' = hasFree
  BY <1>2 DEF Header
<1>4. InputOK(size.s) /\ size.ok \in BOOLEAN /\ (size.ok => size.s.pos = 1 /\ 1 <= in.max)
  <2>1. InputOK(size.s) /\ size.ok \in BOOLEAN
        /\ (size.ok => size.s.pos = in.pos + 1 /\ in.pos + 1 <= in.max)
    BY <1>2, BufferReadAdvances
  <2> QED BY <1>2, <2>1
<1>5. Stray(heap)
  BY <1>2 DEF Stray
<1>6. CASE ~size.ok \/ limit \in {0, 192}
  <2>1. in' = size.s /\ b' = b /\ Fail(heap, NoRoot)
    BY <1>6 DEF Header
  <2> HIDE DEF size
  <2> QED BY <1>2, <1>3, <1>4, <1>5, <2>1, FailKeeps
<1>7. CASE ~(~size.ok \/ limit \in {0, 192})
  <2>1. /\ in' = id.in /\ b' = id.b
        /\ IF ~id.ok \/ id.null \/ id.val \notin Groups
           THEN Fail(heap, NoRoot)
           ELSE \E new \in NewGroup(heap, id.val, "object", "array") :
                    IF new.ok THEN EndTurn(0, new.group, new.heap) ELSE Fail(new.heap, NoRoot)
    BY <1>7 DEF Header
  <2>2. limit \in Nat
    <3>1. limit \in Alphabet
      BY <1>2, <1>4, <1>7 DEF InputOK, Message
    <3> HIDE DEF limit
    <3> QED BY <3>1, DecodeAssumption
  <2>3. BoundOK(bounded) /\ bounded.pos = 0
    <3> HIDE DEF limit
    <3> QED BY <2>2 DEF NewBounded, BoundOK
  <2> HIDE DEF size, bounded, limit
  <2>4. Level(id, bounded, size.s) /\ id.ok \in BOOLEAN
    BY <1>4, <2>3, DecodeOneLevel
  <2> HIDE DEF id
  <2>5. InputOK(in') /\ BoundOK(b')
    BY <2>1, <2>4 DEF Level
  <2>6. CASE ~id.ok \/ id.null \/ id.val \notin Groups
    BY <1>2, <1>3, <1>5, <2>1, <2>5, <2>6, FailKeeps
  <2>7. CASE ~(~id.ok \/ id.null \/ id.val \notin Groups)
    <3>1. PICK new \in NewGroup(heap, id.val, "object", "array") :
              IF new.ok THEN EndTurn(0, new.group, new.heap) ELSE Fail(new.heap, NoRoot)
      BY <2>1, <2>7
    <3>2. /\ HeapOK(new.heap) /\ new.ok \in BOOLEAN
          /\ new.ok => ObjectOK(new.group) /\ Holds(new.group, new.heap) /\ Progress(new.group, 0, 0)
          /\ ~new.ok /\ hasFree => Stray(new.heap)
      BY <1>2, <2>7, NewObject
    <3>3. in'.pos = 1 + b'.pos
      BY <1>4, <1>7, <2>1, <2>3, <2>4, <2>7 DEF Level, InputOK, BoundOK
    <3>4. CASE new.ok
      <4>1. 0 <= Len(new.group.slots)
        BY <3>2, <3>4 DEF ObjectOK
      <4> QED BY <1>2, <1>3, <2>5, <3>1, <3>2, <3>3, <3>4, <4>1, EndTurnKeeps
    <3>5. CASE ~new.ok
      BY <1>2, <1>3, <2>5, <3>1, <3>2, <3>5, FailKeeps
    <3> QED BY <3>4, <3>5
  <2> QED BY <2>6, <2>7
<1> QED BY <1>6, <1>7

\* A field that is read is gone past.
LEMMA FieldDone ==
    ASSUME NEW o, ObjectOK(o), NEW n \in Nat, n < Len(o.slots), NEW m \in Nat, Progress(o, n, m),
           FieldIsRead(o.fields[n + 1], o.slots[n + 1])
    PROVE  Progress(o, n + 1, 0)
BY DEF Progress, ObjectOK

\* A field takes the value it is given.
LEMMA FieldSet ==
    ASSUME NEW o, ObjectOK(o), NEW n \in Nat, n < Len(o.slots), NEW m \in Nat, Progress(o, n, m),
           NEW slot \in Slots, FieldIsRead(o.fields[n + 1], slot),
           NEW c, c.fields = o.fields, c.slots = [o.slots EXCEPT ![n + 1] = slot]
    PROVE  Progress(c, n + 1, 0)
<1>1. /\ c.slots[n + 1] = slot /\ Len(c.slots) = Len(o.slots)
      /\ \A k \in 1 .. Len(o.slots) : k # n + 1 => c.slots[k] = o.slots[k]
  BY DEF ObjectOK
<1>2. n + 1 \in 1 .. Len(o.slots) /\ Len(o.slots) \in Nat
  BY DEF ObjectOK
<1>3. \A k \in 1 .. (n + 1) : FieldIsRead(c.fields[k], c.slots[k])
  <2>1. \A k \in 1 .. n : FieldIsRead(c.fields[k], c.slots[k])
    BY <1>1, <1>2 DEF Progress
  <2> QED BY <1>1, <2>1
<1>4. \A k \in (n + 2) .. Len(c.slots) : c.slots[k] = EmptySlot
  BY <1>1, <1>2 DEF Progress
<1> QED BY <1>3, <1>4 DEF Progress

\* A sequence has its size, or one more element.
LEMMA SequenceGrows ==
    ASSUME NEW o, ObjectOK(o), NEW n \in Nat, n < Len(o.slots), NEW m \in Nat, Progress(o, n, m),
           o.fields[n + 1].seq, NEW slot \in Slots,
           Len(slot.elems) = m, m <= slot.size, slot.wire,
           \A k \in DOMAIN slot.elems : ElementIsRead(o.fields[n + 1], slot.elems[k]),
           NEW c, c.fields = o.fields, c.slots = [o.slots EXCEPT ![n + 1] = slot]
    PROVE  Progress(c, n, m + 1)
<1>1. /\ c.slots[n + 1] = slot /\ Len(c.slots) = Len(o.slots)
      /\ \A k \in 1 .. Len(o.slots) : k # n + 1 => c.slots[k] = o.slots[k]
  BY DEF ObjectOK
<1> QED BY <1>1 DEF Progress, ObjectOK

\* What the invariant says when a turn begins.
LEMMA AtTurn ==
    ASSUME IInv, phase = "fields"
    PROVE  /\ InputOK(in) /\ BoundOK(b) /\ in.pos = 1 + b.pos
           /\ i \in Nat /\ j \in Nat /\ hasFree \in BOOLEAN
           /\ HeapOK(heap) /\ ObjectOK(root) /\ Holds(root, heap) /\ Progress(root, i, j)
           /\ i < Len(root.slots) /\ Len(root.slots) \in Nat
           /\ Current \in Fields /\ CurrentSlot \in Slots
           /\ j = 0 => CurrentSlot = EmptySlot
           /\ j > 0 => /\ Current.seq /\ Len(CurrentSlot.elems) = j - 1
                       /\ j - 1 <= CurrentSlot.size /\ CurrentSlot.wire
                       /\ \A k \in DOMAIN CurrentSlot.elems :
                              ElementIsRead(Current, CurrentSlot.elems[k])
<1>1. /\ InputOK(in) /\ BoundOK(b) /\ in.pos = 1 + b.pos
      /\ i \in Nat /\ j \in Nat /\ hasFree \in BOOLEAN
      /\ HeapOK(heap) /\ ObjectOK(root) /\ Holds(root, heap) /\ Progress(root, i, j)
      /\ i < Len(root.slots)
  BY DEF IInv
<1>2. root.fields \in Seq(Fields) /\ root.slots \in Seq(Slots) /\ Len(root.slots) = Len(root.fields)
  BY <1>1 DEF ObjectOK
<1>3. Len(root.slots) \in Nat /\ i + 1 \in 1 .. Len(root.slots)
  BY <1>1, <1>2
<1>4. root.fields[i + 1] \in Fields /\ root.slots[i + 1] \in Slots
  BY <1>2, <1>3
<1>5. /\ j = 0 => root.slots[i + 1] = EmptySlot
      /\ j > 0 => /\ root.fields[i + 1].seq /\ Len(root.slots[i + 1].elems) = j - 1
                  /\ j - 1 <= root.slots[i + 1].size /\ root.slots[i + 1].wire
                  /\ \A k \in DOMAIN root.slots[i + 1].elems :
                         ElementIsRead(root.fields[i + 1], root.slots[i + 1].elems[k])
  BY <1>1, <1>3 DEF Progress
<1> QED BY <1>1, <1>3, <1>4, <1>5 DEF Current, CurrentSlot

\* A streams outcome that is level leaves the decoder level.
LEMMA StaysLevel ==
    ASSUME NEW r, Level(r, b, in), r.ok, InputOK(in), BoundOK(b), in.pos = 1 + b.pos
    PROVE  r.in.pos = 1 + r.b.pos
BY DEF Level, InputOK, BoundOK

\* The end of a sequence.
LEMMA SequenceEndKeeps ==
    ASSUME IInv, SequenceEnd
    PROVE  IInv'
<1>1. /\ phase = "fields" /\ Current.seq /\ j > CurrentSlot.size /\ j > 0
      /\ i' = i + 1 /\ j' = 0 /\ b' = b /\ in' = in /\ hasFree' = hasFree
      /\ EndTurn(i + 1, root, heap)
  BY DEF SequenceEnd
<1>2. /\ InputOK(in) /\ BoundOK(b) /\ in.pos = 1 + b.pos
      /\ i \in Nat /\ j \in Nat /\ hasFree \in BOOLEAN
      /\ HeapOK(heap) /\ ObjectOK(root) /\ Holds(root, heap) /\ Progress(root, i, j)
      /\ i < Len(root.slots) /\ Len(root.slots) \in Nat
      /\ Current \in Fields /\ CurrentSlot \in Slots
      /\ Len(CurrentSlot.elems) = j - 1 /\ j - 1 <= CurrentSlot.size /\ CurrentSlot.wire
      /\ \A k \in DOMAIN CurrentSlot.elems : ElementIsRead(Current, CurrentSlot.elems[k])
  BY <1>1, AtTurn
<1>3. FieldIsRead(Current, CurrentSlot)
  BY <1>1, <1>2 DEF FieldIsRead, Slots
<1>4. Progress(root, i + 1, 0)
  BY <1>2, <1>3, FieldDone DEF Current, CurrentSlot
<1>5. i + 1 \in Nat /\ i + 1 <= Len(root.slots)
  BY <1>2
<1> QED BY <1>1, <1>2, <1>4, <1>5, EndTurnKeeps

\* The size of a sequence.
LEMMA SequenceSizeKeeps ==
    ASSUME IInv, SequenceSize
    PROVE  IInv'
<1> DEFINE r == DecodeOne(b, in)
           slot == [CurrentSlot EXCEPT !.size = r.val, !.wire = TRUE]
<1>1. /\ phase = "fields" /\ Current.seq /\ j = 0 /\ b' = r.b /\ in' = r.in /\ hasFree' = hasFree
      /\ IF ~r.ok \/ (r.null /\ ~Current.opt)
         THEN Fail(heap, root) /\ i' = i /\ j' = j
         ELSE IF r.null
         THEN i' = i + 1 /\ j' = 0 /\ EndTurn(i + 1, root, heap)
         ELSE j' = 1 /\ EndTurn(i, WithSlot(slot), heap) /\ i' = i
  BY DEF SequenceSize
<1>2. /\ InputOK(in) /\ BoundOK(b) /\ in.pos = 1 + b.pos
      /\ i \in Nat /\ j \in Nat /\ hasFree \in BOOLEAN
      /\ HeapOK(heap) /\ ObjectOK(root) /\ Holds(root, heap) /\ Progress(root, i, j)
      /\ i < Len(root.slots) /\ Len(root.slots) \in Nat
      /\ Current \in Fields /\ CurrentSlot \in Slots /\ CurrentSlot = EmptySlot
  BY <1>1, AtTurn
<1>3. Level(r, b, in) /\ r.ok \in BOOLEAN /\ r.null \in BOOLEAN /\ r.val \in Nat
  BY <1>2, DecodeOneLevel
<1> HIDE DEF r
<1>4. InputOK(in') /\ BoundOK(b')
  BY <1>1, <1>3 DEF Level
<1>5. r.ok => in'.pos = 1 + b'.pos
  BY <1>1, <1>2, <1>3, StaysLevel
<1>6. CASE ~r.ok \/ (r.null /\ ~Current.opt)
  BY <1>1, <1>2, <1>4, <1>6, FailKeeps
<1>7. CASE ~(~r.ok \/ (r.null /\ ~Current.opt)) /\ r.null
  <2>1. FieldIsRead(Current, CurrentSlot)
    BY <1>1, <1>2, <1>7 DEF FieldIsRead, EmptySlot
  <2>2. Progress(root, i + 1, 0)
    BY <1>2, <2>1, FieldDone DEF Current, CurrentSlot
  <2>3. i + 1 \in Nat /\ i + 1 <= Len(root.slots)
    BY <1>2
  <2> QED BY <1>1, <1>2, <1>4, <1>5, <1>7, <2>2, <2>3, EndTurnKeeps
<1>8. CASE ~(~r.ok \/ (r.null /\ ~Current.opt)) /\ ~r.null
  <2> DEFINE o == WithSlot(slot)
  <2>1. slot \in Slots /\ slot.size = r.val /\ slot.elems = <<>>
        /\ slot.data = NoBlock /\ Len(slot.elems) = 0 /\ slot.wire
    <3>1. /\ CurrentSlot \in Slots /\ CurrentSlot.elems = <<>> /\ CurrentSlot.data = NoBlock
          /\ Len(<<>>) = 0
      BY <1>2 DEF EmptySlot
    <3> QED BY <1>3, <3>1 DEF Slots
  <2> HIDE DEF slot
  <2>2. Refers(root.fields[i + 1], root.slots[i + 1], slot, {})
    <3>1. Refers(Current, CurrentSlot, slot, {})
      BY <1>2, <2>1 DEF Refers, SlotBlocks, EmptySlot
    <3> QED BY <3>1 DEF Current, CurrentSlot
  <2>3. Grown(heap, heap, {})
    BY <1>2 DEF Grown, HeapOK
  <2>4. i + 1 \in 1 .. Len(root.slots)
    BY <1>2
  <2>5. o = Replaced(root, i + 1, slot)
    BY DEF WithSlot, Replaced
  <2> HIDE DEF o
  <2>6. /\ ObjectOK(o) /\ Holds(o, heap)
        /\ o.fields = root.fields /\ o.slots = [root.slots EXCEPT ![i + 1] = slot]
        /\ Len(o.slots) = Len(root.slots)
    BY <1>2, <2>1, <2>2, <2>3, <2>4, <2>5, WithSlotHolds
  <2>7. Progress(o, i, 1)
    <3>1. root.fields[i + 1].seq
      BY <1>1 DEF Current
    <3>2. Progress(root, i, 0) /\ Len(slot.elems) = 0 /\ 0 <= slot.size
      BY <1>1, <1>2, <1>3, <2>1
    <3>3. DOMAIN slot.elems = {}
      BY <2>1
    <3>4. Progress(o, i, 0 + 1)
      BY <1>2, <2>1, <2>6, <3>1, <3>2, <3>3, SequenceGrows
    <3> QED BY <3>4
  <2>8. j' = 1 /\ i' = i /\ EndTurn(i, o, heap)
    BY <1>1, <1>8 DEF o
  <2>9. i <= Len(o.slots) /\ i # Len(o.slots)
    BY <1>2, <2>6
  <2> QED BY <1>1, <1>2, <1>4, <1>5, <1>8, <2>6, <2>7, <2>8, <2>9, EndTurnKeeps
<1> QED BY <1>6, <1>7, <1>8

\* A field that is no sequence.
LEMMA SingleFieldKeeps ==
    ASSUME IInv, SingleField
    PROVE  IInv'
<1>1. phase = "fields" /\ ~Current.seq /\ j' = j /\ hasFree' = hasFree
  BY DEF SingleField
<1>2. /\ InputOK(in) /\ BoundOK(b) /\ in.pos = 1 + b.pos
      /\ i \in Nat /\ j = 0 /\ hasFree \in BOOLEAN
      /\ HeapOK(heap) /\ ObjectOK(root) /\ Holds(root, heap) /\ Progress(root, i, 0)
      /\ i < Len(root.slots) /\ Len(root.slots) \in Nat
      /\ Current \in Fields /\ CurrentSlot \in Slots /\ CurrentSlot = EmptySlot
  BY <1>1, AtTurn
<1>3. PICK r \in Handle(Current, heap) :
          LET object == WithSlot([CurrentSlot EXCEPT
                                    !.data = r.data, !.init = r.init, !.wire = r.wire])
          IN  /\ b' = r.b /\ in' = r.in /\ i' = i + 1
              /\ IF r.ok THEN EndTurn(i + 1, object, r.heap) ELSE Fail(r.heap, object)
  BY DEF SingleField
<1> DEFINE slot == [CurrentSlot EXCEPT !.data = r.data, !.init = r.init, !.wire = r.wire]
           o == WithSlot(slot)
           new == {r.data} \ {NoBlock}
<1>4. Handled(Current, heap, r)
  BY <1>2, HandleHandled
<1>5. /\ Level(r, b, in) /\ r.ok \in BOOLEAN /\ r.init \in BOOLEAN /\ r.wire \in BOOLEAN
      /\ r.data \in Nat /\ Grown(heap, r.heap, new) /\ HeapOK(r.heap)
      /\ r.data # NoBlock => HoldsData(Current)
      /\ r.ok => (Current.opt \/ r.wire) /\ ValueIsKept(Current, r)
  BY <1>4 DEF Handled, Grown
<1>6. InputOK(in') /\ BoundOK(b') /\ (r.ok => in'.pos = 1 + b'.pos)
  BY <1>2, <1>3, <1>5, StaysLevel DEF Level
<1>7. /\ slot \in Slots /\ slot.elems = <<>> /\ slot.data = r.data /\ slot.init = r.init
      /\ slot.size = 0 /\ Len(slot.elems) = 0 /\ slot.wire = r.wire
  <2>1. /\ CurrentSlot \in Slots /\ CurrentSlot.elems = <<>> /\ CurrentSlot.size = 0
        /\ Len(<<>>) = 0
    BY <1>2 DEF EmptySlot
  <2> QED BY <1>5, <2>1 DEF Slots
<1>8. b' = r.b /\ in' = r.in /\ i' = i + 1
      /\ IF r.ok THEN EndTurn(i + 1, o, r.heap) ELSE Fail(r.heap, o)
  BY <1>3
<1>9. o = Replaced(root, i + 1, slot)
  BY DEF WithSlot, Replaced
<1> HIDE DEF slot, o
<1>10. Refers(root.fields[i + 1], root.slots[i + 1], slot, new)
  <2>1. Refers(Current, CurrentSlot, slot, new)
    BY <1>1, <1>2, <1>5, <1>7 DEF Refers, SlotBlocks, EmptySlot
  <2> QED BY <2>1 DEF Current, CurrentSlot
<1> HIDE DEF new
<1>11. i + 1 \in 1 .. Len(root.slots) /\ i + 1 \in Nat
  BY <1>2
<1>12. /\ ObjectOK(o) /\ Holds(o, r.heap)
       /\ o.fields = root.fields /\ o.slots = [root.slots EXCEPT ![i + 1] = slot]
       /\ Len(o.slots) = Len(root.slots)
  BY <1>2, <1>5, <1>7, <1>9, <1>10, <1>11, WithSlotHolds
<1>13. CASE r.ok
  <2>1. FieldIsRead(Current, slot)
    BY <1>1, <1>2, <1>5, <1>7, <1>13 DEF FieldIsRead, ValueIsKept
  <2>2. Progress(o, i + 1, 0)
    BY <1>2, <1>7, <1>12, <2>1, FieldSet DEF Current
  <2>3. j' = 0 /\ i + 1 <= Len(o.slots)
    BY <1>1, <1>2, <1>12
  <2>4. j' \in Nat
    BY <2>3
  <2> QED BY <1>1, <1>2, <1>5, <1>6, <1>8, <1>11, <1>12, <1>13, <2>2, <2>3, <2>4, EndTurnKeeps
<1>14. CASE ~r.ok
  <2>1. i' \in Nat /\ j' \in Nat
    BY <1>1, <1>2, <1>8, <1>11
  <2> QED BY <1>1, <1>2, <1>5, <1>6, <1>8, <1>12, <1>14, <2>1, FailKeeps
<1> QED BY <1>5, <1>13, <1>14

\* An element of a sequence: its node, and its data if it has any, are new.
LEMMA SequenceElementKeeps ==
    ASSUME IInv, SequenceElement
    PROVE  IInv'
<1>1. phase = "fields" /\ Current.seq /\ j > 0 /\ j <= CurrentSlot.size /\ hasFree' = hasFree
  BY DEF SequenceElement
<1>2. /\ InputOK(in) /\ BoundOK(b) /\ in.pos = 1 + b.pos
      /\ i \in Nat /\ j \in Nat /\ hasFree \in BOOLEAN
      /\ HeapOK(heap) /\ ObjectOK(root) /\ Holds(root, heap) /\ Progress(root, i, j)
      /\ i < Len(root.slots) /\ Len(root.slots) \in Nat
      /\ Current \in Fields /\ CurrentSlot \in Slots /\ Len(CurrentSlot.elems) = j - 1
      /\ CurrentSlot.wire
      /\ \A k \in DOMAIN CurrentSlot.elems : ElementIsRead(Current, CurrentSlot.elems[k])
  BY <1>1, AtTurn
<1> DEFINE node == heap.next
           h == Calloc(heap, "elem")
<1>3. CASE Fail(heap, root) /\ b' = b /\ in' = in /\ i' = i /\ j' = j
  BY <1>1, <1>2, <1>3, FailKeeps
<1>4. ASSUME NEW r \in Handle(Current, h),
             LET object == WithSlot([CurrentSlot EXCEPT !.elems =
                               Append(@, [block |-> node, data |-> r.data, wire |-> r.wire])])
             IN  /\ b' = r.b /\ in' = r.in /\ j' = j + 1 /\ i' = i
                 /\ IF r.ok THEN EndTurn(i, object, r.heap) ELSE Fail(r.heap, object)
      PROVE  IInv'
  <2> DEFINE elem == [block |-> node, data |-> r.data, wire |-> r.wire]
             elems == Append(CurrentSlot.elems, elem)
             slot == [CurrentSlot EXCEPT !.elems = elems]
             o == WithSlot(slot)
             new == {node} \union ({r.data} \ {NoBlock})
  <2>1. Grown(heap, h, {node}) /\ HeapOK(h)
    <3>1. "elem" \in Kinds /\ "elem" \notin Nested
      BY DEF Kinds, Nested
    <3> QED BY <1>2, <3>1, CallocGrows DEF Grown
  <2>2. node \in Nat /\ node # NoBlock
    BY <1>2 DEF HeapOK, NoBlock
  <2> HIDE DEF h
  <2>3. Handled(Current, h, r)
    BY <1>2, <2>1, HandleHandled
  <2>4. /\ Level(r, b, in) /\ r.ok \in BOOLEAN /\ r.wire \in BOOLEAN
        /\ r.data \in Nat /\ Grown(h, r.heap, {r.data} \ {NoBlock}) /\ HeapOK(r.heap)
        /\ r.data # NoBlock => HoldsData(Current)
        /\ r.ok => (Current.opt \/ r.wire) /\ ValueIsKept(Current, r)
    BY <2>3 DEF Handled, Grown
  <2>5. Grown(heap, r.heap, new)
    BY <1>2, <2>1, <2>4, GrownTwice
  <2>6. InputOK(in') /\ BoundOK(b') /\ (r.ok => in'.pos = 1 + b'.pos)
    BY <1>2, <1>4, <2>4, StaysLevel DEF Level
  <2>7. b' = r.b /\ in' = r.in /\ j' = j + 1 /\ i' = i
        /\ IF r.ok THEN EndTurn(i, o, r.heap) ELSE Fail(r.heap, o)
    BY <1>4
  <2>8. elem \in Elements /\ elem.block = node /\ elem.data = r.data /\ elem.wire = r.wire
    BY <2>2, <2>4 DEF Elements
  <2> HIDE DEF elem, node
  <2>9. CurrentSlot.elems \in Seq(Elements) /\ CurrentSlot.size \in Nat
    BY <1>2 DEF Slots
  <2>10. /\ elems \in Seq(Elements) /\ Len(elems) = j
         /\ elems[j] = elem
         /\ DOMAIN elems = 1 .. j /\ DOMAIN CurrentSlot.elems = 1 .. (j - 1)
         /\ \A n \in 1 .. (j - 1) : elems[n] = CurrentSlot.elems[n]
    BY <1>1, <1>2, <2>8, <2>9
  <2> HIDE DEF elems
  <2>11. /\ slot \in Slots /\ slot.elems = elems /\ slot.size = CurrentSlot.size
         /\ slot.data = CurrentSlot.data /\ slot.wire = CurrentSlot.wire
    BY <1>2, <2>10 DEF Slots
  <2>12. o = Replaced(root, i + 1, slot)
    BY DEF WithSlot, Replaced
  <2> HIDE DEF slot, o
  <2>13. Refers(root.fields[i + 1], root.slots[i + 1], slot, new)
    <3>1. \A x : (\E n \in DOMAIN slot.elems : x = slot.elems[n].block)
                    <=> x = node \/ (\E n \in DOMAIN CurrentSlot.elems : x = CurrentSlot.elems[n].block)
      <4>1. DOMAIN slot.elems = DOMAIN CurrentSlot.elems \union {j}
        BY <1>2, <2>8, <2>10, <2>11
      <4>2. slot.elems[j].block = node
        BY <2>8, <2>10, <2>11
      <4>3. \A n \in DOMAIN CurrentSlot.elems : slot.elems[n] = CurrentSlot.elems[n]
        BY <2>10, <2>11
      <4> QED BY <4>1, <4>2, <4>3
    <3>2. \A x : (\E n \in DOMAIN slot.elems : x = slot.elems[n].data)
                    <=> x = r.data \/ (\E n \in DOMAIN CurrentSlot.elems : x = CurrentSlot.elems[n].data)
      <4>1. DOMAIN slot.elems = DOMAIN CurrentSlot.elems \union {j}
        BY <1>2, <2>8, <2>10, <2>11
      <4>2. slot.elems[j].data = r.data
        BY <2>8, <2>10, <2>11
      <4>3. \A n \in DOMAIN CurrentSlot.elems : slot.elems[n] = CurrentSlot.elems[n]
        BY <2>10, <2>11
      <4> QED BY <4>1, <4>2, <4>3
    <3>3. Refers(Current, CurrentSlot, slot, new)
      <4> SUFFICES ASSUME NEW x, x # NoBlock
                   PROVE  x \in SlotBlocks(Current, slot)
                              <=> x \in SlotBlocks(Current, CurrentSlot) \/ x \in new
        BY <2>2 DEF Refers
      <4>1. CASE HoldsData(Current)
        <5>1. x \in SlotBlocks(Current, slot)
                  <=> \/ \E n \in DOMAIN slot.elems : x = slot.elems[n].block
                      \/ \E n \in DOMAIN slot.elems : x = slot.elems[n].data
          BY <1>1, <4>1 DEF SlotBlocks
        <5>2. x \in SlotBlocks(Current, CurrentSlot)
                  <=> \/ \E n \in DOMAIN CurrentSlot.elems : x = CurrentSlot.elems[n].block
                      \/ \E n \in DOMAIN CurrentSlot.elems : x = CurrentSlot.elems[n].data
          BY <1>1, <4>1 DEF SlotBlocks
        <5>3. x \in new <=> x = node \/ x = r.data
          OBVIOUS
        <5> QED BY <3>1, <3>2, <5>1, <5>2, <5>3
      <4>2. CASE ~HoldsData(Current)
        BY <1>1, <2>4, <3>1, <4>2 DEF SlotBlocks
      <4> QED BY <4>1, <4>2
    <3> QED BY <3>3 DEF Current, CurrentSlot
  <2> HIDE DEF new
  <2>14. i + 1 \in 1 .. Len(root.slots)
    BY <1>2
  <2>15. /\ ObjectOK(o) /\ Holds(o, r.heap)
         /\ o.fields = root.fields /\ o.slots = [root.slots EXCEPT ![i + 1] = slot]
         /\ Len(o.slots) = Len(root.slots)
    BY <1>2, <2>5, <2>11, <2>12, <2>13, <2>14, WithSlotHolds
  <2>16. j' \in Nat /\ i' \in Nat
    BY <1>2, <2>7
  <2>17. CASE r.ok
    <3>1. root.fields[i + 1].seq /\ Len(slot.elems) = j /\ j <= slot.size /\ slot.wire
      BY <1>1, <1>2, <2>10, <2>11 DEF Current
    <3>2. ElementIsRead(Current, elem)
      BY <2>4, <2>8, <2>17 DEF ElementIsRead, ValueIsKept
    <3>3. \A k \in DOMAIN slot.elems : ElementIsRead(Current, slot.elems[k])
      <4>1. \A k \in 1 .. (j - 1) : ElementIsRead(Current, slot.elems[k])
        BY <1>2, <2>10, <2>11
      <4>2. \A k \in DOMAIN slot.elems : k = j \/ k \in 1 .. (j - 1)
        BY <1>2, <2>10, <2>11
      <4> QED BY <2>10, <2>11, <3>2, <4>1, <4>2
    <3>4. Progress(o, i, j')
      BY <1>2, <2>7, <2>11, <2>15, <3>1, <3>3, SequenceGrows DEF Current
    <3>5. i <= Len(o.slots) /\ i # Len(o.slots)
      BY <1>2, <2>15
    <3> QED BY <1>1, <1>2, <2>4, <2>6, <2>7, <2>15, <2>16, <2>17, <3>4, <3>5, EndTurnKeeps
  <2>18. CASE ~r.ok
    BY <1>1, <1>2, <2>4, <2>6, <2>7, <2>15, <2>16, <2>18, FailKeeps
  <2> QED BY <2>4, <2>17, <2>18
<1> QED BY <1>3, <1>4 DEF SequenceElement

\* Every step keeps the invariant.
LEMMA NextKeeps == IInv /\ [Next]_vars => IInv'
<1> SUFFICES ASSUME IInv, [Next]_vars PROVE IInv'
  OBVIOUS
<1>1. CASE EnumAbort
  BY <1>1 DEF EnumAbort, IInv
<1>2. CASE Destroy
  <2>1. /\ phase = "done" /\ phase' = "gone" /\ heap' = DestroyGroup(heap, root) /\ root' = NoRoot
        /\ UNCHANGED <<in, b, i, j, hasFree>>
    BY <1>2 DEF Destroy
  <2>2. HeapOK(heap) /\ ObjectOK(root) /\ Holds(root, heap)
    BY <2>1 DEF IInv
  <2>3. HeapOK(heap') /\ (hasFree => Stray(heap'))
    BY <2>1, <2>2, DestroyLeavesStray
  <2> QED BY <2>1, <2>3 DEF IInv
<1>3. CASE UNCHANGED vars
  BY <1>3 DEF vars, IInv
<1> QED BY <1>1, <1>2, <1>3, HeaderKeeps, SequenceSizeKeeps, SequenceEndKeeps,
           SequenceElementKeeps, SingleFieldKeeps DEF Next, Turn

\* The invariant holds in every reachable state.
THEOREM Invariance == Spec => []IInv
BY InitIInv, NextKeeps, PTL DEF Spec

-----------------------------------------------------------------------------
\* Every state of the decoder has the types TypeOK gives it.
THEOREM TypeCorrect == Spec => []TypeOK
<1>1. IInv => TypeOK
  <2> SUFFICES ASSUME IInv PROVE TypeOK
    OBVIOUS
  <2>1. phase \in {"header", "fields", "done", "failed", "aborted", "gone"}
    BY DEF IInv
  <2>2. in.pos \in 0 .. in.max /\ b.pos \in 0 .. b.max
    BY DEF IInv, InputOK, BoundOK
  <2>3. heap.live \subseteq [id : 1 .. (heap.next - 1), kind : Kinds]
    BY DEF IInv, HeapOK
  <2>4. CASE root = NoRoot
    BY <2>1, <2>2, <2>3, <2>4 DEF TypeOK, NoRoot, NumberOfFields
  <2>5. CASE phase \in {"fields", "done", "aborted"}
    <3>1. ObjectOK(root) /\ i \in Nat /\ i <= Len(root.slots)
      BY <2>5 DEF IInv
    <3> QED BY <2>1, <2>2, <2>3, <3>1 DEF TypeOK, NumberOfFields, ObjectOK
  <2> QED BY <2>1, <2>4, <2>5 DEF IInv
<1> QED BY <1>1, Invariance, PTL

\* An accepted message is consumed to the last byte its size announced, whatever
\* its fields and whatever the schema.
THEOREM AcceptedConsumed == Spec => []AcceptedIsConsumed
<1>1. IInv => AcceptedIsConsumed
  BY DEF IInv, AcceptedIsConsumed
<1> QED BY <1>1, Invariance, PTL

\* The object refers to every allocated block that is its own and to no block that
\* is not allocated, at every turn of the loop.
THEOREM OwnedAreLive == Spec => []OwnedBlocksAreLive
<1>1. IInv => OwnedBlocksAreLive
  BY DEF IInv, Holds, Mine, Nested, OwnedBlocksAreLive
<1> QED BY <1>1, Invariance, PTL

\* After an error at any allocation or any byte, and after the caller has destroyed
\* the object, no string and no element is left.
THEOREM NothingKeptAfterFailure == Spec => []StringsAndElementsFreed
<1>1. IInv => StringsAndElementsFreed
  BY DEF IInv, Stray, Nested, StringsAndElementsFreed
<1> QED BY <1>1, Invariance, PTL

\* An accepted message had a value for every mandatory field, whatever its type, every
\* element of its sequences, and what it had is kept in the object: fields of numbers,
\* flags, decimals and fixed are not null, and strings not unless they are empty. (The
\* code loses the value of a u16 and a nested group; they are not claimed to be kept.)
THEOREM NothingIsMissing == Spec => []NoValueIsMissing
<1>1. IInv => NoValueIsMissing
  <2> SUFFICES ASSUME IInv, phase = "done", NEW k \in DOMAIN root.fields
               PROVE  FieldIsRead(root.fields[k], root.slots[k])
    BY DEF NoValueIsMissing
  <2>1. ObjectOK(root) /\ Progress(root, i, j) /\ i = Len(root.slots)
    BY DEF IInv
  <2>2. k \in 1 .. i
    BY <2>1 DEF ObjectOK
  <2> QED BY <2>1, <2>2 DEF Progress
<1> QED BY <1>1, Invariance, PTL

-----------------------------------------------------------------------------
\* The loop moves on.

FieldsLeft == Len(root.slots) - i
ElementsLeft == CurrentSlot.size + 1 - j

\* A turn takes a field, the size of a sequence, or an element of one.
TurnMovesOn ==
    /\ FieldsLeft' \in Nat
    /\ \/ FieldsLeft' < FieldsLeft
       \/ /\ FieldsLeft' = FieldsLeft
          /\ j' > 0 /\ ElementsLeft' \in Nat
          /\ j = 0 \/ ElementsLeft' < ElementsLeft

\* A turn that ends neither the loop nor the object goes on with what it has made.
LEMMA LoopGoesOn ==
    ASSUME NEW n, NEW o, NEW h, NEW k \in 1 .. Len(root.slots), NEW slot, ObjectOK(root),
           o = root \/ o = [root EXCEPT !.slots[k] = slot], EndTurn(n, o, h), phase' = "fields"
    PROVE  root' = o /\ Len(root'.slots) = Len(root.slots) /\ (o # root => root'.slots[k] = slot)
<1>1. root' = o
  BY DEF EndTurn, Fail
<1>2. root.slots \in Seq(Slots)
  BY DEF ObjectOK
<1>3. CASE o = [root EXCEPT !.slots[k] = slot]
  <2>1. root'.slots = [root.slots EXCEPT ![k] = slot]
    BY <1>1, <1>3 DEF ObjectOK
  <2> QED BY <1>1, <1>2, <2>1
<1> QED BY <1>1, <1>3

\* What is left of n elements at the m-th.
LEMMA CountsDown ==
    ASSUME NEW m \in Nat, NEW n \in Nat, m - 1 <= n
    PROVE  n + 1 - m \in Nat
OBVIOUS

\* A field that is no sequence is taken in one turn.
LEMMA SingleFieldGoesOn ==
    ASSUME IInv, SingleField
    PROVE  phase' = "fields" => i' = i + 1 /\ Len(root'.slots) = Len(root.slots)
<1>1. PICK r \in Handle(Current, heap) :
          LET object == WithSlot([CurrentSlot EXCEPT
                                    !.data = r.data, !.init = r.init, !.wire = r.wire])
          IN  /\ b' = r.b /\ in' = r.in /\ i' = i + 1
              /\ IF r.ok THEN EndTurn(i + 1, object, r.heap) ELSE Fail(r.heap, object)
  BY DEF SingleField
<1> DEFINE slot == [CurrentSlot EXCEPT !.data = r.data, !.init = r.init, !.wire = r.wire]
           o == WithSlot(slot)
<1>2. o = [root EXCEPT !.slots[i + 1] = slot]
  BY DEF WithSlot
<1>3. i' = i + 1 /\ (phase' = "fields" => EndTurn(i + 1, o, r.heap))
  BY <1>1 DEF Fail
<1> HIDE DEF slot, o
<1>4. ObjectOK(root) /\ i \in Nat /\ i < Len(root.slots) /\ Len(root.slots) \in Nat
  BY AtTurn DEF SingleField
<1>5. i + 1 \in 1 .. Len(root.slots)
  BY <1>4
<1> QED BY <1>2, <1>3, <1>4, <1>5, LoopGoesOn

\* Each turn moves on.
LEMMA TurnsGoOn ==
    ASSUME IInv, IInv', Turn, phase = "fields", phase' = "fields"
    PROVE  TurnMovesOn
<1>1. /\ i \in Nat /\ j \in Nat /\ ObjectOK(root) /\ i < Len(root.slots) /\ Len(root.slots) \in Nat
      /\ CurrentSlot \in Slots
  BY AtTurn
<1>2. i' \in Nat /\ j' \in Nat /\ i' <= Len(root'.slots) /\ Len(root'.slots) \in Nat
  BY DEF IInv, ObjectOK
<1>3. j' > 0 => ElementsLeft' \in Nat
  <2>1. j' > 0 => i' < Len(root'.slots) /\ j' - 1 <= root'.slots[i' + 1].size
    BY DEF IInv, Progress
  <2>2. ASSUME j' > 0 PROVE root'.slots[i' + 1].size \in Nat
    <3>1. root'.slots \in Seq(Slots)
      BY DEF IInv, ObjectOK
    <3>2. root'.slots[i' + 1] \in Slots
      BY <1>2, <2>1, <2>2, <3>1
    <3> QED BY <3>2 DEF Slots
  <2>3. ElementsLeft' = root'.slots[i' + 1].size + 1 - j'
    BY DEF ElementsLeft, CurrentSlot
  <2>4. j' \in Nat
    BY <1>2
  <2> QED BY <2>1, <2>2, <2>3, <2>4, CountsDown
<1>4. i + 1 \in 1 .. Len(root.slots)
  BY <1>1
<1>5. CASE SingleField
  <2>1. i' = i + 1 /\ Len(root'.slots) = Len(root.slots)
    BY <1>5, SingleFieldGoesOn
  <2> QED BY <1>1, <1>2, <2>1 DEF TurnMovesOn, FieldsLeft
<1>6. CASE SequenceEnd
  <2>1. EndTurn(i + 1, root, heap) /\ i' = i + 1
    BY <1>6 DEF SequenceEnd
  <2>2. root' = root
    BY <2>1 DEF EndTurn, Fail
  <2> QED BY <1>1, <1>2, <2>1, <2>2 DEF TurnMovesOn, FieldsLeft
<1>7. CASE SequenceSize
  <2> DEFINE r == DecodeOne(b, in)
             slot == [CurrentSlot EXCEPT !.size = r.val, !.wire = TRUE]
             o == WithSlot(slot)
  <2>1. o = [root EXCEPT !.slots[i + 1] = slot]
    BY DEF WithSlot
  <2>2. \/ i' = i + 1 /\ EndTurn(i + 1, root, heap)
        \/ i' = i /\ j = 0 /\ j' = 1 /\ EndTurn(i, o, heap)
    BY <1>7 DEF SequenceSize, Fail
  <2> HIDE DEF slot, o
  <2>3. Len(root'.slots) = Len(root.slots)
    BY <1>1, <1>4, <2>1, <2>2, LoopGoesOn
  <2>4. CASE i' = i + 1
    BY <1>1, <1>2, <2>3, <2>4 DEF TurnMovesOn, FieldsLeft
  <2>5. CASE i' = i /\ j = 0 /\ j' = 1
    <3>1. ElementsLeft' \in Nat /\ j' > 0
      BY <1>3, <2>5
    <3>2. FieldsLeft' = FieldsLeft /\ FieldsLeft' \in Nat
      BY <1>1, <1>2, <2>3, <2>5 DEF FieldsLeft
    <3> QED BY <2>5, <3>1, <3>2 DEF TurnMovesOn
  <2> QED BY <2>2, <2>4, <2>5
<1>8. CASE SequenceElement
  <2>1. j > 0 /\ i' = i /\ j' = j + 1
    BY <1>8 DEF SequenceElement, Fail
  <2>2. PICK r \in Handle(Current, Calloc(heap, "elem")) :
            LET object == WithSlot([CurrentSlot EXCEPT !.elems =
                              Append(@, [block |-> heap.next, data |-> r.data, wire |-> r.wire])])
            IN  IF r.ok THEN EndTurn(i, object, r.heap) ELSE Fail(r.heap, object)
    BY <1>8 DEF SequenceElement, Fail
  <2> DEFINE elems == Append(CurrentSlot.elems, [block |-> heap.next, data |-> r.data, wire |-> r.wire])
             slot == [CurrentSlot EXCEPT !.elems = elems]
             o == WithSlot(slot)
  <2>3. slot.size = CurrentSlot.size /\ CurrentSlot.size \in Nat
    BY <1>1 DEF Slots
  <2>4. o = [root EXCEPT !.slots[i + 1] = slot]
    BY DEF WithSlot
  <2>5. EndTurn(i, o, r.heap)
    BY <2>2 DEF Fail
  <2> HIDE DEF slot, o
  <2>6. root' = o /\ Len(root'.slots) = Len(root.slots)
    BY <1>1, <1>4, <2>4, <2>5, LoopGoesOn
  <2>7. root'.slots[i + 1] = slot
    BY <1>1, <1>4, <2>4, <2>6 DEF ObjectOK
  <2>8. ElementsLeft' = slot.size + 1 - (j + 1)
    BY <2>1, <2>7 DEF ElementsLeft, CurrentSlot
  <2>9. ElementsLeft' < ElementsLeft
    BY <1>1, <2>3, <2>8 DEF ElementsLeft
  <2> QED BY <1>1, <1>2, <1>3, <2>1, <2>6, <2>9 DEF TurnMovesOn, FieldsLeft
<1>9. CASE EnumAbort
  BY <1>9 DEF EnumAbort
<1> QED BY <1>5, <1>6, <1>7, <1>8, <1>9 DEF Turn

\* The loop of decodeCompact cannot go on for ever, whatever the message says: each turn
\* after which it goes on leaves fewer fields, or as many and fewer elements of the
\* sequence it is in, whose number the first turn of the sequence has read.
THEOREM LoopMovesOn == Spec => [][phase = "fields" /\ phase' = "fields" => TurnMovesOn]_vars
<1>1. IInv /\ IInv' /\ [Next]_vars => [phase = "fields" /\ phase' = "fields" => TurnMovesOn]_vars
  <2> SUFFICES ASSUME IInv, IInv', Next, phase = "fields", phase' = "fields" PROVE TurnMovesOn
    OBVIOUS
  <2>1. Turn
    BY DEF Next, Header, Destroy
  <2> QED BY <2>1, TurnsGoOn
<1> QED BY <1>1, Invariance, PTL DEF Spec
=============================================================================
