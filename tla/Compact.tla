------------------------------ MODULE Compact ------------------------------
(***************************************************************************)
(* The compact form encoders and decoders of blink_compact.c.              *)
(*                                                                         *)
(* Every value travels as a word of WORD_BYTES bytes (uint64_t in the      *)
(* code), a number in 0 .. Modulus - 1; a signed value is the number with  *)
(* the same bits. A decoder is a function of a buffer stream and returns   *)
(* [ok, null, val, s]: the return value, *isNull, *out and the stream it   *)
(* leaves. The bits the code joins with | never overlap: the model adds.   *)
(***************************************************************************)
EXTENDS StreamOps

CONSTANTS
    WORD_BYTES,     \* sizeof(uint64_t)
    NULL            \* what a null field decodes to

\* The count of bytes has six bits, and the code reads a count of bytes at once.
ASSUME WordBytesAssumption == WORD_BYTES \in 2 .. 63 /\ WORD_BYTES <= INT_MAX

\* How many values some bytes have.
ValuesIn[k \in 0 .. WORD_BYTES] == IF k = 0 THEN 1 ELSE 256 * ValuesIn[k - 1]

Modulus == ValuesIn[WORD_BYTES]
Half == Modulus \div 2

AsSigned(word) == IF word >= Half THEN word - Modulus ELSE word
AsWord(int) == IF int < 0 THEN int + Modulus ELSE int

\* Shifts by one byte and by six bits, in a word.
ShiftByte(word) == (word % (Modulus \div 256)) * 256
ShiftSix(word) == (word % (Modulus \div 64)) * 64

-----------------------------------------------------------------------------
\* How many bytes a value takes: one byte carries 7 bits, two carry 14, and from
\* then on a length byte is followed by the fewest whole bytes.

FewestBytes(fits(_)) ==
    1 + (CHOOSE k \in 2 .. WORD_BYTES : fits(k) /\ \A j \in 2 .. (k - 1) : ~fits(j))

\* Mutants of SizeofUnsigned and SizeofSigned: one byte carries one value less, or
\* one value more.
SizeofUnsignedEarly(word) ==
    LET fits(k) == word < ValuesIn[k] IN
    IF word <= 126 THEN 1 ELSE IF word <= 16383 THEN 2 ELSE FewestBytes(fits)

SizeofSignedLate(int) ==
    LET fits(k) == int >= -(ValuesIn[k] \div 2) /\ int < ValuesIn[k] \div 2 IN
    IF int >= -64 /\ int <= 64 THEN 1 ELSE IF int >= -8192 /\ int <= 8191 THEN 2 ELSE FewestBytes(fits)

SizeofUnsigned(word) ==
    LET fits(k) == word < ValuesIn[k] IN
    IF word <= 127 THEN 1 ELSE IF word <= 16383 THEN 2 ELSE FewestBytes(fits)

SizeofSigned(int) ==
    LET fits(k) == int >= -(ValuesIn[k] \div 2) /\ int < ValuesIn[k] \div 2 IN
    IF int >= -64 /\ int <= 63 THEN 1 ELSE IF int >= -8192 /\ int <= 8191 THEN 2 ELSE FewestBytes(fits)

Sizeof(word, isSigned) ==
    IF isSigned THEN SizeofSigned(AsSigned(word)) ELSE SizeofUnsigned(word)

\* The low bits of a word laid out in a given number of bytes.
VLCBytes(word, bytes) ==
    CASE bytes = 1 -> <<word % 128>>
      [] bytes = 2 -> <<128 + (word % 64), (word \div 64) % 256>>
      [] OTHER -> <<192 + (bytes - 1)>>
                      \o [i \in 1 .. (bytes - 1) |-> (word \div ValuesIn[i - 1]) % 256]

EncodeVLC(word, isSigned) == VLCBytes(word, Sizeof(word, isSigned))

-----------------------------------------------------------------------------
Failed(s) == [ok |-> FALSE, null |-> FALSE, val |-> NULL, s |-> s]
Null(s) == [ok |-> TRUE, null |-> TRUE, val |-> NULL, s |-> s]
Value(v, s) == [ok |-> TRUE, null |-> FALSE, val |-> v, s |-> s]

\* Mutants of OneByte and TwoBytes: the sign is not extended.
OneByteUnsigned(first, isSigned) == first

TwoBytesUnsigned(first, second, isSigned) == ShiftSix(second) + (first % 64)

\* The word in one byte: bit 6 is the sign.
OneByte(first, isSigned) ==
    IF isSigned /\ first >= 64 THEN Modulus - 128 + first ELSE first

\* The word in two bytes: 6 low bits, then 8 more whose top one is the sign.
TwoBytes(first, second, isSigned) ==
    LET high == IF isSigned /\ second >= 128 THEN Modulus - 256 + second ELSE second
    IN  ShiftSix(high) + (first % 64)

\* The word in counted bytes, least significant first. The constant that extends
\* the sign of the last byte is one byte short of the word.
CountedBytes(payload, isSigned) ==
    LET n == Len(payload)
        top == payload[n]
        start == IF isSigned /\ top >= 128 THEN (Modulus \div 256) - 256 + top ELSE top
        word[i \in 1 .. n] == IF i = n THEN start ELSE ShiftByte(word[i + 1]) + payload[i]
    IN  word[1]

\* A read that is refused after the first byte leaves that byte consumed.
DecodeVLC(s, isSigned) ==
    LET r1 == BufferRead(s, 1)
        first == s.mem[s.pos]
        s1 == r1.s
        more == IF first < 192 THEN 1 ELSE first - 192
        r2 == BufferRead(s1, more)
        rest == BytesAt(s1.mem, s1.pos, more)
    IN  CASE ~r1.ok -> Failed(s1)
          [] r1.ok /\ first < 128 -> Value(OneByte(first, isSigned), s1)
          [] r1.ok /\ first = 192 -> Null(s1)
          [] r1.ok /\ first > 192 /\ more > WORD_BYTES -> Failed(s1)
          [] r1.ok /\ first \in (128 .. 191) \union (193 .. (192 + WORD_BYTES)) ->
                IF ~r2.ok THEN Failed(r2.s)
                ELSE IF first < 192 THEN Value(TwoBytes(first, rest[1], isSigned), r2.s)
                ELSE Value(CountedBytes(rest, isSigned), r2.s)

-----------------------------------------------------------------------------
\* The decoders of the field types: a null passes, a value out of range (W3) or
\* outside a closed set (W9, W11) is refused, after its bytes were consumed.
OnlyIf(r, accepts(_)) ==
    IF r.ok /\ ~r.null /\ ~accepts(r.val) THEN Failed(r.s) ELSE r

\* Mutant of DecodeUnsigned: the largest value of the type is refused.
DecodeUnsignedTight(s, bytes) ==
    LET inRange(word) == word < ValuesIn[bytes] - 1
    IN  OnlyIf(DecodeVLC(s, FALSE), inRange)

DecodeUnsigned(s, bytes) ==
    LET inRange(word) == word < ValuesIn[bytes]
    IN  OnlyIf(DecodeVLC(s, FALSE), inRange)

DecodeU64(s) == DecodeVLC(s, FALSE)

DecodeI64(s) ==
    LET r == DecodeVLC(s, TRUE)
    IN  IF r.ok /\ ~r.null THEN Value(AsSigned(r.val), r.s) ELSE r

DecodeSigned(s, bytes) ==
    LET inRange(int) == int >= -(ValuesIn[bytes] \div 2) /\ int < ValuesIn[bytes] \div 2
    IN  OnlyIf(DecodeI64(s), inRange)

DecodeBool(s) ==
    LET isBool(word) == word \in {0, 1}
    IN  OnlyIf(DecodeVLC(s, FALSE), isBool)

\* Present or null; null means the field is not present.
DecodePresent(s) ==
    LET isPresent(word) == word = 1
    IN  OnlyIf(DecodeVLC(s, FALSE), isPresent)

\* A decimal of the two results: only the exponent may be null.
DecimalOf(exponent, mantissa) ==
    IF ~exponent.ok \/ exponent.null THEN exponent
    ELSE IF ~mantissa.ok \/ mantissa.null THEN Failed(mantissa.s)
    ELSE Value(<<mantissa.val, exponent.val>>, mantissa.s)

\* Mutant of DecodeDecimal: an exponent of zero is taken for the number zero.
DecodeDecimalShort(s) ==
    LET exponent == DecodeSigned(s, 1)
        short(r) == r.ok /\ ~r.null /\ r.val = 0
    IN  IF short(exponent) THEN Value(<<0, 0>>, exponent.s)
        ELSE DecimalOf(exponent, DecodeI64(exponent.s))

\* An exponent and a mantissa.
DecodeDecimal(s) ==
    LET exponent == DecodeSigned(s, 1)
    IN  DecimalOf(exponent, DecodeI64(exponent.s))

\* A double known by its bits. The double whose value is the number n has other
\* bits than n, unless n is 0.
DoubleOfBits(word) == [form |-> IF word = 0 THEN "zero" ELSE "bits", of |-> word]
DoubleOfNumber(n) == [form |-> IF n = 0 THEN "zero" ELSE "number", of |-> n]

\* The encoder sends the bits of the double, the decoder converts the number.
EncodeF64(double) == EncodeVLC(double.of, FALSE)

DecodeF64(s) ==
    LET r == DecodeU64(s)
    IN  IF r.ok /\ ~r.null THEN Value(DoubleOfNumber(r.val), r.s) ELSE r

EncodeNull == <<192>>
EncodePresent == <<1>>
=============================================================================
