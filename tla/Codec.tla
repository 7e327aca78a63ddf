------------------------------- MODULE Codec -------------------------------
(***************************************************************************)
(* An encoder writes values of the Blink field types into a buffer stream  *)
(* until the buffer is full; a decoder that knows the types reads them     *)
(* back from the bytes that arrive, which may be fewer than were written.  *)
(***************************************************************************)
EXTENDS Compact

CONSTANTS
    Kinds,          \* the types of the values sent
    ValuesOf(_),    \* the values of each type
    Capacity,       \* bytes of the buffer
    MaxItems        \* bound on the values of a message

\* The values an integer type holds in some bytes.
IsUnsigned(val, bytes) == val \in Nat /\ val < ValuesIn[bytes]
IsSigned(val, bytes) ==
    val \in Int /\ val >= -(ValuesIn[bytes] \div 2) /\ val < ValuesIn[bytes] \div 2

\* The values the C type behind a field type holds: a decimal is a mantissa and an
\* exponent, a double its bits.
InType(kind, val) ==
    CASE kind = "present" -> val = 1
      [] kind = "bool" -> val \in {0, 1}
      [] kind = "u8" -> IsUnsigned(val, 1)
      [] kind = "u16" -> IsUnsigned(val, 2)
      [] kind = "u64" -> IsUnsigned(val, WORD_BYTES)
      [] kind = "i8" -> IsSigned(val, 1)
      [] kind = "i16" -> IsSigned(val, 2)
      [] kind = "i64" -> IsSigned(val, WORD_BYTES)
      [] kind = "decimal" ->
            val \in Int \X Int /\ IsSigned(val[1], WORD_BYTES) /\ IsSigned(val[2], 1)
      [] kind = "f64" -> IsUnsigned(val.of, WORD_BYTES) /\ val = DoubleOfBits(val.of)

ASSUME ValuesAssumption ==
    /\ Kinds \subseteq {"present", "bool", "u8", "u16", "u64", "i8", "i16", "i64", "decimal", "f64"}
    /\ \A kind \in Kinds : \A val \in ValuesOf(kind) : val # NULL /\ InType(kind, val)
    /\ Capacity \in Nat

VARIABLES
    out,        \* the buffer stream of the encoder
    sent,       \* the items encoded: [kind, val]
    marks,      \* history: where out stood after each of them
    partial,    \* the type of the value that did not fit, or "none"
    in,         \* the buffer stream of the decoder
    got,        \* the items decoded
    phase       \* "encode", "decode", or "refused" after a failed decode

vars == <<out, sent, marks, partial, in, got, phase>>

\* The writes one encoder makes, in order; each of them is all or nothing.
Encoding(kind, val) ==
    CASE val = NULL -> <<EncodeNull>>
      [] val # NULL /\ kind = "present" -> <<EncodePresent>>
      [] val # NULL /\ kind \in {"bool", "u8", "u16", "u64"} -> <<EncodeVLC(val, FALSE)>>
      [] val # NULL /\ kind \in {"i8", "i16", "i64"} -> <<EncodeVLC(AsWord(val), TRUE)>>
      [] val # NULL /\ kind = "decimal" ->
            <<EncodeVLC(AsWord(val[2]), TRUE), EncodeVLC(AsWord(val[1]), TRUE)>>
      [] val # NULL /\ kind = "f64" -> <<EncodeF64(val)>>

Decoding(kind, s) ==
    CASE kind = "present" -> DecodePresent(s)
      [] kind = "bool" -> DecodeBool(s)
      [] kind = "u8" -> DecodeUnsigned(s, 1)
      [] kind = "u16" -> DecodeUnsigned(s, 2)
      [] kind = "u64" -> DecodeU64(s)
      [] kind = "i8" -> DecodeSigned(s, 1)
      [] kind = "i16" -> DecodeSigned(s, 2)
      [] kind = "i64" -> DecodeI64(s)
      [] kind = "decimal" -> DecodeDecimal(s)
      [] kind = "f64" -> DecodeF64(s)

NoInput == NewBuffer(TRUE, FALSE, <<>>, 0)

Init ==
    /\ out = NewBuffer(TRUE, TRUE, [i \in 0 .. (Capacity - 1) |-> 0], Capacity)
    /\ sent = <<>>
    /\ marks = <<>>
    /\ partial = "none"
    /\ in = NoInput
    /\ got = <<>>
    /\ phase = "encode"

\* A value that does not fit ends the message. encodeDecimal may have written the
\* exponent of a decimal whose mantissa does not fit.
Encode(kind, val) ==
    LET r == WriteAll(out, Encoding(kind, val)) IN
    /\ phase = "encode"
    /\ partial = "none"
    /\ Len(sent) < MaxItems
    /\ out' = r.s
    /\ IF r.ok
       THEN /\ sent' = Append(sent, [kind |-> kind, val |-> val])
            /\ marks' = Append(marks, r.s.pos)
            /\ UNCHANGED partial
       ELSE /\ partial' = kind
            /\ UNCHANGED <<sent, marks>>
    /\ UNCHANGED <<in, got, phase>>

\* The first n of the bytes written arrive.
Transmit(n) ==
    /\ phase = "encode"
    /\ phase' = "decode"
    /\ in' = NewBuffer(TRUE, FALSE, out.mem, n)
    /\ UNCHANGED <<out, sent, marks, partial, got>>

\* The types the decoder expects: those of the items, and then the one that did
\* not fit.
Expected(i) == IF i <= Len(sent) THEN sent[i].kind ELSE partial

Decode ==
    LET kind == Expected(Len(got) + 1)
        r == Decoding(kind, in)
    IN  /\ phase = "decode"
        /\ kind # "none"
        /\ Len(got) <= Len(sent)
        /\ in' = r.s
        /\ IF r.ok
           THEN /\ got' = Append(got, [kind |-> kind, val |-> r.val])
                /\ UNCHANGED phase
           ELSE /\ phase' = "refused"
                /\ UNCHANGED got
        /\ UNCHANGED <<out, sent, marks, partial>>

Next ==
    \/ \E kind \in Kinds : \E val \in ValuesOf(kind) \union {NULL} : Encode(kind, val)
    \/ \E n \in 0 .. out.pos : Transmit(n)
    \/ Decode

Spec == Init /\ [][Next]_vars
-----------------------------------------------------------------------------
\* Where an item ends in the bytes written.
End(i) == IF i = 0 THEN 0 ELSE marks[i]

TypeOK ==
    /\ phase \in {"encode", "decode", "refused"}
    /\ partial \in Kinds \union {"none"}
    /\ Len(marks) = Len(sent)
    /\ out.pos \in 0 .. Capacity
    /\ in.pos \in 0 .. in.max

\* The encoder and the decoder stay in step: after any number of items the decoder
\* stands where the encoder stood, whatever their types and lengths.
InStep ==
    phase = "decode" => in.pos = End(Len(got))

\* An item is refused only when not all of its bytes arrived.
RefusedOnlyWhenCut ==
    phase = "refused" => \/ Len(got) = Len(sent)
                         \/ in.max < End(Len(got) + 1)

\* What arrives is a prefix of what was sent, even from a message cut short or
\* one whose last value did not fit.
IsItem(x) == x.kind \in Kinds /\ x.val \in ValuesOf(x.kind) \union {NULL}
ItemChannel == INSTANCE Channel WITH Item <- IsItem
IsChannel == ItemChannel!Spec
=============================================================================
