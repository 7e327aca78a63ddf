---------------------------- MODULE CompactWords ----------------------------
(***************************************************************************)
(* Visits every word in turn, as a value to encode and as two bytes of     *)
(* input to decode, and compares the encoder with the decoder.             *)
(***************************************************************************)
EXTENDS Compact

VARIABLE word

FirstWord == word = 0

Visit ==
    /\ word < Modulus - 1
    /\ word' = word + 1

EveryWord == FirstWord /\ [][Visit]_word
-----------------------------------------------------------------------------
Input(bytes) ==
    NewBuffer(TRUE, FALSE, [i \in 0 .. (Len(bytes) - 1) |-> bytes[i + 1]], Len(bytes))

\* The word read as a message of two bytes, and of its first byte alone.
TwoByteInput == <<word % 256, (word \div 256) % 256>>
Inputs == {TwoByteInput, <<word % 256>>}

\* Decoding what was encoded gives the value back and uses every byte, for every
\* value of the word, signed or not: no value falls between two length classes.
RoundTrip ==
    \A isSigned \in BOOLEAN :
        LET bytes == EncodeVLC(word, isSigned)
            r == DecodeVLC(Input(bytes), isSigned)
        IN  r.ok /\ ~r.null /\ r.val = word /\ r.s.pos = Len(bytes)

\* BLINK_Compact_sizeofUnsigned and sizeofSigned give the shortest length: laid out
\* in fewer bytes the value would be decoded as another one.
Shortest ==
    \A isSigned \in BOOLEAN :
        \A bytes \in 1 .. (Sizeof(word, isSigned) - 1) :
            DecodeVLC(Input(VLCBytes(word, bytes)), isSigned).val # word

\* Whatever bytes arrive, decoding stays inside the input; it fails only at the
\* end of the input or on a length no word has; and the value it finds has an
\* encoding no longer than the one it came in, but for a negative number in one
\* counted byte, which is taken for a positive one (OneCountedByteIsSigned).
DecodesWithinInput ==
    \A isSigned \in BOOLEAN, bytes \in Inputs :
        LET r == DecodeVLC(Input(bytes), isSigned) IN
        /\ r.s.pos <= Len(bytes)
        /\ ~r.ok => r.s.eof \/ bytes[1] > 192 + WORD_BYTES
        /\ r.ok /\ ~r.null /\ ~(isSigned /\ bytes[1] = 193 /\ bytes[2] >= 128)
            => Len(EncodeVLC(r.val, isSigned)) <= r.s.pos

\* "Decode i64 ... decoded value": one counted byte carries the signed value of
\* that byte.
OneCountedByteIsSigned ==
    \A byte \in {word % 256} :
        DecodeI64(Input(<<193, byte>>)).val = IF byte >= 128 THEN byte - 256 ELSE byte
=============================================================================
