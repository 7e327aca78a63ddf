------------------------------- MODULE Stream -------------------------------
(***************************************************************************)
(* A buffer stream and a bounded stream over it, driven by every operation *)
(* of blink_stream.h in any order. This is the arrangement of the decoder, *)
(* which reads a message through a bounded stream and can still use the    *)
(* stream below it.                                                        *)
(***************************************************************************)
EXTENDS StreamOps

CONSTANTS
    Byte,           \* the bytes a buffer holds
    Capacities,     \* sizes of the buffers
    Payloads,       \* what is written, as sequences of bytes
    ReadSizes,      \* nbyte of a read
    SetOffsets,     \* offsets of seekSet
    CurOffsets,     \* offsets of seekCur
    Limits          \* max of a bounded stream, at initBounded and setMax

ASSUME StreamAssumption ==
    /\ Capacities \subseteq 0 .. INT_MAX
    /\ Payloads \subseteq Seq(Byte)
    /\ ReadSizes \subseteq Nat
    /\ SetOffsets \subseteq 0 .. UINT_MAX
    /\ CurOffsets \subseteq -INT_MAX .. INT_MAX
    /\ Limits \subseteq 0 .. UINT_MAX

VARIABLES
    s,          \* the buffer stream
    b,          \* the bounded stream
    bound,      \* the bounded stream has been initialised
    res,        \* the last call: [op, arg, ok]
    origin,     \* history: where s stood when b was initialised
    via,        \* history: how s was moved since: by b's "reads", also by b's
                \* "writes", or by "other" calls on s itself
    got         \* history: the bytes b has delivered (while via is "reads")

vars == <<s, b, bound, res, origin, via, got>>

Memory(n) == [0 .. (n - 1) -> Byte]

\* initBuffer (in and out), initBufferReadOnly (in only) or a NULL buffer.
Init ==
    /\ \E in, out \in BOOLEAN, n \in Capacities \union {0} : \E mem \in Memory(n) :
        /\ n > 0 => in
        /\ out => in
        /\ s = NewBuffer(in, out, mem, n)
    /\ b = NewBounded(0)
    /\ bound = FALSE
    /\ res = [op |-> "init", arg |-> 0, ok |-> TRUE]
    /\ origin = 0
    /\ via = "other"
    /\ got = <<>>

\* A call on the buffer stream itself, which the bounded stream does not see.
Direct(op, arg, r) ==
    /\ s' = r.s
    /\ res' = [op |-> op, arg |-> arg, ok |-> r.ok]
    /\ via' = IF r.s.pos = s.pos /\ r.s.mem = s.mem THEN via ELSE "other"
    /\ got' = IF via' = "other" THEN <<>> ELSE got
    /\ UNCHANGED <<b, bound, origin>>

Write(d) == Direct("write", Len(d), BufferWrite(s, d))

Read(n) == Direct("read", n, BufferRead(s, n))

Peek == Direct("peek", 1, [ok |-> CanPeek(s), s |-> s])

SeekSet(offset) == Direct("seekSet", offset, BufferSeekSet(s, offset))

SeekCur(offset) == \E r \in BufferSeekCur(s, offset) : Direct("seekCur", offset, r)

InitBounded(limit) ==
    /\ b' = NewBounded(limit)
    /\ bound' = TRUE
    /\ res' = [op |-> "initBounded", arg |-> limit, ok |-> TRUE]
    /\ origin' = s.pos
    /\ via' = "reads"
    /\ got' = <<>>
    /\ UNCHANGED s

ReadBounded(n) ==
    LET r == BoundedRead(b, s, n) IN
    /\ bound
    /\ b' = r.b
    /\ s' = r.s
    /\ res' = [op |-> "readBounded", arg |-> n, ok |-> r.ok]
    /\ got' = IF r.ok /\ via = "reads" THEN got \o BytesAt(s.mem, s.pos, n) ELSE got
    /\ UNCHANGED <<bound, origin, via>>

WriteBounded(d) ==
    LET r == BoundedWrite(b, s, d) IN
    /\ bound
    /\ s' = r.s
    /\ res' = [op |-> "writeBounded", arg |-> Len(d), ok |-> r.ok]
    /\ via' = IF via = "reads" /\ r.ok /\ Len(d) > 0 THEN "writes" ELSE via
    /\ got' = IF via' = "reads" THEN got ELSE <<>>
    /\ UNCHANGED <<b, bound, origin>>

SetMaxBounded(offset) ==
    LET r == SetMax(b, offset) IN
    /\ bound
    /\ b' = r.b
    /\ res' = [op |-> "setMax", arg |-> offset, ok |-> r.ok]
    /\ UNCHANGED <<s, bound, origin, via, got>>

Next ==
    \/ \E d \in Payloads : Write(d) \/ WriteBounded(d)
    \/ \E n \in ReadSizes : Read(n) \/ ReadBounded(n)
    \/ Peek
    \/ \E offset \in SetOffsets : SeekSet(offset)
    \/ \E offset \in CurOffsets : SeekCur(offset)
    \/ \E limit \in Limits : InitBounded(limit) \/ SetMaxBounded(limit)

Spec == Init /\ [][Next]_vars
-----------------------------------------------------------------------------
\* Every field is in its C type.
TypeOK ==
    /\ s \in [in : BOOLEAN, out : BOOLEAN, mem : Memory(s.max), max : 0 .. INT_MAX,
              pos : 0 .. UINT_MAX, eof : BOOLEAN]
    /\ b \in [max : 0 .. UINT_MAX, pos : 0 .. UINT_MAX, eof : BOOLEAN]
    /\ bound \in BOOLEAN
    /\ origin \in 0 .. UINT_MAX
    /\ via \in {"reads", "writes", "other"}
    /\ got \in Seq(Byte)

\* No sequence of calls moves a position past its maximum. The guards of read,
\* write and peek subtract the two unsigned numbers, so a position past the
\* maximum would let them touch memory outside the buffer.
InBounds ==
    /\ s.pos <= s.max
    /\ b.pos <= b.max

\* While only bounded reads move the stream, they deliver the bytes that follow
\* the place where it was bounded, each once and in order, never more than the
\* bound allows, whichever reads were refused in between.
BoundedReadsAreThePrefix ==
    (bound /\ via = "reads") =>
        /\ Len(got) <= b.pos
        /\ s.pos = origin + Len(got)
        /\ got = BytesAt(s.mem, origin, Len(got))

\* The bounded stream counts bytes it did not deliver only once the stream below
\* has reported eof, which is how the decoder tells the two errors apart. (A
\* stream over a NULL buffer refuses every read without reporting eof.)
LostBytesMeanEof ==
    (bound /\ s.in /\ via = "reads" /\ Len(got) # b.pos) => s.eof

\* A bounded read that its bound allows and the stream below refuses.
RefusedBelow(n) == n <= INT_MAX /\ n <= b.max - b.pos /\ ~ReadFits(s, n)

\* What a call leaves alone when it returns false: the bytes of the buffer, those
\* delivered so far, both maxima and the buffer stream's position; the bounded
\* position too, but for a read that is refused below.
RefusalKeepsPlace ==
    ~res'.ok =>
        /\ s'.mem = s.mem /\ got' \in {got, <<>>}
        /\ s'.max = s.max /\ b'.max = b.max
        /\ s'.pos = s.pos
        /\ b'.pos = IF res'.op = "readBounded" /\ RefusedBelow(res'.arg)
                    THEN b.pos + res'.arg ELSE b.pos

\* A call that returns false delivers, stores and skips nothing on either stream, with
\* one exception, which is the code's: a bounded read that fits its bound has moved the
\* bounded position before the stream below refuses it (blink_stream.c:121), so its
\* bytes are lost to the bound.
RefusedReadsOnlyLoseBound == [][RefusalKeepsPlace]_vars

\* Offsets whose sum with any position in the buffer is an int32_t. The only
\* offset the repository passes to seekCur is 1.
OffsetsDoNotOverflow ==
    \A m \in Capacities, offset \in CurOffsets : m + offset <= INT_MAX

\* "Add offset to current position ... @return true if position could be modified
\* by offset": when seekCur returns true the position has moved by the offset.
SeekCurMovesByOffset ==
    [][(res' # res /\ res'.op = "seekCur" /\ res'.ok) => s'.pos = s.pos + res'.arg]_vars

\* "stream is allowed to read/seek within range (cur .. cur + max) bytes": as long
\* as nothing but the bounded stream moves the stream below, a bounded read that
\* succeeds ends inside the range.
BoundedReadsStayInRange ==
    [][(res'.op = "readBounded" /\ res'.ok /\ s'.pos # s.pos /\ via # "other")
            => s'.pos <= origin + b.max]_vars
=============================================================================
