----------------------------- MODULE StreamOps -----------------------------
(***************************************************************************)
(* The stream operations of blink_stream.c as functions of the stream's    *)
(* state, for the modules that read and write through streams.             *)
(*                                                                         *)
(* A buffer stream is a record [in, out, mem, max, pos, eof]: in and out   *)
(* say whether the buffer may be read and written (the pointers are not    *)
(* NULL), mem holds the bytes. A bounded stream is a record [max, pos,     *)
(* eof]; the stream it bounds is passed along with it.                     *)
(*                                                                         *)
(* max, pos and nbyte are unsigned and wrap modulo UINT_MAX + 1.           *)
(***************************************************************************)
EXTENDS Integers, Sequences

CONSTANT INT_MAX        \* INT32_MAX

ASSUME IntMaxAssumption == INT_MAX \in Nat \ {0}

UINT_MAX == 2 * INT_MAX + 1

\* Unsigned subtraction.
UintMinus(a, b) == IF a >= b THEN a - b ELSE a - b + UINT_MAX + 1

\* The bits of an unsigned integer read as a signed one, and back.
AsInt(u) == IF u > INT_MAX THEN u - UINT_MAX - 1 ELSE u
AsUint(i) == IF i > INT_MAX THEN i ELSE IF i < 0 THEN i + UINT_MAX + 1 ELSE i

Room(s) == UintMinus(s.max, s.pos)

\* The n bytes of a buffer from offset at on.
BytesAt(mem, at, n) == [i \in 1 .. n |-> mem[at + i - 1]]

-----------------------------------------------------------------------------
\* Buffer streams.

NewBuffer(in, out, mem, max) ==
    [in |-> in, out |-> out, mem |-> mem, max |-> max, pos |-> 0, eof |-> FALSE]

WriteFits(s, d) == Len(d) <= INT_MAX /\ s.out /\ Room(s) >= Len(d)

Written(s, d) ==
    [s EXCEPT
        !.mem = [i \in DOMAIN s.mem |->
                    IF i \in s.pos .. (s.pos + Len(d) - 1) THEN d[i - s.pos + 1] ELSE s.mem[i]],
        !.pos = s.pos + Len(d)]

BufferWrite(s, d) ==
    IF WriteFits(s, d) THEN [ok |-> TRUE, s |-> Written(s, d)] ELSE [ok |-> FALSE, s |-> s]

\* Several writes, up to the first that does not fit.
WriteAll(s, chunks) ==
    LET after[i \in 0 .. Len(chunks)] ==
            IF i = 0 THEN [ok |-> TRUE, s |-> s]
            ELSE IF after[i - 1].ok THEN BufferWrite(after[i - 1].s, chunks[i])
            ELSE after[i - 1]
    IN  after[Len(chunks)]

ReadFits(s, n) == n <= INT_MAX /\ s.in /\ Room(s) >= n

\* Mutant of BufferRead: a refused read is not remembered.
BufferReadForgetful(s, n) ==
    IF ReadFits(s, n)
    THEN [ok |-> TRUE, s |-> [s EXCEPT !.pos = s.pos + n]]
    ELSE [ok |-> FALSE, s |-> s]

\* A refused read is remembered in eof, which nothing ever resets.
BufferRead(s, n) ==
    IF ReadFits(s, n)
    THEN [ok |-> TRUE, s |-> [s EXCEPT !.pos = s.pos + n]]
    ELSE [ok |-> FALSE, s |-> [s EXCEPT !.eof = s.eof \/ (n <= INT_MAX /\ s.in)]]

CanPeek(s) == s.in /\ Room(s) >= 1

BufferSeekSet(s, offset) ==
    IF offset < INT_MAX /\ s.max >= offset
    THEN [ok |-> TRUE, s |-> [s EXCEPT !.pos = offset]]
    ELSE [ok |-> FALSE, s |-> s]

\* adjustOffset: the set of outcomes. The second branch of the code tests
\* offset > 0 again, so a negative offset is accepted and moves nothing. A sum
\* that overflows is undefined: the comparison with pos is folded to TRUE and
\* the wrapped sum is below max (what gcc builds), or the sum is too large.
BufferSeekCur(s, offset) ==
    LET sum == AsInt(s.pos) + offset
        moved == [ok |-> TRUE, s |-> [s EXCEPT !.pos = AsUint(sum)]]
        refused == [ok |-> FALSE, s |-> s]
    IN  CASE offset <= 0    -> {[ok |-> TRUE, s |-> s]}
          [] offset > 0 /\ sum > INT_MAX -> {moved, refused}
          [] offset > 0 /\ sum <= INT_MAX -> {IF sum <= AsInt(s.max) THEN moved ELSE refused}

-----------------------------------------------------------------------------
\* Bounded streams.

NewBounded(max) == [max |-> max, pos |-> 0, eof |-> FALSE]

\* Mutants of BoundedRead: the bound is not asked for; the position is not advanced;
\* the position is advanced before the bound is asked.
BoundedReadUnbounded(b, s, n) ==
    IF n > INT_MAX
    THEN [ok |-> FALSE, b |-> b, s |-> s]
    ELSE LET r == BufferRead(s, n) IN [ok |-> r.ok, b |-> [b EXCEPT !.pos = b.pos + n], s |-> r.s]

BoundedReadUncounted(b, s, n) ==
    IF n > INT_MAX
    THEN [ok |-> FALSE, b |-> b, s |-> s]
    ELSE IF Room(b) >= n
    THEN LET r == BufferRead(s, n) IN [ok |-> r.ok, b |-> b, s |-> r.s]
    ELSE [ok |-> FALSE, b |-> [b EXCEPT !.eof = TRUE], s |-> s]

BoundedReadCounted(b, s, n) ==
    LET counted == [b EXCEPT !.pos = b.pos + n] IN
    IF n > INT_MAX
    THEN [ok |-> FALSE, b |-> b, s |-> s]
    ELSE IF Room(b) >= n
    THEN LET r == BufferRead(s, n) IN [ok |-> r.ok, b |-> counted, s |-> r.s]
    ELSE [ok |-> FALSE, b |-> [counted EXCEPT !.eof = TRUE], s |-> s]

\* The bounded position moves before the bounded stream knows whether the
\* stream below delivers.
BoundedRead(b, s, n) ==
    IF n > INT_MAX
    THEN [ok |-> FALSE, b |-> b, s |-> s]
    ELSE IF Room(b) >= n
    THEN LET r == BufferRead(s, n) IN [ok |-> r.ok, b |-> [b EXCEPT !.pos = b.pos + n], s |-> r.s]
    ELSE [ok |-> FALSE, b |-> [b EXCEPT !.eof = TRUE], s |-> s]

\* A write checks the bounded position and leaves it where it is.
BoundedWrite(b, s, d) ==
    IF Len(d) <= INT_MAX /\ Room(b) >= Len(d)
    THEN BufferWrite(s, d)
    ELSE [ok |-> FALSE, s |-> s]

\* Mutant of SetMax: the maximum may fall below the position.
SetMaxAnywhere(b, offset) == [ok |-> TRUE, b |-> [b EXCEPT !.max = offset]]

SetMax(b, offset) ==
    IF offset >= b.pos
    THEN [ok |-> TRUE, b |-> [b EXCEPT !.max = offset]]
    ELSE [ok |-> FALSE, b |-> b]
=============================================================================
