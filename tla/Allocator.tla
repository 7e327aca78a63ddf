----------------------------- MODULE Allocator -----------------------------
(***************************************************************************)
(* What the users of a struct blink_alloc may rely on (blink_alloc.h): a   *)
(* block of zeroed memory that no other live block overlaps, or NULL.      *)
(* Blocks live until the whole heap is initialised again.                  *)
(***************************************************************************)
EXTENDS Integers

CONSTANTS
    Requests    \* the sizes a user asks for

VARIABLES
    heapSize,   \* bytes of the heap
    live,       \* the blocks handed out: [at |-> first byte, len |-> bytes]
    dirty       \* the bytes a user has written since the heap was zeroed

vars == <<heapSize, live, dirty>>

Bytes(b) == b.at .. (b.at + b.len - 1)

Init ==
    /\ heapSize \in Nat
    /\ live = {}
    /\ dirty = {}

\* The heap is zeroed: every block handed out before is gone.
Reset ==
    /\ heapSize' \in Nat
    /\ live' = {}
    /\ dirty' = {}

\* A block of n zero bytes that overlaps no live block.
Grant(n) ==
    \E at \in 0 .. (heapSize - n) :
        LET b == [at |-> at, len |-> n] IN
        /\ Bytes(b) \cap dirty = {}
        /\ \A c \in live : Bytes(b) \cap Bytes(c) = {}
        /\ live' = live \union {b}
        /\ UNCHANGED <<heapSize, dirty>>

\* A user writes any bytes of a block it was given.
Use(b) ==
    /\ \E written \in SUBSET Bytes(b) : dirty' = dirty \union written
    /\ UNCHANGED <<heapSize, live>>

Next ==
    \/ Reset
    \/ \E n \in Requests : Grant(n)
    \/ \E b \in live : Use(b)

Spec == Init /\ [][Next]_vars
=============================================================================
