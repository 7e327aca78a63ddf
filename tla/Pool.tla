-------------------------------- MODULE Pool --------------------------------
(***************************************************************************)
(* The linear allocator of blink_pool.c: a heap, its size and the offset   *)
(* of the first free byte. Blocks are cut off the front and never          *)
(* returned; initialising the pool again gives the whole heap back.        *)
(*                                                                         *)
(* size_t arithmetic is unsigned and wraps, so the model computes it       *)
(* modulo SIZE_MAX + 1.                                                    *)
(***************************************************************************)
EXTENDS Integers

CONSTANTS
    WORD,       \* sizeof(long)
    SIZE_MAX,   \* the largest size_t
    Requests,   \* sizes passed to BLINK_Pool_calloc
    HeapSizes   \* sizes passed to BLINK_Pool_init

ASSUME WordAssumption == WORD \in {4, 8}
ASSUME SizeAssumption ==
    /\ SIZE_MAX \in Nat
    /\ Requests \subseteq 0 .. SIZE_MAX
    /\ HeapSizes \subseteq 0 .. SIZE_MAX

NULL == -1      \* no block: heap offsets are never negative

VARIABLES
    size,       \* self->size
    pos,        \* self->pos
    dirty,      \* offsets of the heap bytes that may be other than zero
    blocks,     \* history: the blocks handed out since the pool was initialised
    ret         \* the last result: [n |-> bytes asked for, at |-> offset or NULL]

vars == <<size, pos, dirty, blocks, ret>>

Bytes(b) == b.at .. (b.at + b.len - 1)

\* Unsigned subtraction and addition on size_t.
SizeMinus(a, b) == IF a >= b THEN a - b ELSE a - b + SIZE_MAX + 1
SizePlus(a, b) == IF a + b <= SIZE_MAX THEN a + b ELSE a + b - SIZE_MAX - 1

\* Mutant of ActualSize: the size is rounded the wrong way.
RoundedDownSize(n) == n - (n % WORD)

\* The size rounded up to whole words.
ActualSize(n) == SizePlus(n, IF n % WORD = 0 THEN 0 ELSE WORD - (n % WORD))

\* BLINK_Pool_getFreeSpace.
FreeSpace == SizeMinus(size, pos)

Init ==
    /\ size \in HeapSizes
    /\ pos = 0
    /\ dirty = {}
    /\ blocks = {}
    /\ ret = [n |-> 0, at |-> NULL]

\* Mutant of PoolInit: the memory is not cleared.
PoolInitUncleared(s) ==
    /\ size' = s
    /\ pos' = 0
    /\ dirty' = dirty
    /\ blocks' = {}
    /\ ret' = [n |-> 0, at |-> NULL]

\* BLINK_Pool_init, the first time or again over the same memory.
PoolInit(s) ==
    /\ size' = s
    /\ pos' = 0
    /\ dirty' = {}
    /\ blocks' = {}
    /\ ret' = [n |-> 0, at |-> NULL]

\* Mutants of CallocOk: a request for nothing is granted; the free space is compared
\* with the size before rounding.
CallocOkOfNothing(n) ==
    /\ FreeSpace >= ActualSize(n)
    /\ ret' = [n |-> n, at |-> pos]
    /\ blocks' = blocks \union {[at |-> pos, len |-> n]}
    /\ pos' = SizePlus(pos, ActualSize(n))
    /\ UNCHANGED <<size, dirty>>

CallocOkUnrounded(n) ==
    /\ n > 0
    /\ FreeSpace >= n
    /\ ret' = [n |-> n, at |-> pos]
    /\ blocks' = blocks \union {[at |-> pos, len |-> n]}
    /\ pos' = SizePlus(pos, ActualSize(n))
    /\ UNCHANGED <<size, dirty>>

CallocOk(n) ==
    /\ n > 0
    /\ FreeSpace >= ActualSize(n)
    /\ ret' = [n |-> n, at |-> pos]
    /\ blocks' = blocks \union {[at |-> pos, len |-> n]}
    /\ pos' = SizePlus(pos, ActualSize(n))
    /\ UNCHANGED <<size, dirty>>

CallocNull(n) ==
    /\ \/ n = 0
       \/ FreeSpace < ActualSize(n)
    /\ ret' = [n |-> n, at |-> NULL]
    /\ UNCHANGED <<size, pos, dirty, blocks>>

\* The owner of a block writes one of its bytes.
UseBlock(b) ==
    /\ \E i \in Bytes(b) : dirty' = dirty \union {i}
    /\ UNCHANGED <<size, pos, blocks, ret>>

Next ==
    \/ \E s \in HeapSizes : PoolInit(s)
    \/ \E n \in Requests : CallocOk(n) \/ CallocNull(n)
    \/ \E b \in blocks : UseBlock(b)

Spec == Init /\ [][Next]_vars
-----------------------------------------------------------------------------
\* Every variable is in its C type; the history holds nonempty blocks.
TypeOK ==
    /\ size \in HeapSizes
    /\ pos \in 0 .. SIZE_MAX
    /\ dirty \subseteq Nat
    /\ blocks \subseteq [at : Nat, len : Requests \ {0}]
    /\ ret \in [n : 0 .. SIZE_MAX, at : Nat \union {NULL}]

\* Blocks handed out by BLINK_Pool_calloc lie inside the heap passed to
\* BLINK_Pool_init: size - pos, the unsigned free space, never wraps.
InsideHeap ==
    /\ pos <= size
    /\ \A b \in blocks : b.at + b.len <= pos

\* No two blocks share a byte: what one user of the pool stores another never
\* overwrites.
BlocksDisjoint ==
    \A b, c \in blocks : b # c => Bytes(b) \cap Bytes(c) = {}

\* "Allocate a word aligned block": every block starts at a multiple of
\* sizeof(long) from the (aligned) heap, whatever sizes were asked for before.
BlocksAligned ==
    \A b \in blocks : b.at % WORD = 0

\* What a user of the pool relies on: blocks inside the heap, word aligned, shared with
\* no other user, after any sequence of requests.
BlocksAreSafe == InsideHeap /\ BlocksDisjoint /\ BlocksAligned

\* "BLINK_Pool_calloc interface will return zeroed memory": no byte of the free
\* part has ever been written since the last BLINK_Pool_init.
FreeIsZero ==
    \A i \in dirty : i < pos

\* Sizes whose rounding up to a word does not pass SIZE_MAX; InsideHeap holds
\* for these only.
RequestsRoundable ==
    \A n \in Requests : n + WORD <= SIZE_MAX + 1

\* "@retval NULL insufficient free memory": a block is only ever returned when
\* the free space covers the bytes asked for.
NullWhenInsufficient ==
    [][\A n \in Requests : CallocOk(n) => n <= FreeSpace]_vars

\* "Find out how much memory can still be allocated": BLINK_Pool_calloc of no
\* more than BLINK_Pool_getFreeSpace bytes succeeds.
FreeSpaceCanBeAllocated ==
    [][\A n \in Requests : CallocNull(n) /\ n > 0 => n > FreeSpace]_vars

\* The pool is an allocator: zeroed, disjoint blocks or NULL.
Abstract == INSTANCE Allocator WITH heapSize <- size, live <- blocks
IsAllocator == Abstract!Spec
=============================================================================
