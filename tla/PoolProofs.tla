----------------------------- MODULE PoolProofs -----------------------------
(***************************************************************************)
(* Proofs about the linear allocator, for every heap size, every size_t    *)
(* width and every set of requests that rounding up to a word does not     *)
(* wrap (RequestsRoundable).                                               *)
(***************************************************************************)
EXTENDS Pool, TLAPS

\* Rounding gives a whole number of words, no smaller than the request and
\* less than one word more than it: ActualSize of BLINK_Pool_calloc.
LEMMA Rounding ==
    ASSUME RequestsRoundable, NEW n \in Requests
    PROVE  /\ ActualSize(n) \in Nat
           /\ ActualSize(n) >= n
           /\ ActualSize(n) <= SIZE_MAX
           /\ ActualSize(n) % WORD = 0
<1>1. n \in Nat /\ n + WORD <= SIZE_MAX + 1 /\ SIZE_MAX \in Nat
  BY SizeAssumption DEF RequestsRoundable
<1>2. CASE WORD = 4
  BY <1>1, <1>2 DEF ActualSize, SizePlus
<1>3. CASE WORD = 8
  BY <1>1, <1>3 DEF ActualSize, SizePlus
<1> QED BY <1>2, <1>3, WordAssumption

\* The sum of two whole numbers of words is a whole number of words.
LEMMA WordSum ==
    ASSUME NEW a \in Nat, NEW b \in Nat, a % WORD = 0, b % WORD = 0
    PROVE  (a + b) % WORD = 0
<1>1. CASE WORD = 4 BY <1>1
<1>2. CASE WORD = 8 BY <1>2
<1> QED BY <1>1, <1>2, WordAssumption

\* The history holds blocks of at least one byte.
LEMMA BlockType ==
    ASSUME TypeOK, NEW b \in blocks
    PROVE  b.at \in Nat /\ b.len \in Nat
<1>1. b \in [at : Nat, len : Requests \ {0}]
  BY DEF TypeOK
<1>2. b.at \in Nat /\ b.len \in Requests
  BY <1>1
<1>3. \A n \in Requests : n \in Nat
  BY SizeAssumption
<1> QED BY <1>2, <1>3

\* Every state has the types of the C structure, whatever is asked for.
THEOREM TypeCorrect == RequestsRoundable => (Spec => []TypeOK)
<1> SUFFICES ASSUME RequestsRoundable PROVE Spec => []TypeOK
  OBVIOUS
<1> USE SizeAssumption, WordAssumption
<1>1. Init => TypeOK
  BY DEF Init, TypeOK, NULL
<1>2. TypeOK /\ [Next]_vars => TypeOK'
  <2> SUFFICES ASSUME TypeOK, [Next]_vars PROVE TypeOK'
    OBVIOUS
  <2> USE DEF TypeOK
  <2>1. ASSUME NEW s \in HeapSizes, PoolInit(s) PROVE TypeOK'
    BY <2>1 DEF PoolInit, NULL
  <2>2. ASSUME NEW n \in Requests, CallocOk(n) PROVE TypeOK'
    <3>1. ActualSize(n) \in 0 .. SIZE_MAX
      BY Rounding
    <3>2. pos' \in 0 .. SIZE_MAX
      BY <2>2, <3>1 DEF CallocOk, SizePlus
    <3>3. blocks' \subseteq [at : Nat, len : Requests \ {0}]
      <4>1. n # 0
        BY <2>2 DEF CallocOk
      <4> QED BY <2>2, <4>1 DEF CallocOk
    <3>4. ret' \in [n : 0 .. SIZE_MAX, at : Nat \union {NULL}]
      BY <2>2 DEF CallocOk
    <3> QED BY <2>2, <3>2, <3>3, <3>4 DEF CallocOk
  <2>3. ASSUME NEW n \in Requests, CallocNull(n) PROVE TypeOK'
    BY <2>3 DEF CallocNull, NULL
  <2>4. ASSUME NEW b \in blocks, UseBlock(b) PROVE TypeOK'
    BY <2>4 DEF UseBlock, Bytes
  <2>5. CASE UNCHANGED vars
    BY <2>5 DEF vars
  <2> QED BY <2>1, <2>2, <2>3, <2>4, <2>5 DEF Next
<1> QED BY <1>1, <1>2, PTL DEF Spec

-----------------------------------------------------------------------------
\* The inductive invariant. Blocks lie below pos, which lies inside the heap, so
\* a block cut off at pos is disjoint from all of them; pos is a whole number of
\* words, so it is aligned; and nobody has written at or above pos.
Inv ==
    /\ TypeOK
    /\ InsideHeap
    /\ BlocksDisjoint
    /\ BlocksAligned
    /\ FreeIsZero
    /\ pos % WORD = 0

\* The invariant holds of the empty pool that every state begins with.
LEMMA InitInv == ASSUME Init PROVE Inv
  BY SizeAssumption, WordAssumption
  DEF Init, Inv, TypeOK, InsideHeap, BlocksDisjoint, BlocksAligned, FreeIsZero, NULL

\* One successful BLINK_Pool_calloc keeps the invariant.
LEMMA CallocInv ==
    ASSUME RequestsRoundable, Inv, TypeOK', NEW n \in Requests, CallocOk(n)
    PROVE  Inv'
<1> DEFINE new == [at |-> pos, len |-> n]
<1> USE SizeAssumption
<1>1. /\ size \in Nat /\ pos \in Nat /\ SIZE_MAX \in Nat /\ n \in Nat /\ n > 0
      /\ pos <= size /\ size <= SIZE_MAX
  BY DEF Inv, TypeOK, InsideHeap, CallocOk
<1>2. ActualSize(n) \in Nat /\ ActualSize(n) >= n /\ ActualSize(n) % WORD = 0
  BY Rounding
<1>3. ActualSize(n) <= size - pos
  BY <1>1 DEF CallocOk, FreeSpace, SizeMinus
<1>4. pos' = pos + ActualSize(n) /\ size' = size /\ blocks' = blocks \union {new}
      /\ dirty' = dirty
  BY <1>1, <1>2, <1>3 DEF CallocOk, SizePlus
<1>5. InsideHeap'
  <2>1. pos' <= size'
    BY <1>1, <1>2, <1>3, <1>4
  <2>2. ASSUME NEW b \in blocks' PROVE b.at + b.len <= pos'
    <3>1. CASE b \in blocks
      <4>1. b.at + b.len <= pos /\ b.at \in Nat /\ b.len \in Nat
        BY <3>1, BlockType DEF Inv, InsideHeap
      <4> QED BY <4>1, <1>1, <1>2, <1>4
    <3>2. CASE b = new
      BY <3>2, <1>1, <1>2, <1>4
    <3> QED BY <3>1, <3>2, <1>4
  <2> QED BY <2>1, <2>2 DEF InsideHeap
<1>6. BlocksDisjoint'
  <2>1. ASSUME NEW b \in blocks PROVE Bytes(b) \cap Bytes(new) = {}
    <3>1. b.at + b.len <= pos /\ b.at \in Nat /\ b.len \in Nat
      BY BlockType DEF Inv, InsideHeap
    <3> QED BY <3>1, <1>1 DEF Bytes
  <2>2. \A b, c \in blocks : b # c => Bytes(b) \cap Bytes(c) = {}
    BY DEF Inv, BlocksDisjoint
  <2> QED BY <2>1, <2>2, <1>4 DEF BlocksDisjoint, Bytes
<1>7. BlocksAligned'
  BY <1>4 DEF Inv, BlocksAligned
<1>8. FreeIsZero'
  <2>1. ASSUME NEW i \in dirty PROVE i < pos + ActualSize(n)
    <3>1. i \in Nat /\ i < pos
      BY DEF Inv, TypeOK, FreeIsZero
    <3> QED BY <3>1, <1>1, <1>2
  <2> QED BY <2>1, <1>4 DEF FreeIsZero
<1>9. pos' % WORD = 0
  BY <1>1, <1>2, <1>4, WordSum DEF Inv
<1> QED BY <1>5, <1>6, <1>7, <1>8, <1>9 DEF Inv

\* A write inside a block stays below pos.
LEMMA UseInv ==
    ASSUME Inv, TypeOK', NEW b \in blocks, UseBlock(b)
    PROVE  Inv'
<1>1. b.at \in Nat /\ b.len \in Nat /\ b.at + b.len <= pos /\ pos \in Nat
  BY BlockType, SizeAssumption DEF Inv, TypeOK, InsideHeap
<1>2. \A i \in Bytes(b) : i < pos
  BY <1>1 DEF Bytes
<1>3. FreeIsZero'
  BY <1>2 DEF UseBlock, Inv, FreeIsZero
<1> QED
  BY <1>3 DEF UseBlock, Inv, InsideHeap, BlocksDisjoint, BlocksAligned, Bytes

\* Every step keeps it: a pool that is initialised, a request that is granted or
\* refused, a memory that is used.
LEMMA StepInv ==
    ASSUME RequestsRoundable, Inv, TypeOK', [Next]_vars
    PROVE  Inv'
<1>1. ASSUME NEW s \in HeapSizes, PoolInit(s) PROVE Inv'
  BY <1>1, SizeAssumption, WordAssumption
  DEF PoolInit, Inv, InsideHeap, BlocksDisjoint, BlocksAligned, FreeIsZero
<1>2. ASSUME NEW n \in Requests, CallocNull(n) PROVE Inv'
  BY <1>2 DEF CallocNull, Inv, InsideHeap, BlocksDisjoint, BlocksAligned, FreeIsZero, Bytes
<1>3. CASE UNCHANGED vars
  BY <1>3 DEF vars, Inv, InsideHeap, BlocksDisjoint, BlocksAligned, FreeIsZero, Bytes
<1> QED BY <1>1, <1>2, <1>3, CallocInv, UseInv DEF Next

\* The pool keeps the inductive invariant.
THEOREM PoolInvariant == RequestsRoundable => (Spec => []Inv)
<1> SUFFICES ASSUME RequestsRoundable PROVE Spec => []Inv
  OBVIOUS
<1>1. Spec => []TypeOK
  BY TypeCorrect
<1>2. Init => Inv
  BY InitInv
<1>3. Inv /\ TypeOK' /\ [Next]_vars => Inv'
  BY StepInv
<1> QED BY <1>1, <1>2, <1>3, PTL DEF Spec

\* Blocks never overlap, never leave the heap and are always word aligned:
\* BLINK_Pool_calloc is safe for every user of the heap.
THEOREM PoolSafe ==
    RequestsRoundable => (Spec => []BlocksAreSafe)
<1>1. Inv => BlocksAreSafe
  BY DEF Inv, BlocksAreSafe
<1> QED BY <1>1, PoolInvariant, PTL

\* "BLINK_Pool_calloc interface will return zeroed memory".
THEOREM PoolZeroed == RequestsRoundable => (Spec => []FreeIsZero)
<1>1. Inv => FreeIsZero
  BY DEF Inv
<1> QED BY <1>1, PoolInvariant, PTL
-----------------------------------------------------------------------------
\* A successful BLINK_Pool_calloc is a grant of the abstract allocator: the
\* block at pos is inside the heap, free of live blocks and still zero.
LEMMA CallocGrants ==
    ASSUME RequestsRoundable, Inv, NEW n \in Requests, CallocOk(n)
    PROVE  Abstract!Grant(n)
<1> DEFINE new == [at |-> pos, len |-> n]
<1>1. /\ size \in Nat /\ pos \in Nat /\ n \in Nat /\ pos <= size
      /\ size <= SIZE_MAX /\ SIZE_MAX \in Nat
  BY SizeAssumption DEF Inv, TypeOK, InsideHeap
<1>2. ActualSize(n) \in Nat /\ ActualSize(n) >= n
  BY Rounding
<1>3. ActualSize(n) <= size - pos
  BY <1>1 DEF CallocOk, FreeSpace, SizeMinus
<1>4. pos \in 0 .. (size - n)
  BY <1>1, <1>2, <1>3
<1>5. Abstract!Bytes(new) \cap dirty = {}
  BY <1>1 DEF Abstract!Bytes, Inv, FreeIsZero
<1>6. ASSUME NEW b \in blocks PROVE Abstract!Bytes(new) \cap Abstract!Bytes(b) = {}
  <2>1. b.at + b.len <= pos /\ b.at \in Nat /\ b.len \in Nat
    BY BlockType DEF Inv, InsideHeap
  <2> QED BY <2>1, <1>1 DEF Abstract!Bytes
<1>7. blocks' = blocks \union {new} /\ size' = size /\ dirty' = dirty
  BY DEF CallocOk
<1> QED BY <1>4, <1>5, <1>6, <1>7 DEF Abstract!Grant

\* Every step of the pool is one of the abstract allocator, or changes nothing it
\* shows.
LEMMA StepRefines ==
    ASSUME RequestsRoundable, Inv, [Next]_vars
    PROVE  [Abstract!Next]_(Abstract!vars)
<1>1. ASSUME NEW s \in HeapSizes, PoolInit(s) PROVE Abstract!Reset
  BY <1>1, SizeAssumption DEF PoolInit, Abstract!Reset
<1>2. ASSUME NEW n \in Requests, CallocNull(n) PROVE UNCHANGED Abstract!vars
  BY <1>2 DEF CallocNull, Abstract!vars
<1>3. ASSUME NEW b \in blocks, UseBlock(b) PROVE Abstract!Use(b)
  <2>1. PICK i \in Bytes(b) : dirty' = dirty \union {i}
    BY <1>3 DEF UseBlock
  <2>2. {i} \in SUBSET Abstract!Bytes(b)
    BY <2>1 DEF Bytes, Abstract!Bytes
  <2> QED BY <2>1, <2>2, <1>3 DEF UseBlock, Abstract!Use
<1>4. CASE UNCHANGED vars
  BY <1>4 DEF vars, Abstract!vars
<1> QED BY <1>1, <1>2, <1>3, <1>4, CallocGrants DEF Next, Abstract!Next

\* The pool implements the allocator its users are written against: each of its
\* steps is a grant, a use, a reset or changes nothing they can see.
THEOREM PoolRefinesAllocator == RequestsRoundable => (Spec => IsAllocator)
<1> SUFFICES ASSUME RequestsRoundable PROVE Spec => Abstract!Spec
  BY DEF IsAllocator
<1>1. Init => Abstract!Init
  BY SizeAssumption DEF Init, Abstract!Init
<1>2. Inv /\ [Next]_vars => [Abstract!Next]_(Abstract!vars)
  BY StepRefines
<1>3. Spec => []Inv
  BY PoolInvariant
<1> QED BY <1>1, <1>2, <1>3, PTL DEF Spec, Abstract!Spec
=============================================================================
