\* Word-sized, unaligned, empty and oversized requests against a heap
\* with a tail too short for a word, and an empty heap.
SPECIFICATION Spec
CONSTANTS
    WORD = 4
    SIZE_MAX = 255
    Requests = {0, 1, 3, 4, 5, 251}
    HeapSizes = {0, 11}
INVARIANTS
    TypeOK
    BlocksAreSafe
    FreeIsZero
PROPERTIES
    IsAllocator
