\* A heap whose size is not a multiple of the word.
SPECIFICATION Spec
CONSTANTS
    WORD = 4
    SIZE_MAX = 255
    Requests = {1, 3, 4, 5}
    HeapSizes = {7}
PROPERTIES
    FreeSpaceCanBeAllocated
CHECK_DEADLOCK FALSE
