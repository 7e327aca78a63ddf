\* A request so large that rounding it up to a word wraps around size_t.
SPECIFICATION Spec
CONSTANTS
    WORD = 4
    SIZE_MAX = 255
    Requests = {1, 4, 254}
    HeapSizes = {12}
PROPERTIES
    NullWhenInsufficient
CHECK_DEADLOCK FALSE
