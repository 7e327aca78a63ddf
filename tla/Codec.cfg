\* Messages of up to two values, every pair of types, in five bytes: the longest
\* values do not fit twice, and a decimal can lose its mantissa.
SPECIFICATION Spec
CONSTANTS
    INT_MAX = 32767
    WORD_BYTES = 3
    NULL = NULL
    Kinds <- AllKinds
    ValuesOf <- Boundaries
    Capacity = 5
    MaxItems = 2
INVARIANTS
    InStep
    RefusedOnlyWhenCut
PROPERTIES
    IsChannel
\* The message ends.
CHECK_DEADLOCK FALSE
