\* A double other than zero.
SPECIFICATION Spec
CONSTANTS
    INT_MAX = 32767
    WORD_BYTES = 3
    NULL = NULL
    Kinds <- F64Only
    ValuesOf <- WithBits
    Capacity = 5
    MaxItems = 2
PROPERTIES
    IsChannel
CHECK_DEADLOCK FALSE
