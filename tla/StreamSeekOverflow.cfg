\* An offset whose sum with the position overflows int32_t.
SPECIFICATION Spec
CONSTANTS
    INT_MAX = 7
    Byte <- MCByte
    Capacities = {3}
    Payloads <- MCPayloads
    ReadSizes = {1, 2}
    SetOffsets = {0, 1}
    CurOffsets <- MCWideOffsets
    Limits = {2}
INVARIANTS
    InBounds
