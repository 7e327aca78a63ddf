\* Buffers of 0 and 3 bytes, bounds below, at and above the buffer's size.
SPECIFICATION Spec
CONSTANTS
    INT_MAX = 7
    Byte <- MCByte
    Capacities = {0, 3}
    Payloads <- MCPayloads
    ReadSizes = {0, 1, 2, 8}
    SetOffsets = {0, 1, 3, 4}
    CurOffsets <- MCCurOffsets
    Limits = {0, 2, 5}
INVARIANTS
    TypeOK
    InBounds
    BoundedReadsAreThePrefix
    LostBytesMeanEof
PROPERTIES
    RefusedReadsOnlyLoseBound
