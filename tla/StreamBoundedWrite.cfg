\* Reads and writes through a bounded stream.
SPECIFICATION Spec
CONSTANTS
    INT_MAX = 7
    Byte <- MCByte
    Capacities = {3}
    Payloads <- MCPayloads
    ReadSizes = {1, 2}
    SetOffsets = {0, 1}
    CurOffsets <- MCCurOffsets
    Limits = {2}
PROPERTIES
    BoundedReadsStayInRange
