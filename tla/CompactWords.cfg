\* Every word of two bytes.
SPECIFICATION EveryWord
CONSTANTS
    INT_MAX = 32767
    WORD_BYTES = 2
    NULL = NULL
INVARIANTS
    RoundTrip
    Shortest
    DecodesWithinInput
\* The visit ends at the last word.
CHECK_DEADLOCK FALSE
