\* A negative number in one counted byte, in words of three bytes.
SPECIFICATION EveryWord
CONSTANTS
    INT_MAX = 32767
    WORD_BYTES = 3
    NULL = NULL
INVARIANTS
    OneCountedByteIsSigned
\* The visit ends at the last word.
CHECK_DEADLOCK FALSE
