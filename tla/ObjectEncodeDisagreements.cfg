\* A bool, a string that is set twice, an optional fixed, and a double.
SPECIFICATION Spec
CONSTANTS
    INT_MAX = 32767
    WORD_BYTES = 2
    NULL = NULL
    Groups = {1, 2, 3}
    OwnFields <- OddFields
    Super <- OddSuper
    NoGroup = 9
    WithId = {1, 2, 3}
    Words = {0, 200}
    Texts <- SomeTexts
    Capacity = 9
    MaxBlocks = 2
    Frees = {TRUE}
INVARIANTS
    SettersReturn
    DestroyFreesStrings
    AnnouncedSizeIsWritten
    DoublesDecode
\* An object that is gone is not used again.
CHECK_DEADLOCK FALSE
