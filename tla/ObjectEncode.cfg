\* Fields of every type, inherited fields, a group without an id; messages that fit
\* and messages that do not.
SPECIFICATION Spec
CONSTANTS
    INT_MAX = 32767
    WORD_BYTES = 2
    NULL = NULL
    Groups = {1, 2, 3, 4, 5, 6}
    OwnFields <- MixedFields
    Super <- MixedSuper
    NoGroup = 9
    WithId = {1, 2, 3, 4, 6}
    Words = {0, 200, 65535}
    Texts <- SomeTexts
    Capacity = 8
    MaxBlocks = 2
    Frees = {TRUE, FALSE}
INVARIANTS
    AnnouncedSizeIsWritten
    MessageDecodes
    OwnedStringsAreLive
\* An object that is gone is not used again.
CHECK_DEADLOCK FALSE
