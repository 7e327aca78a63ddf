\* A group with a supergroup, each with a mandatory field.
SPECIFICATION Spec
CONSTANTS
    INT_MAX = 32767
    WORD_BYTES = 2
    NULL = NULL
    Groups = {1, 2}
    OwnFields <- InheritedFields
    Super <- InheritedSuper
    NoGroup = 9
    WithId = {1, 2}
    Words = {0}
    Texts <- SomeTexts
    Capacity = 9
    MaxBlocks = 2
    Frees = {TRUE}
INVARIANTS
    EncodesWhatIsSet
\* An object that is gone is not used again.
CHECK_DEADLOCK FALSE
