\* Scalars, strings, sequences, nested groups; every message of up to six bytes.
SPECIFICATION Spec
CONSTANTS
    INT_MAX = 255
    Groups = {0, 1, 2, 3, 4, 5, 6}
    OwnFields <- MixedFields
    Super <- MixedSuper
    NoGroup = 9
    Alphabet = {0, 1, 2, 3, 4, 5, 192}
    MaxInput = 6
    Frees = {TRUE, FALSE}
INVARIANTS
    TypeOK
    AcceptedIsConsumed
    OwnedBlocksAreLive
    StringsAndElementsFreed
    NoValueIsMissing
\* The call returns.
CHECK_DEADLOCK FALSE
