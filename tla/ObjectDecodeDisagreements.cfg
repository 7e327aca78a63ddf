\* Checked with -continue: each of these is violated, by groups of one field.
SPECIFICATION Spec
CONSTANTS
    INT_MAX = 255
    Groups = {1, 2, 3, 4}
    OwnFields <- FieldsThatDisagree
    Super <- NoSupers
    NoGroup = 9
    Alphabet = {0, 1, 2, 3, 4, 192}
    MaxInput = 3
    Frees = {TRUE}
INVARIANTS
    DecodedFieldIsNotNull
    DecodedGroupIsKept
    NeverAborts
    DestroyFreesAll
\* The call returns.
CHECK_DEADLOCK FALSE
