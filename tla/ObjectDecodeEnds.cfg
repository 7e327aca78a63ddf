\* Every message of up to four bytes, sequences of values and of groups.
SPECIFICATION Spec
CONSTANTS
    INT_MAX = 255
    Groups = {1, 2}
    OwnFields <- LoopFields
    Super <- LoopSuper
    NoGroup = 9
    Alphabet = {0, 1, 2, 3, 192}
    MaxInput = 4
    Frees = {TRUE}
PROPERTIES
    Terminates
\* The call returns.
CHECK_DEADLOCK FALSE
