\* A definition whose name begins the name of an earlier one, and a size
\* between parentheses.
SPECIFICATION Spec
CONSTANTS
    Alphabets <- Types
    MaxTokens = 8
    NamePrefixes <- SomePrefixes
    ENUM_MAX = 1
    NoName = NoName
INVARIANTS
    RefusesOnlyDuplicates
    SizeCanBeClosed
\* The parse ends.
CHECK_DEADLOCK FALSE
