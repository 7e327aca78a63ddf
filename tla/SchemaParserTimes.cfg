\* The two times.
SPECIFICATION Spec
CONSTANTS
    Alphabets <- Times
    MaxTokens = 4
    NamePrefixes <- SomePrefixes
    ENUM_MAX = 1
    NoName = NoName
INVARIANTS
    AcceptedIsWhatWasWritten
\* The parse ends.
CHECK_DEADLOCK FALSE
