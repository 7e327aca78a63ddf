\* A definition and its type that have annotations of the same name.
SPECIFICATION Spec
CONSTANTS
    Alphabets <- TypedefNotes
    MaxTokens = 9
    NamePrefixes <- SomePrefixes
    ENUM_MAX = 1
    NoName = NoName
INVARIANTS
    AnnotesStayWithTheirDefinition
\* The parse ends.
CHECK_DEADLOCK FALSE
