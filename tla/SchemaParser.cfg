\* Every input of up to eight tokens of each alphabet.
SPECIFICATION Spec
CONSTANTS
    Alphabets <- AllTokens
    MaxTokens = 8
    NamePrefixes <- SomePrefixes
    ENUM_MAX = 1
    NoName = NoName
INVARIANTS
    TypeOK
    NamesUnique
    EnumValuesAscend
    AcceptedIsComplete
    AcceptedIsWhatWasWritten
PROPERTIES
    Ends
\* The parse ends.
CHECK_DEADLOCK FALSE
