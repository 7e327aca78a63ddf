\* An annotation before the type of a field.
SPECIFICATION Spec
CONSTANTS
    Alphabets <- Notes
    MaxTokens = 8
    NamePrefixes <- SomePrefixes
    ENUM_MAX = 1
    NoName = NoName
INVARIANTS
    FieldTypeCanBeAnnotated
\* The parse ends.
CHECK_DEADLOCK FALSE
