\* Every text of a few characters: names, literals and comments, numbers, marks.
SPECIFICATION Spec
CONSTANTS
    Texts <- AllTexts
    Letters <- SomeLetters
    TokenTable <- SomeTokens
    NameMax = 3
    HexDigits = 1
INVARIANTS
    TokensAreLongest
    ValuesAreExact
    OnlySpaceIsSkipped
PROPERTIES
    Ends
\* The text ends.
CHECK_DEADLOCK FALSE
