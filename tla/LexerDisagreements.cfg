\* Checked with -continue: each of these is violated.
SPECIFICATION Spec
CONSTANTS
    Texts <- AllTexts
    Letters <- SomeLetters
    TokenTable <- SomeTokens
    NameMax = 3
    HexDigits = 1
INVARIANTS
    HexTooBigIsUnknown
    NamesAreWhole
    NamesHaveTwoCharacters
    HexHasTwoDigits
    CNamesAreNames
    NamesHaveALength
    SpaceIsNoToken
    IntsAreNotZero
    ColumnIsColumn
CHECK_DEADLOCK FALSE
