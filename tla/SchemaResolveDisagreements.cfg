\* Checked with -continue: each of these is violated, by one of the schemas of its own.
SPECIFICATION Spec
CONSTANTS
    Schemas <- Disagreements
    Split <- SomeSplit
    NamePrefixes = {}
    NoName = NoName
INVARIANTS
    CyclesAreCycles
    DynamicTypesLeadAstray
    DynamicTypesAreGroups
    NoDoubleSequence
    DynamicFieldsAreDynamic
    PeekIsNext
    NeverStops
    AnswersAreRight
    AcceptedIsResolved
CHECK_DEADLOCK FALSE
