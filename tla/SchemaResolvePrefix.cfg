\* A reference that begins another name.
SPECIFICATION Spec
CONSTANTS
    Schemas <- Prefixed
    Split <- SomeSplit
    NamePrefixes <- SomePrefixes
    NoName = NoName
INVARIANTS
    AcceptedIsResolved
CHECK_DEADLOCK FALSE
