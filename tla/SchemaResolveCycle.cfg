\* Supergroups that form a cycle.
SPECIFICATION Spec
CONSTANTS
    Schemas <- Cyclic
    Split <- SomeSplit
    NamePrefixes = {}
    NoName = NoName
PROPERTIES
    AlwaysEnds
CHECK_DEADLOCK FALSE
