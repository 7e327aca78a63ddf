\* Every schema of three definitions, and schemas of two namespaces.
SPECIFICATION Spec
CONSTANTS
    Schemas <- AllSchemas
    Split <- SomeSplit
    NamePrefixes = {}
    NoName = NoName
INVARIANTS
    TypeOK
    AcceptedIsResolved
    AcceptedInherits
    ErrorsNameTheFault
    AnswersAreRight
PROPERTIES
    Ends
\* The schema is refused or the caller has what it wanted.
CHECK_DEADLOCK FALSE
