CONSTANTS
    Publisher = {p}
    Subscription = {}
    Client = {c}
    Server = {v}
    WaitSet = {ws}
    Alike = {p, v}
    unknown = unknown
    Guid <- MCGuid
    GuidOf <- MCGuidOf

SPECIFICATION Spec

INVARIANTS
    TypeOK
    GraphTruthful
    FreedInsideOut

PROPERTY
    ImplementsRegistry

\* Every entity is created and destroyed once.
CHECK_DEADLOCK FALSE
