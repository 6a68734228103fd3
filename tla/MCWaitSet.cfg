CONSTANTS
    Subscription = {s}
    Guard = {g1, g2}
    Service = {v}
    Event = {ev}

SPECIFICATION FairSpec

INVARIANTS
    TypeOK
    NoTriggerLost
    OkReportsReady

PROPERTIES
    ImplementsAtomicWait
    ReadyWakes
