CONSTANTS
    Subscription = {s}
    Guard = {g1}
    Service = {}
    Event = {ev}

SPECIFICATION FairSpec

PROPERTY
    EventWakes
