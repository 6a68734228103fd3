CONSTANTS
    Publisher = {}
    Subscription = {}
    Client = {}
    Server = {}
    WaitSet = {ws}
    Alike = {}
    unknown = unknown
    Guid <- MCGuid
    GuidOf <- MCGuidOf

SPECIFICATION Spec

INVARIANT
    UnrollsOnlyWhatWasDone

CHECK_DEADLOCK FALSE
