CONSTANTS
    rs = rs
    lp = lp
    lq = lq
    unknown = unknown
    NoLocal = NoLocal
    Remote = {rs}
    Local = {lp, lq}
    LocalGuid = {unknown}
    App = {a1, a2}
    Waiter = {w1}
    KindOf <- MCKindOf
    GuidOf <- MCGuidOf

SPECIFICATION FairSpec

INVARIANTS
    TypeOK
    NoLostChange
    SettledIsExact

PROPERTIES
    EventuallyConsistent
    ImplementsGraphWatch

\* Once every endpoint has come and gone the waiter may wait for ever.
CHECK_DEADLOCK FALSE
