CONSTANTS
    Entity = {e1, e2}
    Self = self
    Other = other
    Word <- MCWord
    Request <- MCRequest
    ULongs = 8
    Sizes = 64

SPECIFICATION MCSpec

INVARIANTS
    TopicsListed
    CountMatchesInfo
    ServicesListed
    ServicesOfNode
    AskedIsActual
    ActualIsAskable

CHECK_DEADLOCK FALSE
