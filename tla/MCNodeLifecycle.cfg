CONSTANTS
    c1 = c1
    c2 = c2
    n1 = n1
    n2 = n2
    n3 = n3
    NoNode = NoNode
    Context = {c1, c2}
    Node = {n1, n2, n3}
    ContextOf <- MCContextOf

SPECIFICATION Spec

INVARIANTS
    CallbackFindsNode
    OwnName
    GoneIsReleased
    FactoryInReach
