CONSTANTS
    e1 = e1
    e2 = e2
    e3 = e3
    p1 = p1
    p2 = p2
    t1 = t1
    t2 = t2
    NoThread = NoThread
    Participant = {p1, p2}
    Thread = {t1, t2}
    Endpoint <- MCEndpoint
    ParticipantOf <- MCParticipantOf

SPECIFICATION Spec

INVARIANTS
    TypeOK
    IndexesAgree
    QueriesMeetNoHole

PROPERTY
    ImplementsAtomicCache
