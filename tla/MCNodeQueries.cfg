CONSTANTS
    p1 = p1
    p2 = p2
    p3 = p3
    p4 = p4
    e1 = e1
    e2 = e2
    n1 = n1
    n2 = n2
    Self = Self
    NoName = NoName
    Participant = {p1, p2, p3, p4}
    NameOnly = {p3}
    Name = {n1, n2}
    Endpoint = {e1, e2}
    NameOf <- MCNameOf
    OwnerOf <- MCOwnerOf

SPECIFICATION Spec

INVARIANTS
    AbsentMeansAbsent
    AnswerIsOfTheNode
    NamesComplete
    ErrorMeansLeft
    InfoNamesOwner
