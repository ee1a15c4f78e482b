SPECIFICATION ClientFairSpec
CONSTANTS
    p1 = p1
    p2 = p2
    u1 = u1
    u2 = u2
    Ids = {p1, p2}
    Uuids = {u1, u2}
    Neighbours = {u2}
    Ours = Ours
    Theirs = Theirs
    Missing = Missing
    Capacity = 1
    NewsCapacity = 2
    MaxChanges = 2
INVARIANTS
    TypeOK
    ViewsAgree
    KeptIsCurrent
PROPERTIES
    CatchesUp
    StartReturns
    ClientLearns
CHECK_DEADLOCK FALSE
