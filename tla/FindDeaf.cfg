SPECIFICATION FairSpec
CONSTANTS
    p1 = p1
    u1 = u1
    Ids = {p1}
    Uuids = {u1}
    Neighbours = {}
    Ours = Ours
    Theirs = Theirs
    Missing = Missing
    Capacity = 2
    MaxChanges = 1
PROPERTIES
    UpdatesResume
CHECK_DEADLOCK FALSE
