SPECIFICATION FairSpec
CONSTANTS
    c1 = c1
    c2 = c2
    Subscribers = {c1}
    Singles = {c2}
    Namespaces = {"playback", "playbackMetadata"}
    Tried <- MCTried
    MaxChanges = 1
    MaxInbox = 2
    Capacity = 1
    None = None
INVARIANTS
    TypeOK
    ReadsAreFresh
    OkSubscribes
    BlankIsLate
PROPERTIES
    InOrder
    Follows
CHECK_DEADLOCK FALSE
