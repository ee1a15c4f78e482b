SPECIFICATION FairSpec
CONSTANTS
    k1 = k1
    d1 = d1
    c1 = c1
    c2 = c2
    Connectors = {k1}
    Disconnectors = {d1}
    Cmds = {c1, c2}
    MayCancel = {}
    NoTask = NoTask
    Unlocked = Unlocked
    Close = Close
    Nothing = Nothing
    NoLimit = NoLimit
    Capacity = 1
    MaxReconnect = 2
    AttemptBound = 2
INVARIANTS
    CellsAgree
PROPERTIES
    CallsReturn
    DisconnectReturns
    RedialIsAnnounced
    RecoversOrGivesUp
    LeakIsDrained
CHECK_DEADLOCK FALSE
