SPECIFICATION Spec
CONSTANTS
    k1 = k1
    k2 = k2
    Connectors = {k1, k2}
    Disconnectors = {}
    Cmds = {}
    MayCancel = {}
    NoTask = NoTask
    Unlocked = Unlocked
    Close = Close
    Nothing = Nothing
    NoLimit = NoLimit
    Capacity = 1
    MaxReconnect = NoLimit
    AttemptBound = 1
INVARIANTS
    OneTask
CHECK_DEADLOCK FALSE
