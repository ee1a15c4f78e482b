SPECIFICATION Spec
CONSTANTS
    k1 = k1
    d1 = d1
    Connectors = {k1}
    Disconnectors = {d1}
    Cmds = {}
    MayCancel = {}
    NoTask = NoTask
    Unlocked = Unlocked
    Close = Close
    Nothing = Nothing
    NoLimit = NoLimit
    Capacity = 1
    MaxReconnect = NoLimit
    AttemptBound = 1
INVARIANTS
    DisconnectSticks
CHECK_DEADLOCK FALSE
