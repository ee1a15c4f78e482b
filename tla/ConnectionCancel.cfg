SPECIFICATION Spec
CONSTANTS
    k1 = k1
    d1 = d1
    d2 = d2
    c1 = c1
    c2 = c2
    Connectors = {k1}
    Disconnectors = {d1, d2}
    Cmds = {c1, c2}
    MayCancel = {c1}
    NoTask = NoTask
    Unlocked = Unlocked
    Close = Close
    Nothing = Nothing
    NoLimit = NoLimit
    Capacity = 1
    MaxReconnect = NoLimit
    AttemptBound = 1
INVARIANTS
    PendingAccounted
PROPERTIES
    CommandsRefined
    LifecycleRefined
CHECK_DEADLOCK FALSE
