SPECIFICATION Spec
CONSTANTS
    k1 = k1
    k2 = k2
    d1 = d1
    c1 = c1
    Connectors = {k1, k2}
    Disconnectors = {d1}
    Cmds = {c1}
    MayCancel = {}
    NoTask = NoTask
    Unlocked = Unlocked
    Close = Close
    Nothing = Nothing
    NoLimit = NoLimit
    Capacity = 1
    MaxReconnect = NoLimit
    AttemptBound = 1
INVARIANTS
    TypeOK
    NoOrphanWait
    LossIsReported
    StaleSender
    AnswerRouting
CHECK_DEADLOCK FALSE
