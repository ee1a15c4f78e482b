SPECIFICATION RemovalSpec
CONSTANTS
    k1 = k1
    d1 = d1
    u1 = u1
    c1 = c1
    Connects = {k1}
    Disconnects = {d1, u1}
    Update = u1
    Uses = {c1}
    NoConn = NoConn
    Unlocked = Unlocked
    Capacity = 2
INVARIANTS
    RemovalStops
PROPERTIES
    StoppedIsSilent
    PlayerCallsReturn
    LossIsTold
    UpdateReturns
    StopIsTold
CHECK_DEADLOCK FALSE
