SPECIFICATION Spec
CONSTANTS
    k1 = k1
    d1 = d1
    Connects = {k1}
    Disconnects = {d1}
    Uses = {}
    NoConn = NoConn
    Unlocked = Unlocked
    Capacity = 1
INVARIANTS
    DisconnectStops
CHECK_DEADLOCK FALSE
