SPECIFICATION Spec
CONSTANTS
    k1 = k1
    k2 = k2
    d1 = d1
    c1 = c1
    Connects = {k1, k2}
    Disconnects = {d1}
    Uses = {c1}
    NoConn = NoConn
    Unlocked = Unlocked
    Capacity = 1
INVARIANTS
    TypeOK
    TasksAccounted
    StoredIsForwarded
CHECK_DEADLOCK FALSE
