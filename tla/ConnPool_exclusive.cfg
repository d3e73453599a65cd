CONSTANTS
    MAX_CONNECTIONS = 2
    Tasks = {t1, t2, t3}
    Rounds = 1
    t1 = t1
    t2 = t2
    t3 = t3
SPECIFICATION PoolSpec
INVARIANT
    ExclusiveUse
CHECK_DEADLOCK FALSE
