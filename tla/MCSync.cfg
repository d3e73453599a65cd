CONSTANTS
    BUFFER_SIZE = 3
    LastChar = 4
    MaxItems = 6
    MAX_CONNECTIONS = 2
    Tasks = {t1, t2, t3}
    Rounds = 2
    t1 = t1
    t2 = t2
    t3 = t3
    Threads = {t1, t2, t3}
    SemThreads = {t1, t2}
    SemRounds = 2
    Patience = 2
    Sims = {0, 1}
    SmsQueueLen = 2
    MaxList = 2
    MaxCalls = 3
    MaxInd = 1
    CallMsgqLen = 1
    MaxRetry = 2
    MaxDeact = 4
    Period = 3
    MaxCfun = 2
    MaxReg = 4
SPECIFICATION SyncSpec
INVARIANTS
    AllTypesOK
    ScanNeverFails
    PoolRestored
    NoLostCount
    SemCounts
    SmsMemoryOwned
    CfunPaired
PROPERTIES
    ImplementsChannel
    EveryCharRead
    ListingsEnd
    CallRestored
CHECK_DEADLOCK FALSE
