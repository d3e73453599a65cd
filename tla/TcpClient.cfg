CONSTANTS
    MaxMsgs = 2
    SingleSend = 2
    Limit = 2
    HighLimit = 2
    LowLimit = 1
    NAddrs = 2
    MaxItems = 2
    MaxZeros = 1
    UserCloses = TRUE
    SendFails = TRUE
SPECIFICATION FairSpec
INVARIANTS
    TypeOK
    StreamIntact
PROPERTY
    SentUnlessStuck
CHECK_DEADLOCK FALSE
