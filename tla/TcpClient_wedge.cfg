CONSTANTS
    MaxMsgs = 2
    SingleSend = 2
    Limit = 3
    HighLimit = 3
    LowLimit = 1
    NAddrs = 2
    MaxItems = 3
    MaxZeros = 0
    UserCloses = FALSE
    SendFails = FALSE
SPECIFICATION FairSpec
PROPERTY
    AcceptedIsSent
CHECK_DEADLOCK FALSE
