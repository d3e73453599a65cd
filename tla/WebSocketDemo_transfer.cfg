CONSTANTS
    MsgMaxCnt = 5
    SendBuf = 2
    FileLen = 5
    MaxRecv = 0
    PeerCloses = FALSE
    CallsFail = FALSE
SPECIFICATION WebFairSpec
PROPERTY
    FileTransferred
CHECK_DEADLOCK FALSE
