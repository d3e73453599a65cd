CONSTANTS
    SendBuf = 2
    FileLen = 5
    MaxRecv = 5
    MsgMaxCnt = 5
    PeerCloses = TRUE
    CallsFail = TRUE
    MqttMaxCnts = {1, 5}
    Foreigns = {1}
    FailQueueLen = 1
    LossQueueLen = 1
    PlainQueueLen = 5
    FailForeign = 1
    LossForeign = 1
SPECIFICATION MsgSpec
INVARIANTS
    AllTypesOK
    WireIsPrefix
    NothingHeldAtEnd
PROPERTIES
    NoReportAfterFree
    CompleteEndsTask
    DownEndsTask
    DemoRunsToEnd
    StoredIsRead
CHECK_DEADLOCK FALSE
