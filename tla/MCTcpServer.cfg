CONSTANTS
    MaxClients = 2
    MaxMsgs = 2
    Backlog = 2
    EchoLen = 3
    Fds = {f1, f2, f3}
    Bufs = {b1, b2, b3}
    MallocFails = TRUE
    MaxEvents = 8
    NULL = NULL
    ListenFd = ListenFd
    f1 = f1
    f2 = f2
    f3 = f3
    b1 = b1
    b2 = b2
    b3 = b3
SPECIFICATION Spec
SYMMETRY Symmetry
INVARIANTS
    TypeOK
    BuffersOwned
    SendContinues
CHECK_DEADLOCK FALSE
