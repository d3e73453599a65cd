CONSTANTS
    MaxClients = 2
    MaxMsgs = 3
    Backlog = 2
    EchoLen = 3
    Fds = {f1, f2}
    Bufs = {b1, b2}
    MallocFails = FALSE
    MaxEvents = 6
    NULL = NULL
    ListenFd = ListenFd
    f1 = f1
    f2 = f2
    b1 = b1
    b2 = b2
SPECIFICATION Spec
SYMMETRY Symmetry
INVARIANT AllDataSent
CHECK_DEADLOCK FALSE
