CONSTANTS
    MaxClients = 1
    MaxMsgs = 3
    Backlog = 2
    EchoLen = 2
    Fds = {f1, f2, f3}
    Bufs = {b1, b2}
    MallocFails = FALSE
    MaxEvents = 9
    NULL = NULL
    ListenFd = ListenFd
    f1 = f1
    f2 = f2
    f3 = f3
    b1 = b1
    b2 = b2
SPECIFICATION Spec
SYMMETRY Symmetry
INVARIANT EchoToAsker
CHECK_DEADLOCK FALSE
