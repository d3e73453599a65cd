CONSTANTS
    Tests = {1}
    BodyLen = 1
    FreeSize = 2
    OldLens = {0}
    HeadLen = 1
    HttpBlock = 1
SPECIFICATION HttpSpec
INVARIANT
    ErrorNotSaved
