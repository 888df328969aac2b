CONSTANTS
    Clients = {c1, c2}
    Keys = {k1, k2}
    PutSizes <- MCPutSizes
    Offsets <- MCOffsets
    Lengths <- MCLengths
    BUF = 2
    BLK = 2
    MAX_GETPART = 1
    BackendFail = TRUE
    MaxReq = 2
    NONE = NONE
    Garbage = Garbage
SPECIFICATION FairSpec
INVARIANT TypeOK
INVARIANT DedupLock
INVARIANT PutObjectsWhole
INVARIANT GetPartSlice
PROPERTY CopyAnswered
CHECK_DEADLOCK FALSE
