CONSTANTS
    MsgIds = {m1, m2}
    SegLens <- MCSegLens
    AllowDup = FALSE
    AllowClose = TRUE
    MaxQ = 9
    Garbage = Garbage
SPECIFICATION Spec
INVARIANT TypeOK
INVARIANT CommitIsExact
INVARIANT NoCrash
CHECK_DEADLOCK FALSE
