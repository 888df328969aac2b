CONSTANTS
    MsgIds = {m1, m2}
    SegLens <- MCSegLens
    AllowDup = TRUE
    AllowClose = FALSE
    MaxQ = 4
    Garbage = Garbage
SPECIFICATION Spec
INVARIANT CommitIsExact
CHECK_DEADLOCK FALSE
