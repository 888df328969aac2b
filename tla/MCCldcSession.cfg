CONSTANTS
    MaxMsgs = 3
    MaxSrvPkts = 3
    MaxFh = 1
    SeqMod = 4
    REMEMBER = 2
    MSG_RETRY = 1
    MSG_SCAN = 1
    SESS_EXPIRE = 1
    MSG_EXPIRE = 2
    SrvStartSeqs <- MCSrvStartSeqs
    SessOps <- MCSessOps
    FhOps <- MCFhOps
    NotifyOps <- MCNoNotify
    ErrOps <- MCNoErr
SPECIFICATION Spec
INVARIANT TypeOK
PROPERTY RefinesRequests
