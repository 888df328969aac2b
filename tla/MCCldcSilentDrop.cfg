CONSTANTS
    MaxMsgs = 2
    MaxSrvPkts = 2
    MaxFh = 1
    SeqMod = 4
    REMEMBER = 2
    MSG_RETRY = 1
    MSG_SCAN = 1
    SESS_EXPIRE = 1
    MSG_EXPIRE = 2
    SrvStartSeqs <- MCSrvStartSeqs
    SessOps <- MCSessOps
    FhOps <- MCFhOps
    NotifyOps <- MCNoNotify
    ErrOps <- MCErr
SPECIFICATION Spec
INVARIANT NoSilentDrop
