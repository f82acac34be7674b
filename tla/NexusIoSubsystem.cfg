SPECIFICATION FairSpec
CONSTANTS
    Callers = {c1, c2, c3}
    MaxCalls = 2
    RpcOps = {"share", "unshare", "ana"}
INVARIANTS
    PauseIsSound
PROPERTIES
    PausesReturn
CHECK_DEADLOCK FALSE
