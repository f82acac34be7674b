SPECIFICATION MCSpec
CONSTANTS
    Children = {a, b, c}
    First = {a, b}
    Ops = {"destroy", "shutdown", "add", "online", "remove", "fault", "snapshot", "rebuild"}
    MaxRpcs = 2
    MaxGens = 1
    MaxEvents = 2
    Kinds = {"nvme", "loopback"}
    MaxDevices = 2
    MaxNvmeRpcs = 2
    MaxLoopbackRpcs = 1
    MaxHot = 1
INVARIANTS
    AdminIsSound
    ChildIsSound
PROPERTIES
    
    SelfShutdownHappens
    CloseReturns
CHECK_DEADLOCK FALSE
