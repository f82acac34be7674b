SPECIFICATION MCSpec
CONSTANTS
    NumCores = 2
    MaxGens = 2
    Clients = 2
    MaxOps = 4
    Events = {"create", "destroy", "channel", "reset", "hotRemove", "timeout", "aer", "adminq"}
    MaxQpairs = 2
    Openers = {o1, o2}
    Slots = {1, 2}
    PoolSize = 2
    MaxSubmits = 4
INVARIANTS
    CommandsAccounted
PROPERTIES
    ControllerIsSound
    ResetEnds
CHECK_DEADLOCK FALSE
