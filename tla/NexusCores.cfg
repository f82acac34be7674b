SPECIFICATION Spec
CONSTANTS
    NumChildren = 2
    NumCores = 2
    Writes = {w1}
    Faulty = {1}
    Added = {}
    Events = {"admin", "store", "republish"}
INVARIANTS
    AckedIsKept
    MissedIsLogged
CHECK_DEADLOCK FALSE
