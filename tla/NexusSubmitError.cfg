SPECIFICATION Spec
CONSTANTS
    NumChildren = 2
    NumCores = 1
    Writes = {w1}
    Faulty = {1, 2}
    Added = {}
    Events = {"submit"}
CHECK_DEADLOCK FALSE
INVARIANTS
    AckedOnHealthy
