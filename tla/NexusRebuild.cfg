SPECIFICATION Spec
CONSTANTS
    NumChildren = 2
    NumCores = 2
    Writes = {w1, w2}
    Faulty = {1}
    Added = {}
    Events = {"online"}
INVARIANTS
    HealthyHasAcked
CHECK_DEADLOCK FALSE
