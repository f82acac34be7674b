SPECIFICATION FairSpec
CONSTANTS
    NumChildren = 2
    NumCores = 1
    Writes = {w1}
    Faulty = {1, 2}
    Added = {}
    Events = {"submit", "handle", "online", "stop"}
INVARIANTS
    SomeHealthyRecorded
PROPERTIES
    WriteAnswered
CHECK_DEADLOCK FALSE
