SPECIFICATION MCSpec
CONSTANTS
    T = 2
    N = 3
    NexusJob = TRUE
    Partial = FALSE
    MaxMessages = 1
    MaxListeners = 2
INVARIANTS
    CompletedIsSynced
    JobIsSound
PROPERTIES
    RequestsApplied
CHECK_DEADLOCK FALSE
