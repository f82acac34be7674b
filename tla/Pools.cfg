SPECIFICATION MCSpec
CONSTANTS
  Reqs = {1, 2}
  Names = {"p", "q"}
  Ops <- MCOps
  MaxOps = 3
  MaxEvents = 2
  MaxStalls = 3
  MaxLoads = 3
  ErrorThreshold = 2
  TransitionThreshold = 3
  SnapReqs = {1, 2}
  Vols = {"r", "c", "d"}
  Snaps = {"s"}
  MaxSnapOps = 4
  MaxMishaps = 2
  Volumes = {1, 2, 3}
  SnapIds = {11, 12, 13, 14}
  MaxWrites = 2
  MaxSteps = 6
  Callers = {1, 2}
  HostLists <- MCHostLists
  Entities = {"e"}
  Sizes = {1, 2}
  MaxCalls = 3
  MaxTroubles = 1
  V0Reqs = {1, 2}
  Pools = {"a", "b"}
  MaxV0 = 3
  MaxV1 = 1
  MaxGone = 1
  MaxStarts = 1
INVARIANTS
  StallIsHandled
  VolumesAreSound
  
PROPERTIES
  PoolIsSound
CHECK_DEADLOCK FALSE
