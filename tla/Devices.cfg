SPECIFICATION MCSpec
CONSTANTS
  Geometries <- MCGeometries
  MaxReq = 2147483647
  MaxWrites = 2
  MaxDamage = 2
  Children = {"a", "b"}
  BlockLens = {512, 4096}
  Blocks <- MCBlocks
  ReqSizes <- MCReqSizes
  MaxSteps = 3
  BlockLen = 2
  SkipBlocks = 2
  MaxIo = 4
  MaxChunks = 6
  DevSizes = {0, 2, 6, 16, 18, 20}
  ChunkSizes = {0, 2, 3, 4, 6, 8, 10, 12, 20}
  Uris <- MCInjUris
  Ios <- MCIos
  MaxU64 = 9
  MaxTime = 1
  MaxItems = 2
  MaxHits = 3
  Hosts = {"h1", "h2"}
  KeysOf <- MCKeysOf
  MaxAcquires <- MCMaxAcquires
  Types = {"WriteExclusive", "ExclusiveAccess", "WriteExclusiveAllRegs"}
  DeviceUris <- MCDeviceUris
  Clients = {"c1", "c2"}
  PerMiB = 16
  FileSizes = {8, 16}
  MaxUriOps = 3
  MaxUriFaults = 1
  Vbdevs = {"v1", "v2"}
  Keys = {"k1", "k2"}
  Secrets = {"s1", "s2"}
  MaxKeyOps = 5
  MaxKeyFaults = 2
  DevIos = {"i1", "i2", "i3"}
  Contexts = {"x1", "x2"}
  MaxSubmits = 6
  MaxIoFaults = 2
  SnapClients = {"c1", "c2"}
  JobRequests <- MCJobRequests
  MaxSnapOps = 3
  MaxSnapFaults = 1
  SegBlks = 2
  Starts = {0, 2}
  RangeSizes = {1, 5}
  Devices = {5, 8}
  Walks = {"full", "seq", "device"}
  LogCores = {1, 2}
  CopyTasks = 2
  MaxRangeWrites = 2
INVARIANTS
  
  SizeIsSound
  
  InjectionIsSound
  ReservationIsSound
  KeysFollowVbdevs
  ContextsAccounted
  BdevsFollowJobs
  

  
CHECK_DEADLOCK FALSE
