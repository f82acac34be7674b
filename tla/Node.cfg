SPECIFICATION MCSpec
CONSTANTS
  Cores = {"c0", "c1"}
  Master = "c0"
  Threads = {"init", "t1"}
  InitThread = "init"
  Setups <- MCSetups
  MaxFutures = 2
  MaxFailures = 1
  Reactors = {"r1", "r2"}
  Timeout = 2
  MaxIntervals = 6
  Nexuses = {"n1", "n2"}
  MaxRegisters = 2
  TgtCores = {"c0", "c1", "c2"}
  Nqns = {"n1", "n2"}
  MaxTgtFaults = 1
  Hosts = {"h1", "h2"}
  HostSets = {{}, {"h1"}, {"h2"}}
  Ctrlrs = {1, 2}
  Requesters = {"v0", "v1"}
  MaxShareOps <- MCMaxShareOps
  MaxConnects <- MCMaxConnects
  MaxFaults = 1
  Retries = 2
  MaxPersists = 4
  MaxStrays = 2
  LvHostSets = {{}, {"h1"}, {"h1", "h2"}}
  LvSizes = {1, 2}
  MaxLvmOps <- MCMaxLvmOps
  MaxLvmFaults = 1
INVARIANTS
  SleepIsSafe
  
  
  
  
  
CHECK_DEADLOCK FALSE
