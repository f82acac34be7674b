SPECIFICATION MCSpec
CONSTANTS
  Uuids = {"u1", "u2"}
  Names = {"vol", "nexus-u1", "nexus-u2"}
  UuidNames = {"vol"}
  NexusName <- MCNexusName
  ClientIds = {"u1", "u2", "vol"}
  NumNexuses = 2
  MaxRequests = 2
  NumChildren = 2
  NumHistories = 2
  MaxRecords = 4
  MaxEvents = 4
  Members = {"r1", "r2"}
  LocalMembers = {"r1"}
  SnapshotIds = {"s1"}
  MaxHostWrites = 1
  MaxSnapCalls = 2
  MaxSnapTroubles = 1
INVARIANTS
  ApiIsSound
  SnapshotsAgree
CHECK_DEADLOCK FALSE
