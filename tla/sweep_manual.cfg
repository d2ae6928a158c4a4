SPECIFICATION FairSpec
CONSTANTS
  Memory <- TwoMemories
  Session <- TwoSessions
  Owner <- OwnersCrossed
  Page = 1
  MaxBatches = 8
  Policies = {"manual"}
  Backlog = 1
  Joined = 1
  Writes = 1
  Lag = 0
  MaxFaults = 1
INVARIANTS
  TypeOK NothingMissed
PROPERTIES
  EveryRowArrives
