SPECIFICATION Spec
CONSTANTS
  Memory <- ThreeMemories
  Session <- LastTwo
  Owner <- ThreeCrossed
  Page = 2
  MaxBatches = 2
  Policies = {"auto", "manual"}
  Backlog = 0
  Joined = 1
  Writes = 2
  Lag = 0
  MaxFaults = 1

  
PROPERTIES
  FullySyncedHasAll
