SPECIFICATION FairSpec
CONSTANTS
  Daemon = {p}
  Memory = {m}
  PushPage = 1
  MaxOps = 4
  MaxFaults = 1
INVARIANTS MemoriesFollow NothingIsDropped SessionIsShared
PROPERTIES MemoriesArrive AmbiguityClears
