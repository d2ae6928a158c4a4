SPECIFICATION FairSpec
CONSTANTS
  Daemon = {p}
  Memory = {m}
  PushPage = 1
  MaxOps = 3
  MaxFaults = 0
INVARIANT SessionsFollow
