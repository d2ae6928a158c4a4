SPECIFICATION FairSpec
CONSTANTS
  d1 = d1
  d2 = d2
  Device = {d1, d2}
  Daemon = {d1, d2}
  Home <- Apart
  Entity = {e1}
  MaxOps <- ThreeTwo
  PushPage = 2
  PullPage = 2
  MaxFaults = 0
  Peers = {"v2"}
PROPERTIES
  DrainsUnlessBlocked
