SPECIFICATION FairSpec
CONSTANTS
  Client = {c1, c2}
  LowLevel = {c2}
  Item = {i1, i2}
  Writes = 2
  MaxFaults = 2
  None = None
INVARIANTS
  TypeOK HeadIsProven ReceiptsAreTrue ArchivedInBoth
PROPERTIES
  ImplementsRecord RerunsEnd
CHECK_DEADLOCK FALSE
