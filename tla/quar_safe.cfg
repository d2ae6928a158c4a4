SPECIFICATION Spec
CONSTANTS
  Project = {1, 2}
  Drain = {1, 2}
  Target <- OneAndTwo
  Process <- Apart
  MaxCommands <- Two
  Users = TRUE
  MaxFaults = 1
INVARIANTS
  TypeOK AppliedStays
PROPERTIES
  UserArchiveStays
