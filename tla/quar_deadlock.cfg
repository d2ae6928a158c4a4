SPECIFICATION FairSpec
CONSTANTS
  Project = {1, 2}
  Drain = {1}
  Target <- JustOne
  Process <- Alone
  MaxCommands <- One
  Users = FALSE
  MaxFaults = 0
PROPERTIES
  DrainsEnd
CHECK_DEADLOCK FALSE
