SPECIFICATION FairSpec
CONSTANTS
  Project = {1, 2}
  Drain = {1}
  Target <- JustTwo
  Process <- Alone
  MaxCommands <- One
  Users = TRUE
  MaxFaults = 2
INVARIANTS
  BlockArchives
PROPERTIES
  CommandsSettle UnblockedSyncs
