SPECIFICATION FairSpec
CONSTANTS
  p1 = p1
  a = a
  b = b
  Process = {p1}
  Drain = {a, b}
  Home <- OneHome
  Inboxes = {TRUE, FALSE}
  MaxVersion = 2
  MaxTokens = 8
  MaxSyncers = 5
  MaxFaults = 1
  None = None
INVARIANTS
  TypeOK LatchedNeverLogsIn OneLiveToken
PROPERTIES
   SyncsUnlessRevoked
