SPECIFICATION Spec
CONSTANTS
  d1 = d1
  d2 = d2
  Device = {d1, d2}
  Daemon = {d1, d2}
  Home <- Apart
  Entity = {e1}
  MaxOps <- ThreeOne
  PushPage = 1
  PullPage = 1
  MaxFaults = 1
  Peers = {"v2", "legacy"}
INVARIANTS
  TypeOK JournalOnce CursorNoGap SyncedRowsAreShared CompletedMeansShared EvidenceIsSound RowsFollowJournal
PROPERTIES
  ImplementsSharedJournal
