CONSTANTS
  MaxChanges = 2
  MaxStarts = 2
SPECIFICATION LiveSpec
INVARIANTS
  TypeOK
  SnapshotIntact
  SidecarMatchesSnapshot
  NothingOverclaimed
  ShutdownSaves
PROPERTIES
  ShutdownEnds
CHECK_DEADLOCK FALSE
