CONSTANTS
  Capacity = 1
  MaxUsn <- Replaced
  MaxStarts = 4
SPECIFICATION Spec
INVARIANTS
  TypeOK
  ViewCoversCursor
  SnapshotCoversCursor
  NothingDropped
PROPERTIES
  ImplementsIndex
CHECK_DEADLOCK FALSE
