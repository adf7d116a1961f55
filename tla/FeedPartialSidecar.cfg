CONSTANTS
  Capacity = 1
  MaxUsn <- Single
  MaxStarts = 2
SPECIFICATION Spec
INVARIANTS
  SidecarResolvesEveryRecord
CHECK_DEADLOCK FALSE
