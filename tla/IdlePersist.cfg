CONSTANTS
  POLL_INTERVAL = 1
  QUIET_PERIOD = 4
  CHECKPOINT_MAX_AGE = 8
  RETRY_INTERVAL = 2
  Horizon = 10
SPECIFICATION LiveSpec
INVARIANTS
  TypeOK
  UnsavedIsScheduled
  SilentChangesAreTried
  PositionIsCheckpointed
PROPERTIES
  EventuallyDurable
