CONSTANTS
  Capacity = 1
  MaxUsn <- ReplacedByEmpty
  MaxStarts = 2
SPECIFICATION LiveSpec
PROPERTIES
  EventuallyVisible
CHECK_DEADLOCK FALSE
