CONSTANTS
  MaxRequests = 4
  MaxExits = 1
  ReplyCapacity = 1
SPECIFICATION LiveSpec
INVARIANTS
  TypeOK
  FramesInOrder
  NewestNotSuperseded
PROPERTIES
  LatestWins
  NewestAnswered
  ThreadsEnd
CHECK_DEADLOCK FALSE
