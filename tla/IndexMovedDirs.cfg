CONSTANTS
  Files = {1, 2, 3}
  Dirs = {1, 3}
  Names = {1, 2}
  FirstTrees <- EitherTree
  MaxEvents = 2
SPECIFICATION Spec
PROPERTIES
  CompactionKeepsMovedContents
CHECK_DEADLOCK FALSE
