CONSTANTS
  Files = {1, 2, 3}
  Dirs = {1, 3}
  Names = {1, 2}
  FirstTrees <- EitherTree
  MaxEvents = 3
SPECIFICATION Spec
INVARIANTS
  TypeOK
  OverlayConsistent
  DivergenceIsQueued
  PathExact
PROPERTIES
  CompactionKeepsPaths
CHECK_DEADLOCK FALSE
