SPECIFICATION Spec
CONSTANTS
  Clients = {c1, c2}
  MaxChanges = 1
  MaxGeneration = 3
  MaxEpoch = 2
SYMMETRY Symmetry
INVARIANTS
  TypeOK
  MappingCoherent
  WindowBoundsStaleness
CHECK_DEADLOCK FALSE
