SPECIFICATION Spec
CONSTANTS
  Clients = {c1}
  MaxChanges = 1
  MaxGeneration = 2
  MaxEpoch = 2
INVARIANT HandshakeRenews
CHECK_DEADLOCK FALSE
