SPECIFICATION Spec
CONSTANTS
  None = None
  Clients = {a, b}
  MaxConnections = 2
  MaxRevision = 2
  MaxCommands = 2
  MaxFaults = 0
  Capacity = 1
CHECK_DEADLOCK FALSE
PROPERTIES
  OnlyRefusedPredictionsAreDropped
