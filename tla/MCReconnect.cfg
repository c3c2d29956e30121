SPECIFICATION Spec
CONSTANTS
  None = None
  Clients = {a}
  MaxConnections = 2
  MaxRevision = 1
  MaxCommands = 0
  MaxFaults = 0
  Capacity = 1
CHECK_DEADLOCK FALSE
INVARIANTS
  InitializedClientsAreReady
