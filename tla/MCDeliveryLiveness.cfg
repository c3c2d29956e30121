SPECIFICATION FairSpec
CONSTANTS
  None = None
  Clients = {a}
  MaxConnections = 2
  MaxRevision = 2
  MaxCommands = 2
  MaxFaults = 1
  Capacity = 1
CHECK_DEADLOCK FALSE
INVARIANTS
  NoStaleDelivery
  PredictionIsOnCurrentBase
PROPERTIES
  ReadyClientsConverge
  PredictionsResolve
