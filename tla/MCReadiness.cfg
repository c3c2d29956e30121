SPECIFICATION FairProbeSpec
CONSTANTS
  Matches = {1, 2}
  NoPlayer = NoPlayer
  ClientIds = {c1}
  ClientCommands = {"end"}
  Loaders = {l1}
  TurnTime = 1
  LostReplies = FALSE
  MaxMoves = 0
  MaxTime = 1
  MaxFaults = 1
  MaxAge = 0
CHECK_DEADLOCK FALSE
PROPERTIES
  DueTurnsEnd
  RefusalsHaveAReason
  LoadedServersAreFoundReady
