SPECIFICATION FairSpec
CONSTANTS
  Matches = {1}
  NoPlayer = NoPlayer
  ClientIds = {c1}
  ClientCommands = {"end"}
  Loaders = {l1}
  TurnTime = 1
  LostReplies = FALSE
  MaxMoves = 1
  MaxTime = 1
  MaxFaults = 1
CHECK_DEADLOCK FALSE
PROPERTIES
  StartedTurnsEnd
