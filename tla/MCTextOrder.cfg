SPECIFICATION ProbeSpec
CONSTANTS
  Matches = {9, 10}
  NoPlayer = NoPlayer
  ClientIds = {c1}
  ClientCommands = {"end"}
  Loaders = {l1}
  TurnTime = 1
  LostReplies = FALSE
  MaxMoves = 0
  MaxTime = 1
  MaxFaults = 0
  MaxAge = 1
CHECK_DEADLOCK FALSE
PROPERTIES SameMatchesAreReady
