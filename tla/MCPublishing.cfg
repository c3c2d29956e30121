SPECIFICATION Spec
CONSTANTS
  Matches = {1, 2}
  NoPlayer = NoPlayer
  ClientIds = {c1}
  ClientCommands = {"foul", "end"}
  Loaders = {l1}
  TurnTime = 1
  LostReplies = FALSE
  MaxMoves = 1
  MaxTime = 2
  MaxFaults = 1
CHECK_DEADLOCK FALSE
INVARIANTS
  TimeoutsArePublished

  
