SPECIFICATION Spec
CONSTANTS
  Matches = {1}
  NoPlayer = NoPlayer
  ClientIds = {c1, c2}
  ClientCommands = {"place", "concedeTwo", "timeout"}
  Loaders = {l1, l2}
  TurnTime = 1
  LostReplies = TRUE
  MaxMoves = 2
  MaxTime = 2
  MaxFaults = 1
SYMMETRY Symmetry
CHECK_DEADLOCK FALSE
INVARIANTS
  RecoveryNeverFails
  AckedIsDurable
  MemoryIsDurablePrefix
  PlayedMatchesStayLoaded
PROPERTIES
  MemoryNeverRewinds
  TimeoutsAreDue
  ImplementsCommandLog
