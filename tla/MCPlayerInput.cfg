SPECIFICATION Spec
CONSTANTS
  None = None
  Touches = {t}
  Mouse = mouse
  NoTouch = NoTouch
  Spots <- MCSpots
  FreeSpots <- MCFreeSpots
  AimSteps <- MCAimSteps
  Spin <- MCSpin
  JoinedGames <- MCJoinedGames
  PracticeBalls = {b}
  CueBall = cue
  MaxRevision = 1
  MaxFaults = 1
INVARIANTS
  FramesAreUnderstood
  PredictionIsGrounded
PROPERTIES
  PlacingIsNotShooting
  CancelledContactsAreInert
