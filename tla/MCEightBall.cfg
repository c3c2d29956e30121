SPECIFICATION RecordedSpec
CONSTANTS
  Solids = {1, 2}
  Stripes = {9, 10}
  Cue = 0
  Eight = 8
  NoBall = NoBall
  Pockets = {corner, side}
  NoPocket = NoPocket
  InProgress = InProgress
  MaxRerackCount = 1
  Physics <- MCPhysics
  Geometry <- MCGeometry
  RackSeed <- MCRackSeed
  Tick <- MCTick
  Revision <- MCRevision
  Checksum <- MCChecksum
  Lie <- MCLie
  MatchId <- MCMatchId
  Accounts <- MCAccounts
  ExpectedRevisions <- MCExpectedRevisions
  DueAt <- MCDueAt
  CommandId <- MCCommandId
  ShotCommand <- MCShotCommand
CHECK_DEADLOCK FALSE
INVARIANTS
  PocketedCueIsInHand
  BreakIsFullAndOpen
  WinIsEarned
  RecordsSurvive
  DamageIsNoticed
PROPERTIES
  ExtraTurnIsEarned
  ImplementsTurnGame
