SPECIFICATION ShotSpec
CONSTANTS
  HalfWidth = 240
  HalfHeight = 140
  BallRadius = 20
  PocketRadius = 35
  TicksPerSecond = 8
  MaximumTicks = 120
  MaximumSpeed = 400
  RollingDeceleration = 64
  CushionRestitution = 82
  CollisionRestitution = 96
  SettlingSpeed = 32
  Whole = 100
  SlidingForce = 192
  SpinDecay = 192
  Fixtures <- MCFixtures
  FollowingShots <- MCCommands
  MaxEvents = 400
  MaxShots = 2
CHECK_DEADLOCK FALSE
INVARIANTS
  ReportsAreShots
  PocketedOnce
  NoneLeavesTheBoard
  EveryShotSettles
