SPECIFICATION Spec
CONSTANTS
  Lobbies = {l1}
  Accounts = {a1, a2}
  Members <- MCMembers
  Connections = {c1, c2, c3}
  Matches = {m1, m2}
  Requests = {q1, q2}
  Lease = 1
  TurnTime = 2
  MaxTime = 3
SYMMETRY Symmetry
PROPERTIES RefinesOneShot StartsOnlyWhenBothReady ReadinessIsExplicit ReadinessLapses
