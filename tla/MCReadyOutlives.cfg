SPECIFICATION Spec
CONSTANTS
  Lobbies = {l1}
  Accounts = {a1, a2}
  Members <- MCMembers
  Connections = {c1, c2}
  Matches = {m1}
  Requests = {q1}
  Lease = 1
  TurnTime = 2
  MaxTime = 1
SYMMETRY Symmetry
CHECK_DEADLOCK FALSE
PROPERTIES ReadyOutlivesOneConnection
