SPECIFICATION Spec
CONSTANTS
  Accounts = {a1, a2, a3}
  Challenges = {c1}
  Invitations = {i1}
  Lobbies = {l1}
  Matches = {m1, m2}
  None = None
  Gone = Gone
  Lifetime = 1
  MaxTime = 0
SYMMETRY Symmetry
CHECK_DEADLOCK FALSE
INVARIANTS EveryoneCanListRematches
