SPECIFICATION Spec
CONSTANTS
  Accounts = {a1, a2, a3}
  Challenges = {c1, c2}
  Invitations = {i1}
  Lobbies = {l1, l2}
  Matches = {m1, m2, m3}
  None = None
  Gone = Gone
  Lifetime = 1
  MaxTime = 2
SYMMETRY Symmetry
CHECK_DEADLOCK FALSE
INVARIANT RematchesAlternate
PROPERTIES ImplementsInvite ImplementsPlay
