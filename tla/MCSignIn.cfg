SPECIFICATION Spec
CONSTANTS
  Attempts = {a1}
  Tokens = {t1, t2}
  Callbacks = {k1, k2}
  Requests = {r1, r2}
  Subjects = {s1, s2}
  Handles = {h1}
  None = None
  Gone = Gone
  AttemptLife = 1
  SessionLife = 2
  MaxTime = 2
  MaxHandlers = 2
CHECK_DEADLOCK FALSE
INVARIANTS OneSessionPerSignIn
PROPERTIES ImplementsIdentityService HandlesAreForGood SpentRowsAreSwept
