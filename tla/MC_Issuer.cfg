SPECIFICATION Spec
CONSTANTS
  q1 = q1
  q2 = q2
  f1 = f1
  Requests = {q1, q2}
  Fids = {f1}
  MaxPair = 3
  MaxTime = 2
  AccessTTL = 1
  RefreshTTL = 2
  RedisBacked = TRUE
  None = None
SYMMETRY Symm
CHECK_DEADLOCK FALSE
INVARIANTS SequentialSingleUse RevokedUnlessRaced NewestUsableUnlessLost
PROPERTY LogoutSticks
