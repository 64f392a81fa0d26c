SPECIFICATION FairSpec
CONSTANTS
  k1 = k1
  k2 = k2
  r1 = r1
  q1 = q1
  q2 = q2
  LocalKeys = {k1, k2}
  RemoteKeys = {r1}
  Callers = {q1, q2}
  MaxSize = 1
  TTL = 1
  MaxVersion = 2
INVARIANTS ListAgrees StaleOnlyIfRaced
PROPERTIES NoNeedlessLoad RacedEntryEnds
ACTION_CONSTRAINT OneStore
CHECK_DEADLOCK FALSE
