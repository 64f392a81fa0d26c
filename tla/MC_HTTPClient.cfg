SPECIFICATION FairSpec
CONSTANTS
  q1 = q1
  q2 = q2
  Callers = {q1, q2}
  MaxFailures = 2
  OpenTimeout = 1
  Retries = 1
INVARIANTS OpensAfterConsecutive HalfOpenHasProbe
PROPERTY HalfOpenEnds
CHECK_DEADLOCK FALSE
