SPECIFICATION MCSpec
CONSTANTS
  q1 = q1
  q2 = q2
  r1 = r1
  r2 = r2
  Callers = {q1, q2}
  Requests = {r1, r2}
  Idempotent = TRUE
  Tracing = TRUE
  Capacity = 2
  RefillPerTick = 5
  TicksPerSec = 1
  Unit = 6
  Err = 1
  MaxCost = 3
  MaxLag = 1
  MaxRuns = 3
INVARIANTS OverGrantOnlyIfBehind RetryAfterSuffices HandlerAuthorised
SYMMETRY Alike
CHECK_DEADLOCK FALSE
