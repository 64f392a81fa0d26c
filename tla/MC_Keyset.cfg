SPECIFICATION KeysetSpec
CONSTANTS
  Values = {0, 1}
  Ids = {1, 2, 3, 5}
  Limits = {1, 2}
  MaxExact = 4
  MaxWalk = 8
INVARIANTS WalkComplete
PROPERTIES BackReturns
