SPECIFICATION ScaffoldSpec
CONSTANTS
  Projects <- MCProjects
  Names = {"auth", "order"}
  MaxTime = 2
  MaxCommands = 3
INVARIANTS SharedVersionOnlyIfHurried
PROPERTIES AddLosesNothing
CHECK_DEADLOCK FALSE
