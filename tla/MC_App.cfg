SPECIFICATION FairSpec
CONSTANTS
  Modules <- MCModules
  Migrators = {"users"}
  Checkers = {"users", "orders"}
  AutoMigrate = TRUE
  Name <- MCName
  PreShutdown <- MCPreShutdown
  UserCleanup <- MCUserCleanup
  Timeout = 5
  DrainDelay = 4
  CheckTime = 1
  ProbeEvery = 1
  MaxInflight = 1
INVARIANTS ReportSound NoneRefused DBOutlivesRequests
PROPERTIES ShutdownEnds
CHECK_DEADLOCK FALSE
