SPECIFICATION FairSpec
CONSTANTS
  EventCapacity = 1
  MaxConnections = 2
  MaxFaults = 1
  MaxChecks = 2
  HasDatabase = FALSE
INVARIANTS ArmedOnlyWhenProven QuietWhenStopped
PROPERTIES StopCompletes EndsUpReady
