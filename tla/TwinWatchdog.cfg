\* Two faults: processes die or freeze at any point and are started again.
SPECIFICATION FairTwinSpec
CONSTANTS
  Cores = {c1, c2, c3}
  Watchdogs = {w1, w2, w3}
  WatchdogStallLimit = 3
  CoreStallLimit = 2
  CorePeriod = 1
  MaxFaults = 2
  Nobody = Nobody
INVARIANTS OneOfEach KillsOnlyStalled
PROPERTIES CoreComesBack WatchdogComesBack
CHECK_DEADLOCK FALSE
