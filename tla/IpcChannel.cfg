\* Two alerting threads, short writes, restarts of either side.
SPECIFICATION FairSpec
CONSTANTS
  Threads = {main, watchdog}
  SeenLimit = 2
  SeenWindow = 1
  MaxNonce = 4
  MaxEpoch = 2
INVARIANTS TypeOK AcceptedInOrder NothingFollowsAFragment SeenBounded
PROPERTY AgentComesBack
CHECK_DEADLOCK FALSE
