\* Failures, lost answers and forgotten sessions at any point; a queue that overflows.
SPECIFICATION FairSpec
CONSTANTS
  Capacity = 2
  MaxFindings = 4
  MaxSessions = 3
  MaxLost = 2
INVARIANTS NothingLost StoredInOrder BatchFits AnsweredNotResent
PROPERTY EventuallyStored
CHECK_DEADLOCK FALSE
