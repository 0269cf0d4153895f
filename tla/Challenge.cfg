\* Two challenges, replayed answers, failing polls and writes, restarts; a tick is 15 s.
SPECIFICATION Spec
CONSTANTS
  Handlers = {h1, h2}
  Lifetime = 4
  PollPeriod = 1
  MaxFailures = 2
  MaxNonce = 2
  MaxTime = 8
  None = None
INVARIANTS PresenceIsLive AnsweredInTime
CHECK_DEADLOCK FALSE
