\* Two requests for one session in flight at once: the prior decision is read stale.
SPECIFICATION Spec
CONSTANTS
  Sessions = {s1}
  Games = {g1}
  Tasks = {t1, t2}
  Batches <- MCBatches
  PolicyUpdates <- MCPolicyUpdates
  DefaultKick = 40
  DefaultBan = 90
  ClientsWait = FALSE
  MaxFindings = 3
  None = None
PROPERTY StickyDecisions
CHECK_DEADLOCK FALSE
