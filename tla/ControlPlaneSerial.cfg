\* Clients wait for their answers; crashes, restarts and failed writes at any point.
SPECIFICATION Spec
CONSTANTS
  Sessions = {s1, s2}
  Games = {g1}
  Tasks = {t1, t2}
  Batches <- MCBatches
  PolicyUpdates <- MCPolicyUpdates
  DefaultKick = 40
  DefaultBan = 90
  ClientsWait = TRUE
  MaxFindings = 2
  None = None
INVARIANTS AnswersAreDurable MapsMatchFiles StoredPoliciesOrdered
PROPERTIES StickyDecisions ImplementsLedger
SYMMETRY Symmetry
CHECK_DEADLOCK FALSE
