\* Every history of up to MaxFindings findings under changing policies.
SPECIFICATION StreamSpec
CONSTANTS
  Batches <- MCBatches
  Policies <- MCPolicies
  MaxFindings = 5
  NoBatch = NoBatch
INVARIANTS RetryOnlyCounts BansSurviveBatching OrderInBatchIrrelevant
PROPERTY ObserveOnlyNeverEscalates
CHECK_DEADLOCK FALSE
