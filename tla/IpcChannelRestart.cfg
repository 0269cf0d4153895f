\* A restarted core counts its nonces from one again; the agent does not.
SPECIFICATION Spec
CONSTANTS
  Threads = {main}
  SeenLimit = 2
  SeenWindow = 1
  MaxNonce = 3
  MaxEpoch = 2
INVARIANT OnlyStaleRefused
CHECK_DEADLOCK FALSE
