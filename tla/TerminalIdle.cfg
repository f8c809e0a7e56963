SPECIFICATION Spec
CONSTANTS
  Agents = {m, w}
  Manager = m
  MaxRevision = 2
  MaxMessages = 2
  MaxLooks = 1
  MaxBehind = 2
INVARIANT IdleMeansWaiting
CHECK_DEADLOCK FALSE
