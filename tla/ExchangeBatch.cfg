SPECIFICATION Spec
CONSTANTS
  Ids = {"c", "d"}
  MaxBatch = 2
  MaxHistory = 6
  MaxRetries = 1
  MaxRepeated = 3
  MaxInterrupts = 2
INVARIANT RemainingCallsNeverRan
CHECK_DEADLOCK FALSE
