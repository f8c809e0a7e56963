SPECIFICATION Spec
CONSTANTS
  MaxAgents = 2
  MaxMessages = 2
  Asked = {"interrupt"}
  HostKind = {"assignment", "observation"}
  CaptureMayFail = TRUE
INVARIANTS InputAccounted
PROPERTIES ReceiptsAreFinal FencesExecution
CHECK_DEADLOCK FALSE
