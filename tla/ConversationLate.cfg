SPECIFICATION Spec
CONSTANTS
  MaxAgents = 1
  MaxMessages = 0
  Asked = {"close"}
  HostKind = {"observation"}
  CaptureMayFail = FALSE
INVARIANTS ClosedRunsNothing
CHECK_DEADLOCK FALSE
