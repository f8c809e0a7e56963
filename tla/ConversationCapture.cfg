SPECIFICATION Spec
CONSTANTS
  MaxAgents = 1
  MaxMessages = 0
  Asked = {"interrupt"}
  HostKind = {"observation"}
  CaptureMayFail = TRUE
PROPERTIES InterruptionSettles
CHECK_DEADLOCK FALSE
