SPECIFICATION Spec
CONSTANTS
  MaxAgents = 2
  MaxMessages = 1
  Asked = {"interrupt", "stop", "close", "cancel"}
  HostKind = {"observation"}
  CaptureMayFail = FALSE
INVARIANTS CloseSettlesMail
PROPERTIES ConversationEnds
CHECK_DEADLOCK FALSE
