CONSTANTS
  Agent = {a1, a2}
  User = user
  Kind = {"output", "send"}
  MaxTrace = 3
SPECIFICATION Spec
INVARIANT StallReports
CHECK_DEADLOCK FALSE
