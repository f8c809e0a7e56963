SPECIFICATION MCSpec
CONSTANTS
  Op = {send, op1, op2}
  Limit = 2
  Agent = {a1, a2}
  send = send
  Item = {w1, w2}
  MaxMinted = 3
  MaxEvents = 2
  Publisher = {p1, p2}
  Entries = 1
  Terminal = Terminal
  MaxEdits = 1
  MaxQueries = 1
  MaxDeaths = 1
  Closes = TRUE
INVARIANTS ControlHolds PublicationHolds AnswersAreTrue ArchiveKeepsPrefix
PROPERTIES RequestsComplete ReplayIsAtomic EveryEventHandled LogAnswers CloseEnds
CHECK_DEADLOCK FALSE
