SPECIFICATION Spec
CONSTANTS
  Work = {1, 2}
  Worker = {a}
  Auditor = {u}
  manager = manager
  NoWork = NoWork
  MaxInside = 1
  Scenarios <- MCScenarios
INVARIANTS DispatchIsTidy InterruptionForgets
CHECK_DEADLOCK FALSE
PROPERTIES DispatchSettles
