SPECIFICATION Spec
CONSTANTS
  Actor = {root, ann, bob, cyd}
  Manager = {root}
  PlanID = {p1}
  StepID = {s1, s2}
  WorkID = {1, 2, 3, 4, 5}
  SubmissionID = {11, 12}
  AuditID = {21, 22}
  Criteria = {c1}
  None = None
  MaxAssigned = 1
  MaxRevision = 2
  MaxPlanRevision = 1
  AssignedKind = {"implementation", "investigation"}
  ReportedStatus = {"blocked", "in_progress"}
  MaxHypotheses = 1
INVARIANTS StoreInv ReviewCycle ReviewEarned
PROPERTIES EveryStepAccounted WorkObeysMachine
CHECK_DEADLOCK FALSE
SYMMETRY WorkerSymmetry
