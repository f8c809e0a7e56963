SPECIFICATION Spec
CONSTANTS
  Actor = {root, ann}
  Manager = {root}
  PlanID = {p1, p2}
  StepID = {s1, s2}
  WorkID = {1, 2, 3}
  SubmissionID = {11}
  AuditID = {21}
  Criteria = {c1, c2}
  None = None
  AssignedKind = {"implementation", "experiment"}
  ReportedStatus = {"in_progress"}
  MaxAssigned = 2
  MaxRevision = 1
  MaxPlanRevision = 2
  MaxHypotheses = 1
INVARIANTS TypeOK ReservationExact StepsAreHonest
CHECK_DEADLOCK FALSE
SYMMETRY CriteriaSymmetry
