SPECIFICATION Spec
CONSTANTS
  b1 = b1
  b2 = b2
  b3 = b3
  Slot = {s1}
  Boot = {b1, b2, b3}
  TargetOf <- MCTargetOf
  Attempt = {t1}
  Saver = {p1}
  Barriers = {"OLD_ADMISSION_FENCED", "ROUTE_INSTALLED"}
  Checkpointing = FALSE
  PlanUnassigned = FALSE
  MaxAssignmentId = 1
  MaxEpoch = 2
  ArgumentsInOrder = TRUE
  None = None
SYMMETRY Symmetry
INVARIANTS
  OnlyCommittedIsCurrent
  RoutedDispatchNeedsFreshEvidence
CHECK_DEADLOCK FALSE
