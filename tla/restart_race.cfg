SPECIFICATION Spec
CONSTANTS
  b1 = b1
  b2 = b2
  b3 = b3
  Slot = {s1}
  Boot = {b1, b2, b3}
  TargetOf <- MCTargetOf
  Attempt = {t1, t2}
  Saver = {}
  Barriers = {}
  Checkpointing = TRUE
  PlanUnassigned = FALSE
  MaxAssignmentId = 2
  MaxEpoch = 2
  ArgumentsInOrder = TRUE
  None = None
SYMMETRY Symmetry
INVARIANTS
  OnlyCommittedIsCurrent
  RouteNotBehindAssignment
  SavedFileLoads
  RecordedMilestoneHolds
CHECK_DEADLOCK FALSE
