SPECIFICATION IncarnationSpec
CONSTANTS
  b1 = b1
  b2 = b2
  b3 = b3
  Slot = {s1, s2}
  Boot = {b1, b2, b3}
  TargetOf <- MCTargetOf
  Attempt = {t1, t2}
  Saver = {}
  Barriers = {}
  Checkpointing = FALSE
  PlanUnassigned = FALSE
  MaxAssignmentId = 2
  MaxEpoch = 1
  ArgumentsInOrder = TRUE
  None = None
SYMMETRY Symmetry
INVARIANTS
  TypeOK
  SourceFencedDuringCutover
  RetiredIsFenced
PROPERTIES
  CommitsOverItsSource
  RefinesExclusiveAuthority
CHECK_DEADLOCK FALSE
