SPECIFICATION Spec
CONSTANTS
  b1 = b1
  b2 = b2
  b3 = b3
  Slot = {s1}
  Boot = {b1, b2, b3}
  TargetOf <- MCRestartedWorker
  Attempt = {t1}
  Saver = {}
  Barriers = {}
  Checkpointing = TRUE
  PlanUnassigned = TRUE
  MaxAssignmentId = 1
  MaxEpoch = 2
  ArgumentsInOrder = TRUE
  None = None
INVARIANTS
  FenceDurableBeforeActivation
PROPERTIES
  CommitsWithItsRoute
CHECK_DEADLOCK FALSE
