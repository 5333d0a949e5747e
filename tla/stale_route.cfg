SPECIFICATION DeployedSpec
CONSTANTS
  b1 = b1
  b2 = b2
  b3 = b3
  c1 = c1
  r1 = r1
  Boot = {b1, b2}
  TargetOf <- MCTargetOf
  Withholds = {}
  Reconnects = {b1}
  Cut = {b1}
  Mortal = {}
  Home = {b1}
  Gateways = {1, 2}
  Client = {c1}
  RequestOf <- MCRequestOf
  Replayable = {}
  Attempt = {k1}
  MaxAttempts = 1
  MaxSends = 1
  None = None
INVARIANTS
  AcceptedFromItsWorkerAlways
CHECK_DEADLOCK FALSE
