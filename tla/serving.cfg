SPECIFICATION DeployedFairSpec
CONSTANTS
  b1 = b1
  b2 = b2
  b3 = b3
  c1 = c1
  r1 = r1
  Boot = {b1, b2, b3}
  TargetOf <- MCTargetOf
  Withholds = {b2}
  Reconnects = {}
  Cut = {b1}
  Mortal = {b2}
  Home = {b1}
  Gateways = {1, 2}
  Client = {c1}
  RequestOf <- MCRequestOf
  Replayable = {}
  Attempt = {k1}
  MaxAttempts = 1
  MaxSends = 2
  None = None
INVARIANTS
  TypeOK
  AcceptedFromItsWorker
  VerifiedThroughItsRoute
PROPERTIES
  
  EveryHandlerReturns
CHECK_DEADLOCK FALSE
