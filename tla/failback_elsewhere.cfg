SPECIFICATION Spec
CONSTANTS
  None = None
  d1 = d1
  d2 = d2
  e1 = e1
  Target = {1, 2, 3}
  Domain = {d1, d2}
  Guard = 3
  Service <- MCService
  Home = 1
  HomeBoot = 11
  Readiness <- ElsewhereReadiness
  Declaration = {}
  Membership = {}
  Event = {}
  EventTarget <- SelectionEventTarget
  Report = {}
  Handler = {k1}
  Requests = {"failover", "failback", "authorize"}
  MaxTargets = 4
  MaxCandidates = 4
  Publisher = {p1}
  MaxNow = 2
  MaxReceipts = 1
  MaxCutovers = 2
PROPERTIES
  FailbackReachesHome
CHECK_DEADLOCK FALSE
