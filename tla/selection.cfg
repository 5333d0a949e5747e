SPECIFICATION Spec
CONSTANTS
  None = None
  d1 = d1
  d2 = d2
  e1 = e1
  Target = {1, 2, 3}
  Domain = {d1, d2}
  Guard = 2
  Service <- MCService
  Home = 1
  HomeBoot = 11
  Readiness <- SelectionReadiness
  Declaration <- SelectionDeclaration
  Membership <- SelectionMembership
  Event = {e1}
  EventTarget <- SelectionEventTarget
  Report <- SelectionReport
  Handler = {k1}
  Requests = {}
  MaxTargets = 2
  MaxCandidates = 4
  Publisher = {p1, p2}
  MaxNow = 0
  MaxReceipts = 1
  MaxCutovers = 1
SYMMETRY Symmetry
INVARIANTS
  OverlapsIsSharedAncestor
  SelectionIgnoresOrder
  NewestFailureKept
CHECK_DEADLOCK FALSE
