SPECIFICATION FairSpec
CONSTANTS
  d1 = d1
  d2 = d2
  n1 = n1
  n2 = n2
  n3 = n3
  r12 = r12
  r23 = r23
  r13 = r13
  Dispatches = {d1, d2}
  Plate <- SamePlate
  Plates0 = {}
  Nodes = {n1, n2, n3}
  Roads = {r12, r23, r13}
  Routes <- MCRoutes
  PreemptionTicks = 1
  MaxTicks = 4
CHECK_DEADLOCK FALSE
INVARIANTS CorridorExact
PROPERTIES NotExpiredEarly EveryExpiryFires
