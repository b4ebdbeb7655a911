CONSTANTS
  g1 = g1
  g2 = g2
  r1 = r1
  r2 = r2
  None = None
  Gateways = {g1, g2}
  Requests = {r1, r2}
  Values = {"a"}
  Responses <- MCResponses
  RouteTtl = 2
  Capacity = 1
  Skew <- MCSkew
  MaxDelay = 1
  MaxChanges = 2
  MaxTime = 4
SPECIFICATION Spec
INVARIANTS TypeOK PrivateStaysHome
PROPERTIES FreshEnough
CHECK_DEADLOCK FALSE
SYMMETRY MCSymmetry
