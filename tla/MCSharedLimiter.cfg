CONSTANTS
  g1 = g1
  g2 = g2
  r1 = r1
  r2 = r2
  NoKey = NoKey
  Gateways = {g1, g2}
  Requests = {r1, r2}
  At <- MCAt
  One = 3
  Policies <- MCPolicies
  BucketGrace = 2
  WindowGrace = 1
  Skew <- MCSkew
  Spread = 1
  Second = 2
  MaxDelay = 1
  MaxBack = 3
  MaxTime = 6
SPECIFICATION SharedSpec
INVARIANTS SharedTypeOK WindowLimit TokenBudget
PROPERTIES RetryIsEnough
CHECK_DEADLOCK FALSE
