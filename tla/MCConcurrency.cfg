CONSTANTS
  a1 = a1
  a2 = a2
  a3 = a3
  b1 = b1
  b2 = b2
  Global = "global"
  Requests <- MCRequests
  Routes <- MCRoutes
  Capped <- MCCapped
  RouteOf <- MCRouteOf
  Limit <- MCLimit
SPECIFICATION FairSpec
INVARIANTS TypeOK PermitConservation
PROPERTIES AcquireEnds QueuedGetsTurn ImplementsAdmission
