SPECIFICATION Safety
CONSTANTS
  k1 = k1
  a1 = a1
  r1 = r1
  s1 = s1
  s2 = s2
  Informers = {}
  AdminCalls = {a1}
  RpcCalls = {r1}
  Streams = {s1, s2}
  Slow = {}
  InstanceId <- OnePlane
  Events <- MCScale
  MaxEvents = 0
  Invalid = {2}
  LastFile = 3
INVARIANTS SnapshotsAreGenuine NoGhostSubscriber
CHECK_DEADLOCK FALSE
