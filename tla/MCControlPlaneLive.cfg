SPECIFICATION Spec
CONSTANTS
  k1 = k1
  a1 = a1
  r1 = r1
  s1 = s1
  s2 = s2
  Informers = {k1}
  AdminCalls = {}
  RpcCalls = {}
  Streams = {s1, s2}
  Slow = {s1}
  InstanceId <- TwoPlanes
  Events <- MCEvents
  MaxEvents = 2
  Invalid = {}
  LastFile = 2
PROPERTIES UpdatesReachEveryone StopsWhenAlone
CHECK_DEADLOCK FALSE
