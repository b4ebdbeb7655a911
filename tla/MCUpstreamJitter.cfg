CONSTANTS
  q1 = q1
  q2 = q2
  Requests = {q1, q2}
  Configured <- MCConfigured
  Hash <- MCHash
  Algorithms = {"wrr"}
  VirtualNodes = 1
  MaxAttempts = 2
  Backoff = 8
  Nanos = {0, 3}
  Samples = {10}
  Word = 256
  NoEndpoint = NoEndpoint
SPECIFICATION Spec
CHECK_DEADLOCK FALSE
INVARIANTS JitterWithinQuarter
