CONSTANTS
  Connections = {c1, c2}
  Requests = {q1, q2}
  None = None
  MaxBody = 1
  Refusals = {"MissingToken"}
  Replies <- MCReplies
  DrainTicks = 2
  TlsFiles = {"cert", "key"}
  Policies = {"p", "q"}
SPECIFICATION Spec
CHECK_DEADLOCK FALSE
INVARIANTS NoRequestCut
