CONSTANTS
  Connections = {c1, c2}
  Requests = {q1}
  None = None
  MaxBody = 2
  Refusals = {"MissingToken", "InvalidApiKey", "ApiKeyStore", "MissingClientCert"}
  Replies <- MCReplies
  DrainTicks = 2
  TlsFiles = {"cert", "key"}
  Policies = {"p", "q"}
SPECIFICATION Spec
CHECK_DEADLOCK FALSE
INVARIANTS CountersMatch 
PROPERTIES DrainedIsTrue SignalledExits BodiesWholeOrEmpty
