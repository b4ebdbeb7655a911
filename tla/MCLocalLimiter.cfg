CONSTANTS
  c1 = c1
  c2 = c2
  c3 = c3
  None = None
  Clients <- MCClients
  Subject <- MCSubject
  ForwardedFor <- MCForwardedFor
  RealIp <- MCRealIp
  Anonymous = "anonymous"
  One = 3
  Capacity = 6
  Rate = 2
  MaxTime = 5
SPECIFICATION LocalSpec
INVARIANTS LocalTypeOK LocalBudget
PROPERTIES DenialJustified
