CONSTANTS
  r1 = r1
  r2 = r2
  None = None
  Requests = {r1, r2}
  Publications <- MCPublications
  Audience = {"api"}
  Issuers = {}
  Ttl = 1
  MtlsRequired = FALSE
  MaxFetch = 1
  LowerCase <- MCLowerCase
  Blank = {"", " "}
  Configs <- MCConfigs
  Shapes <- MCShapes
SPECIFICATION Spec
INVARIANTS TypeOK MatchFollowsPrecedence RouterFollowsConfig
PROPERTIES OnlyAuthorised RefreshedOnce
SYMMETRY MCSymmetry
