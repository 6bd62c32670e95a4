SPECIFICATION Spec
CONSTANTS
  top = top
  rawTop = rawTop
  backup = backup
  unlisted = unlisted
  speed = speed
  NoSource = NoSource
  Paths = {speed}
  EventPaths = {}
  Refs <- MCRefs
  CanonicalOf <- MCCanonicalOf
  IdentityOf <- MCIdentityOf
  Configs <- TwoGroupsOnly
  FallbackMs = 2
  UnknownSourceTimeout = 1
  MaxAge = 3
PROPERTIES
  ClaimedPathKeepsRanking
