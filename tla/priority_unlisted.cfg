SPECIFICATION Spec
CONSTANTS
  top = top
  rawTop = rawTop
  backup = backup
  unlisted = unlisted
  speed = speed
  NoSource = NoSource
  Paths = {speed}
  EventPaths = {}
  Refs <- MCRefs
  CanonicalOf <- MCCanonicalOf
  IdentityOf <- MCIdentityOf
  Configs <- OneConfig
  FallbackMs = 3
  UnknownSourceTimeout = 2
  MaxAge = 4
PROPERTIES
  UnlistedWaitsForAllListed
