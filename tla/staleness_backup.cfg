SPECIFICATION StaleSpec
CONSTANTS
  top = top
  backup = backup
  depth = depth
  NoSource = NoSource
  NoValue = NoValue
  Paths = {depth}
  EventPaths = {}
  Refs <- MCRefs
  CanonicalOf <- SameRef
  IdentityOf <- SameRef
  Configs <- OneConfig
  BaseTimeout <- ShortTimeout
  FallbackMs = 2
  UnknownSourceTimeout = 1
  MaxAge = 3
PROPERTIES LiveValueStays
