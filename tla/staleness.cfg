SPECIFICATION FairStaleSpec
CONSTANTS
  top = top
  backup = backup
  depth = depth
  NoSource = NoSource
  NoValue = NoValue
  Paths = {depth}
  EventPaths = {}
  Refs <- MCRefs
  CanonicalOf <- SameRef
  IdentityOf <- SameRef
  Configs <- SomeConfigs
  BaseTimeout <- ShortTimeout
  FallbackMs = 2
  UnknownSourceTimeout = 1
  MaxAge = 3
INVARIANTS
  StaleTypeOK
  BlankMeansSilent
  NoStaleWinner
  DisplayCanExpire
PROPERTIES
  BlankAfterFailover
  NothingStaleOnDisplay
  ReplayFollowsWinner
