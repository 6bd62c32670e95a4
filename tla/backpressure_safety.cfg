SPECIFICATION FairSpec
CONSTANTS
  speedA = speedA
  speedB = speedB
  other = other
  Keys <- ThreeKeys
  Deltas <- ValueDeltas
  ContextOf <- MCContextOf
  MetaOf <- MCMetaOf
  SendMeta = TRUE
  EnterThreshold = 2
  ExitThreshold = 0
  MaxBufferSize = 3
  MaxBufferCheckTime = 1
  HighWaterMark = 2
  BypassLimit = 5
  MaxValue = 2
  MaxTime = 4
INVARIANTS
  TypeOK
  NothingLost
  MetaBeforeValue
  SendBufferBounded
  ActiveAwaitsDrain
PROPERTIES
  DestroyedOnlyAfterSustainedOverflow
  DeliversSnapshots
  NewestArrives
CHECK_DEADLOCK FALSE
