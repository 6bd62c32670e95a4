SPECIFICATION FairSpec
CONSTANTS
  speedA = speedA
  speedB = speedB
  other = other
  Keys <- TwoKeys
  Deltas <- AllDeltas
  ContextOf <- MCContextOf
  MetaOf <- MCMetaOf
  SendMeta = FALSE
  EnterThreshold = 1
  ExitThreshold = 0
  MaxBufferSize = 0
  MaxBufferCheckTime = 0
  HighWaterMark = 2
  BypassLimit = 0
  MaxValue = 2
  MaxTime = 1
PROPERTIES
  RecoversFromBackpressure
CHECK_DEADLOCK FALSE
