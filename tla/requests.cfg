\* Two puts of one path, with two sources and two clients.
SPECIFICATION FairSpec
CONSTANTS
  Attempts = {put1, put2}
  RequestId <- UniqueIds
  Sources = {source1, source2}
  NoSource = NoSource
  Sparks = {spark1, spark2}
INVARIANTS TypeOK NoListenerLeak
PROPERTIES LateAnswerIsIgnored CompletedStays PutReachesAConnection EveryPutIsAnswered ForwardedPutEnds
