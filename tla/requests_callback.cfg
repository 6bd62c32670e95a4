\* A handler calls back before its result was taken.
SPECIFICATION Spec
CONSTANTS
  Attempts = {put1, put2}
  RequestId <- UniqueIds
  Sources = {source1, source2}
  NoSource = NoSource
  Sparks = {spark1, spark2}
INVARIANT CallbackCompletes
