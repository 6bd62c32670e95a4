SPECIFICATION Spec
CONSTANTS
  plotter = plotter
  chartApp = chartApp
  w1 = w1
  w2 = w2
  Externals <- TwoSources
  Writers <- TwoWriters
  MaxLen = 1
  MaxFetching = 1
  NoSource = NoSource
  NoRoute = NoRoute
  NoFile = NoFile
  Empty = Empty
  Torn = Torn
INVARIANTS
  ApiOnlyIsObeyed
