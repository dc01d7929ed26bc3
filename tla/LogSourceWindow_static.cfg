SPECIFICATION FairSpec
CONSTANTS
  c1 = c1
  c2 = c2
  d1 = d1
  d2 = d2
  Sources <- TwoSources
  AckThreads <- TwoDestinations
  InitWindow = 4
  PoolSize = 0
  BatchSize = 100
  Suspends = FALSE
  Closes = TRUE
  MaxTicks = 0
INVARIANTS WithinFullWindow
PROPERTIES SourceResumes
