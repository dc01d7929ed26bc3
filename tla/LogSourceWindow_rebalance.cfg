SPECIFICATION Spec
CONSTANTS
  c1 = c1
  c2 = c2
  d1 = d1
  d2 = d2
  Sources <- TwoSources
  AckThreads <- OneDestination
  InitWindow = 1
  PoolSize = 2
  BatchSize = 100
  Suspends = TRUE
  Closes = FALSE
  MaxTicks = 2
CHECK_DEADLOCK FALSE
INVARIANTS NoSlotLost  
