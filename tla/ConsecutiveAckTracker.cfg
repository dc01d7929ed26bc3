SPECIFICATION FairSpec
CONSTANTS
  d1 = d1
  d2 = d2
  reader = reader
  Threads <- TwoDestinations
  SourceThread = reader
  Window = 2
  Length = 4
  Drops = TRUE
  MaxRestarts = 1
CHECK_DEADLOCK FALSE
INVARIANTS RecordsNotMixedUp WindowMatchesRecords
PROPERTIES BookmarkPromise 
