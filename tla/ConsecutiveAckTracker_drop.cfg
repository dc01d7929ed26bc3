SPECIFICATION Spec
CONSTANTS
  d1 = d1
  d2 = d2
  reader = reader
  Threads <- OneDestination
  SourceThread = reader
  Window = 2
  Length = 4
  Drops = TRUE
  MaxRestarts = 0
CHECK_DEADLOCK FALSE
INVARIANTS RecordForEveryMessage
