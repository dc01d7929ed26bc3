SPECIFICATION FairSpec
CONSTANTS
    KeyOf <- ThreeMessages
    BatchLines = 2
    BatchBytes = 0
    BatchTimeout = TRUE
    BatchIdleTimeout = TRUE
    FlushOnKeyChange = TRUE
    Throttle = 1
    RetriesOnErrorMax = 2
    RetriesMax = 2
    SlotFails = FALSE
    MaxFaults = 2
    MaxReloads = 1
INVARIANTS RequestIsBatch WrittenWasDelivered OneKeyPerRequest NoStaleCallback
PROPERTIES EveryMessageLeaves ExitIsHonoured
CHECK_DEADLOCK FALSE
