SPECIFICATION Spec

CONSTANTS
    Length = 2
    MaxConns = 2
    Oversized = {}
    Empty = {}
    BatchBound = 2
    QueueKinds = {"disk"}
    SenderCrashes = TRUE
    Threaded = FALSE
    PartialAck = TRUE
    Window = 2
    MaxTimeouts = 1
    MaxCrashes = 1

INVARIANTS

PROPERTIES
    NoMessageLost

CHECK_DEADLOCK FALSE
