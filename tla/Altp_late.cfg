SPECIFICATION Spec

CONSTANTS
    Length = 3
    MaxConns = 2
    Oversized = {}
    Empty = {}
    BatchBound = 2
    QueueKinds = {"disk"}
    SenderCrashes = FALSE
    Threaded = TRUE
    PartialAck = FALSE
    Window = 2
    MaxTimeouts = 0
    MaxCrashes = 0

INVARIANTS
    ReleasedIsDurable

CHECK_DEADLOCK FALSE
