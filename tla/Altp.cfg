SPECIFICATION FairSpec

CONSTANTS
    Length = 4
    MaxConns = 2
    Oversized = {2}
    Empty = {4}
    BatchBound = 5
    QueueKinds = {"disk", "memory"}
    SenderCrashes = FALSE
    Threaded = FALSE
    PartialAck = FALSE
    Window = 2
    MaxTimeouts = 1
    MaxCrashes = 1

INVARIANTS
    ReadOnce
    ReadInOrder
    

PROPERTIES
    NoMessageLost
    EverythingReleased

CHECK_DEADLOCK FALSE
