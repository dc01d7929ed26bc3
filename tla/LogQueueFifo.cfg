SPECIFICATION FairSpec
CONSTANTS
    t1 = t1
    s1 = s1
    InputThreads <- OneFast
    SlowThreads <- OneSlow
    LogFifoSize = 2
    Throttle = 1
    FlushCheck = 2
    InputLenRange = 65536
    RewindsAll = TRUE
    MaxMessages <- TwoOrOne
    MaxRewinds = 2
INVARIANT NoLostWakeup
INVARIANT QueuedIsLength
INVARIANT NoStrandedInput
INVARIANT EveryMessageInOnePlace
INVARIANT LimitExceededOnlyByRewind
PROPERTIES OrderLostOnlyByRewindAll EveryMessageLeaves
