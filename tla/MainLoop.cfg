SPECIFICATION FairSpec
CONSTANTS
    NumPartitions = 2
    BatchSize = 2
    LogFetchLimit = 1
    PartitionKey = TRUE
    HashOf <- Keys
    Threaded = {t1}
    Readers = {r1}
    InitWindow = 2
    AutoClose = FALSE
    KeepAlive = TRUE
    MaxPosts <- Posts
    MaxReloads = 1
INVARIANTS
    SubmitsIdleJobs
    KeyOrderIsKept
PROPERTIES
    ActionsRunWithWorkersStopped
    ReloadEnds
    ShutdownEnds
    EveryMessageIsPassedOn
CHECK_DEADLOCK FALSE
