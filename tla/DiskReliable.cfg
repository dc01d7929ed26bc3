SPECIFICATION Spec
CONSTANTS
    Reserved = 1
    TruncatePercent = 10
    Capacities <- TwoCapacities
    FlowControlBytes = 3
    FrontCacheSizes <- NoneAndOne
    Sizes <- OneAndTwo
    Undecodable <- None
    MaxMessages = 4
    MaxTroubles = 2
INVARIANTS InflightIsBacklog ListsShadowFile AckedIsDurable NothingIsForgotten
CHECK_DEADLOCK FALSE
PROPERTIES ImplementsDurableQueue 
