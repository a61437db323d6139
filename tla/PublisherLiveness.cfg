SPECIFICATION FairSpec
CONSTANTS
    p1 = p1
    p2 = p2
    p3 = p3
    Producer <- TwoProducers
    ShardCount = 2
    Capacity = 1
    MaxSends <- OneSendsTwice
    MaxGenerations = 1
    StoreBuffering = FALSE
INVARIANTS
    TypeOK
    TakenOnce
    NoMissedWakeup
PROPERTIES
    QueuedIsSent
    StopReturns
CHECK_DEADLOCK FALSE
