SPECIFICATION Spec
CONSTANTS
    p1 = p1
    p2 = p2
    p3 = p3
    Producer <- TwoProducers
    ShardCount = 2
    Capacity = 1
    MaxSends <- OnceEach
    MaxGenerations = 1
    StoreBuffering = TRUE
INVARIANT NoMissedWakeup
CHECK_DEADLOCK FALSE
