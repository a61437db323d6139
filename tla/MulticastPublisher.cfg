SPECIFICATION Spec
CONSTANTS
    p1 = p1
    p2 = p2
    p3 = p3
    Producer <- ThreeProducers
    ShardCount = 2
    Capacity = 2
    MaxSends <- OneSendsTwice
    MaxGenerations = 2
    StoreBuffering = TRUE
SYMMETRY SymmetryOfOthers
INVARIANTS
    PrivateQueues
    StopDrainsEarlierSends
PROPERTY
    InOrder
CHECK_DEADLOCK FALSE
