SPECIFICATION Spec
CONSTANTS
    v1 = v1
    v2 = v2
    NoValue = NoValue
    Value <- MCValue
    Capacity = 2
    PositionModulus = 8
SYMMETRY Symmetry
INVARIANTS
    TypeOK
    NoSlotRace
    CachesLagBehind
    HighWaterMarkCovers
PROPERTY ImplementsFifo
