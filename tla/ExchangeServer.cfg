SPECIFICATION Spec
CONSTANTS
    o1 = o1
    o2 = o2
    NoOrder = NoOrder
    NoCommand = NoCommand
    Nothing = Nothing
    OrderId <- MCOrderId
    Price <- MCPrice
    Socket <- MCSocket
    Request <- MCRequest
    QuantityModulus = 16
    MaxQuantity = 2
    MaxSessions = 2
    MaxRecords = 3
    MaxCrashes = 2
    FalseLength = 1
    MaxOrderQuantity = 2
    MaxOrderNotional = 3
    MaxOpenOrders = 2
    MaxOpenQuantity = 3
    MaxPosition = 2
    CounterMax = 15
    PositionMax = 7
SYMMETRY Symmetry
INVARIANTS
    TypeOK
    OwnersAreBooked
    RiskMatchesBook
    LimitsHold
    FeedMatchesBook
    RecoveredBook
PROPERTY OrphansOnlyTrade
CHECK_DEADLOCK FALSE
