SPECIFICATION Spec
CONSTANTS
    o1 = o1
    o2 = o2
    NoOrder = NoOrder
    NoCommand = NoCommand
    Nothing = Nothing
    OrderId <- MCOrderId
    Price <- MCPrice
    Socket <- MCSocket
    Request <- MCRequest
    QuantityModulus = 16
    MaxQuantity = 1
    MaxSessions = 2
    MaxRecords = 2
    MaxCrashes = 0
    FalseLength = 1
    MaxOrderQuantity = 2
    MaxOrderNotional = 3
    MaxOpenOrders = 2
    MaxOpenQuantity = 3
    MaxPosition = 2
    CounterMax = 15
    PositionMax = 7
SYMMETRY Symmetry
INVARIANT ExecutionsArePrivate
CHECK_DEADLOCK FALSE
