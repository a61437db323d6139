SPECIFICATION Spec
CONSTANTS
    c1 = c1
    c2 = c2
    s1 = s1
    s2 = s2
    o1 = o1
    o2 = o2
    NoClient = NoClient
    NoCommand = NoCommand
    Client <- MCClient
    Symbol <- MCSymbol
    OrderId <- MCOrderId
    Price <- MCPrice
    Traded <- MCTraded
    MaxQuantity = 2
    MaxOrderQuantity = 2
    MaxOrderNotional = 3
    MaxOpenOrders = 2
    MaxOpenQuantity = 3
    MaxPosition = 2
    CounterMax = 15
    PositionMax = 7
SYMMETRY Symmetry
INVARIANTS
    TypeOK
    CountersMatchBook
    PositionStaysWithinLimit
    OpenOrdersWithinLimits
PROPERTY KilledExposureOnlyShrinks
