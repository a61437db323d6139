SPECIFICATION Spec
CONSTANTS
    o1 = o1
    o2 = o2
    o3 = o3
    NoOrder = NoOrder
    OrderId <- MCOrderId
    Price <- MCPrice
    MaxQuantity = 2
    QuantityModulus = 16
SYMMETRY Symmetry
INVARIANTS
    TypeOK
    IndexMatchesLevels
    NoEmptyLevel
    NotCrossed
    OnlyRestableOrdersRest
    TradesAccountForIncoming
PROPERTY ImplementsPriceTimePriority
