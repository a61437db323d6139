SPECIFICATION Spec
CONSTANTS
    o1 = o1
    o2 = o2
    o3 = o3
    NoOrder = NoOrder
    OrderId <- MCOrderId
    Price <- MCPrice
    MaxQuantity = 3
    QuantityModulus = 4
SYMMETRY Symmetry
INVARIANT LevelQuantityConsistent
