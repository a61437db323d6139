SPECIFICATION Spec
CONSTANTS
    NewOrderSingle <- MCNewOrderSingle
    MaxQuantity = 2
    MaxOrders = 2
    MaxRequests = 3
INVARIANT QuantityExceedsFilled
CHECK_DEADLOCK FALSE
