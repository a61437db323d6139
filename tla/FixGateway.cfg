SPECIFICATION FairSpec
CONSTANTS
    NewOrderSingle <- MCNewOrderSingle
    MaxQuantity = 2
    MaxOrders = 2
    MaxRequests = 3
INVARIANTS
    TypeOK
    FillsReported
    CurrentNameWorks
PROPERTIES
    DoneIsDone
    EveryRequestAnswered
CHECK_DEADLOCK FALSE
