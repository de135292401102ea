SPECIFICATION FairSpec
CONSTANTS
    Warehouses = {w1}
    o1 = o1
    l1 = l1
    k1 = k1
    k2 = k2
    Skus = {k1}
    Reservations = {r1}
    Orders = {o1}
    Lines = {l1}
    LineOrder <- MCLineOrder
    LineSku <- MCLineSku
    LineQty <- MCLineQty
    NoLine = NoLine
    NoItem = NoItem
    NoOrder = NoOrder
    NoPayment = NoPayment
    NoEvent = NoEvent
    MaxQty = 1
    InitialStock = 2
    Payments = {y1}
    Workers = {p1}
    MaxCrashes = 1
PROPERTY
    CapturedIsFinalized
CHECK_DEADLOCK FALSE
