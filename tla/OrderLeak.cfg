SPECIFICATION Spec
CONSTANTS
    Warehouses = {w1}
    o1 = o1
    l1 = l1
    k1 = k1
    k2 = k2
    Skus = {k1}
    Reservations = {r1, r2}
    Orders = {o1}
    Lines = {l1}
    LineOrder <- MCLineOrder
    LineSku <- MCLineSku
    LineQty <- MCLineQty
    NoLine = NoLine
    NoItem = NoItem
    NoOrder = NoOrder
    NoPayment = NoPayment
    NoEvent = NoEvent
    MaxQty = 1
    InitialStock = 2
    Payments = {y1}
    Workers = {p1, p2}
    MaxCrashes = 0
INVARIANT
    CommittedMeansConfirmed
SYMMETRY MCSymmetry
CHECK_DEADLOCK FALSE
