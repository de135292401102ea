SPECIFICATION Spec
CONSTANTS
    Warehouses = {w1, w2}
    Skus = {k1}
    Reservations = {r1, r2}
    Requests = {p1}
    o1 = o1
    Orders = {o1}
    Lines = {l1, l2}
    LineOrder <- MCLineOrder
    NoLine = NoLine
    NoItem = NoItem
    NoReservation = NoReservation
    MaxQty = 2
    MaxStock = 2
INVARIANTS
    TypeOK
    StockBalance
PROPERTIES
    ImplementsPool
SYMMETRY MCSymmetry
CHECK_DEADLOCK FALSE
