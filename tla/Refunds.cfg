SPECIFICATION Spec
CONSTANTS
    Returns = {t1, t2}
    Lines = {l1}
    LineQty <- MCLineQty
    Slots = {1, 2}
    NoLine = NoLine
    MaxQty = 2
    MaxOrdered = 2
    Refunds = {f1, f2}
    Admins = {a1, a2}
    NoReturn = NoReturn
    NoRefund = NoRefund
    MaxCrashes = 1
INVARIANTS
    TypeOK
    ReturnsFitTheOrder
    RestockedOnce
    OneRefundPerReturn
    ClosedMeansRefunded
    BooksFitThePayment
    MoneyFitsThePayment
SYMMETRY MCSymmetry
CHECK_DEADLOCK FALSE
