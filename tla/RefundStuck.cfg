SPECIFICATION FairSpec
CONSTANTS
    Returns = {t1}
    Lines = {l1}
    LineQty <- MCLineQty
    Slots = {1}
    NoLine = NoLine
    MaxQty = 1
    MaxOrdered = 2
    Refunds = {f1}
    Admins = {a1, a2}
    NoReturn = NoReturn
    NoRefund = NoRefund
    MaxCrashes = 1
PROPERTIES
    ProcessingIsResolved
CHECK_DEADLOCK FALSE
