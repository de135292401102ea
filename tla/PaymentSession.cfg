SPECIFICATION FairSpec
CONSTANTS
    Payments = {y1, y2}
    RemoteOrders = {x1, x2}
    Workers = {p1, p2}
    NoPayment = NoPayment
    NoRemote = NoRemote
    MaxPolls = 2
    MaxCrashes = 1
INVARIANTS
    TypeOK
    OneCreatePerAttempt
    SessionsNameTheirOrder
    OneActiveAttempt
PROPERTIES
    CaptureStands
    LostResponseIsRecovered
CHECK_DEADLOCK FALSE
