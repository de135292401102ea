SPECIFICATION MCSpec
CONSTANTS
    Warehouses = {w1}
    Skus = {k1}
    Reservations = {i1, i2, i3}
    Requests = {r1, r2}
    o1 = o1
    Orders = {o1}
    Lines = {l1}
    LineOrder <- MCLineOrder
    NoLine = NoLine
    NoItem = NoItem
    NoReservation = NoReservation
    MaxQty = 1
    MaxStock = 2
    Images = {i1, i2, i3}
    Editors = {r1, r2}
    NoImage = NoImage
    MaxImages = 2
    Products = {p1}
    Variants = {v1, v2}
    Values = {a1, a2}
    Clerks = {r1, r2}
    Statuses = {"ACTIVE", "ARCHIVED"}
    NoProduct = NoProduct
    NoVariant = NoVariant
    NoValue = NoValue
INVARIANTS
    ReservedIsHeld
    CommittedIsFirm
    GalleryIsSound
    CatalogueIsWhole
PROPERTIES
    FirmHoldsAreKept
SYMMETRY MCSymmetry
CHECK_DEADLOCK FALSE
