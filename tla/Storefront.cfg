SPECIFICATION MCSpec
CONSTANTS
    Customers = {u1}
    Carts = {i1, i2, i3}
    Orders = {o1, o2}
    Keys = {k1}
    Requests = {r1, r2}
    NoCustomer = NoCustomer
    NoCart = NoCart
    NoKey = NoKey
    MaxCartQty = 2
    Stock = 3
    UsageLimit = 1
    PerCustomerLimit = 1
    MaxAsked = 2
    Categories = {i1, i2, i3}
    Root = Root
    Curators = {r1, r2}
    MaxAncestors = 2
    ReviewIds = {v1}
    Moderators = {r1, r2}
    NoReview = NoReview
    MaxEdits = 2
    Wishes = {o1, o2}
    Movers = {r1, r2}
    NoWish = NoWish
    LineIds = {l1, l2}
    Labels = {"a", "b"}
    Prices = {1, 10, 11}
    Quantities = {1, 2}
    Shippings = {0, 5}
    Promotions <- MCPromotions
    Tokens = {t1, t2, t3}
    Tabs = {b1, b2}
    Refreshes = {r1, r2}
    NoToken = NoToken
    NoTab = NoTab
INVARIANTS
    CheckoutTypeOK
    OrderedOnce
    CouponWithinLimits
    TreeStaysATree
    DecisionStands
    MoveIsAllOrNothing
    MoneyAddsUp
    StaysSignedIn
SYMMETRY MCSymmetry
CHECK_DEADLOCK FALSE
