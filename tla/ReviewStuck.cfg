SPECIFICATION ReviewFairSpec
CONSTANTS
    ReviewIds = {v1}
    Moderators = {m1, m2}
    NoReview = NoReview
    MaxEdits = 2
PROPERTIES
    PendingIsDecided
CHECK_DEADLOCK FALSE
