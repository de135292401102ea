SPECIFICATION FairSpec
CONSTANTS
    Events = {e1}
    AlwaysSent = {e1}
    Replicas = {r1, r2}
    MaxAttempts <- MCMaxAttempts
    NoJob = NoJob
    MaxTroubles = 1
INVARIANTS
    WorkIsCounted
    NothingIsLost
PROPERTIES
    EveryJobSettles
CHECK_DEADLOCK FALSE
