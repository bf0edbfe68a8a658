SPECIFICATION FairSpec
CONSTANTS
    p1 = p1
    p2 = p2
    Publisher <- OnePublisher
    NoOne = NoOne
    MaxAttempts = 1
    MaxCount = 2
    MaxFaults = 1
    Overdue = TRUE
CHECK_DEADLOCK FALSE
PROPERTIES
    ClaimSettles
    MergedIntentEnds
