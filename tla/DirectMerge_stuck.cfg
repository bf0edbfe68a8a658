SPECIFICATION FairSpec
CONSTANTS
    p1 = p1
    p2 = p2
    Publisher <- OnePublisher
    NoOne = NoOne
    MaxAttempts = 2
    MaxCount = 3
    MaxFaults = 0
    Overdue = FALSE
CHECK_DEADLOCK FALSE
PROPERTIES
    OutboxRecovers
