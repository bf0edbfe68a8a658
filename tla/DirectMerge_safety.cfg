SPECIFICATION Spec
CONSTANTS
    p1 = p1
    p2 = p2
    Publisher <- MCPublisher
    NoOne = NoOne
    MaxAttempts = 2
    MaxCount = 3
    MaxFaults = 1
    Overdue = FALSE
SYMMETRY Symmetry
CHECK_DEADLOCK FALSE
INVARIANTS
    TypeOK
    ArmedRun
    OneWriter
    StopIsFinal
    MergedIsTrue
    OwnMergeKept
    BudgetKept
PROPERTIES
    LeaseRespected
    ImplementsContract
