SPECIFICATION Spec
CONSTANTS
    c1 = c1
    c2 = c2
    Controller <- TwoControllers
    MaxCycles = 2
    MaxNoProgress = 2
    MaxFaults = 2
    MaxCommands = 1
CHECK_DEADLOCK FALSE
SYMMETRY Symmetry
INVARIANTS
    TypeOK
    PublishedIsReviewed
    SnapshotIsCurrent
    OneDeveloperTurn
    TerminalOwnsNothing
    NeverRecreated
    WorktreeAtHead
    SuccessIsReal
PROPERTIES
    ImplementsContract
