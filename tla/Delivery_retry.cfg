SPECIFICATION Spec
CONSTANTS
    c1 = c1
    c2 = c2
    Controller <- OneController
    MaxCycles = 2
    MaxNoProgress = 2
    MaxFaults = 1
    MaxCommands = 1
CHECK_DEADLOCK FALSE
INVARIANTS
    RetryKeepsSubject
