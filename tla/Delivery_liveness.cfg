SPECIFICATION FairSpec
CONSTANTS
    c1 = c1
    c2 = c2
    Controller <- OneController
    MaxCycles = 3
    MaxNoProgress = 2
    MaxFaults = 1
    MaxCommands = 1
CHECK_DEADLOCK FALSE
PROPERTIES
    RunStops
