SPECIFICATION Spec
CONSTANTS
    Tasks = {t1}
    Reviews = {t1}
    Instances = {i1, i2}
    Procs = {p1, p2}
    NoTask = NoTask
    NoInst = NoInst
    NoProc = NoProc
    MaxConcurrent = 2
    MinIdle = 1
    MaxRetries = 1
    MaxGen = 2
    MaxAuth = 2
    MaxCrash = 1
    Faults = TRUE
SYMMETRY Symmetry
INVARIANTS TypeOK AtMostOneEffect LiveProcessOnRecord NoOverlap StopIsReal
PROPERTIES TerminalOnlyRetried StaleLifecycleSilent CompletedTurnEnded SupersededStaysDown EffectsContract
CHECK_DEADLOCK FALSE
