SPECIFICATION FairSpec
CONSTANTS
    Tasks = {t1}
    Reviews = {}
    Instances = {i1, i2}
    Procs = {p1}
    NoTask = NoTask
    NoInst = NoInst
    NoProc = NoProc
    MaxConcurrent = 2
    MinIdle = 0
    MaxRetries = 1
    MaxGen = 2
    MaxAuth = 1
    MaxCrash = 1
    Faults = FALSE
PROPERTIES ActiveSettles RunningSlotReleased
CHECK_DEADLOCK FALSE
