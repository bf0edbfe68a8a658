SPECIFICATION Spec
CONSTANTS
    Tasks = {t1, t2}
    Reviews = {}
    Instances = {i1, i2}
    Procs = {p1, p2}
    NoTask = NoTask
    NoInst = NoInst
    NoProc = NoProc
    MaxConcurrent = 1
    MinIdle = 1
    MaxRetries = 1
    MaxGen = 1
    MaxAuth = 1
    MaxCrash = 1
    Faults = TRUE
SYMMETRY Symmetry
INVARIANTS LiveWithinCap
CHECK_DEADLOCK FALSE
