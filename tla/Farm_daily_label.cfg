CONSTANTS
    Projects = {p}
    Platforms = {a}
    Compiles <- AllCompile
    Android = {}
    Daily = {p}
    Patched = {}
    Builders = {w1}
    Forced = {}
    MaxRev = 3
    MaxForce = 0
    MaxNight = 1
    MaxFail = 0
    MaxCut = 0
SPECIFICATION Spec
CHECK_DEADLOCK FALSE
INVARIANT DailyRevisionIsBuilt
