CONSTANTS
    Projects = {p}
    Platforms = {a, b}
    Compiles <- AllCompile
    Android = {a}
    Daily = {p}
    Patched = {p}
    Builders = {w1, w2}
    Forced = {"build"}
    MaxRev = 3
    MaxForce = 0
    MaxNight = 1
    MaxFail = 0
    MaxCut = 0
SPECIFICATION FairSpec
PROPERTIES
    FetcherComesFree
    ChangesAreFetched
