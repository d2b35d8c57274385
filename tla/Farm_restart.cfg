CONSTANTS
    Projects = {p}
    Platforms = {a, b}
    Compiles <- AllCompile
    Android = {a}
    Daily = {p}
    Patched = {p}
    Builders = {w1, w2}
    Forced = {"fetch", "build", "clean"}
    MaxRev = 2
    MaxForce = 1
    MaxNight = 2
    MaxFail = 1
    MaxCut = 1
SYMMETRY WorkerSymmetry
SPECIFICATION Spec
INVARIANTS
    TypeOK
    NoWriteWhileRead
    FetchedRevisionIsBuilt
    CleanAfterDaily
    NoUploadDuringClean
    OnlyForcedBuildsShareADirectory
    OneAndroidBuild
PROPERTIES
    LabelsHold
    ImplementsFetchThenBuild
