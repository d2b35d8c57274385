CONSTANTS
    Platforms = {a}
    OldPlatforms = {z}
    KeepBuilds = 1
    ObsoleteAge = 1
    CleanupUnknown = {TRUE}
    Canonical = TRUE
    MaxRev = 3
    MaxTime = 4
SPECIFICATION Spec
INVARIANT CleanSucceeds
