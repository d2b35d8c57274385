CONSTANTS
    Platforms = {a}
    OldPlatforms = {z}
    KeepBuilds = 1
    ObsoleteAge = 2
    CleanupUnknown = {TRUE, FALSE}
    Canonical = TRUE
    MaxRev = 3
    MaxTime = 5
SPECIFICATION Spec
INVARIANT TypeOK
PROPERTIES
    PublishedStays
    NothingRecentIsLost
    CleanTidiesUp
