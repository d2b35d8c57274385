CONSTANTS
    HasStrip = TRUE
    CanPackage = TRUE
    MaxRev = 2
    MaxTime = 3
SPECIFICATION Spec
INVARIANTS
    TypeOK
    ConfiguredAlike
    UploadsWhatItSays
    CleanBuildsCanPackage
