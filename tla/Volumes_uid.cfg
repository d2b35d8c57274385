CONSTANTS
    Builders = {b1, b2}
    Platforms = {x, y}
    MayReload = TRUE
    ForcedFirst = FALSE
SPECIFICATION Spec
INVARIANT VolumesAreOpenInTheEnd
