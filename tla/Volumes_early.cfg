CONSTANTS
    Builders = {b1, b2}
    Platforms = {x, y}
    MayReload = FALSE
    ForcedFirst = FALSE
SPECIFICATION Spec
INVARIANT VolumesAreOpen
