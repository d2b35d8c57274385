CONSTANTS
    Builders = {b1}
    Platforms = {x, y}
    MayReload = TRUE
    ForcedFirst = TRUE
SPECIFICATION Spec
INVARIANTS
    TypeOK
    SettledVolumesAreOpen
PROPERTY OpenStaysOpen
