SPECIFICATION AnySpec
CONSTANTS
    Strings <- MCStrings
    Refs = {HEAD, v1}
    Objects <- MCObjects
    SmartBodies <- MCSmartBodies
    LineBodies <- MCLineBodies
    Versions <- MCVersionSet
    NameLists <- MCNameLists
    Prefix <- MCPrefix
CHECK_DEADLOCK FALSE
INVARIANTS
    OrderIsDebian
    RefsAreComplete
    EqualIsNewest
    MessagesAreWhole
    BuildersCanBeMade
