CONSTANTS
    Paths = {1, 2}
    Names = {a}
    Pages = {x}
    Threads = 2
    MaxWork = 4
    MaxVersion = 3
    Debug = TRUE
SPECIFICATION FairSpec
CHECK_DEADLOCK FALSE
INVARIANTS
    TypeOK
    StaleAnswersAreFew
    EachWorkIsListed
PROPERTY RunIsReported
