SPECIFICATION FairSpec
CHECK_DEADLOCK FALSE
CONSTANTS
    Paths = {p, q}
    Nested = {q}
    Pages = {q}
    Debounce = 1
    MaxWindow = 2
    KernelQueue = 2
    EventCap = 1
    MaxEdits = 3
INVARIANTS
    NothingFallsBetween
    ReadsAreFresh
PROPERTIES
    IndexFollows
