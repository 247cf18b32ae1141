\* A Close that hangs is what CloseReturns reports, and no step is left after it.
SPECIFICATION FairSpec
CHECK_DEADLOCK FALSE
CONSTANTS
    Ids = {j1, j2}
    StableIds = {}
    Keys = {k1}
    KeyOf <- OneKey
    Workers = {w1}
    NoWorker = NoWorker
    PoolSizes = {1}
    BatchSizes = {1, 2, 3}
    MaxAttempts = 2
    DeadLetterMax = 1
    Persistent = FALSE
    StartAlone = TRUE
    MaxEnqueues = 1
    MaxGen = 1
    MaxGeneration = 0
    MaxCrashes = 0
INVARIANTS
    NoJobStranded
    DrainedMeansSettled
    DeadListExact
    ClosedIsQuiet
PROPERTIES
    EveryJobSettles
    CloseReturns
    LifecycleRefined
