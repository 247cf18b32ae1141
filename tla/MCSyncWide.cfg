SPECIFICATION Spec
CONSTANTS
    Ids = {j1, j2, j3}
    StableIds = {}
    Keys = {k1}
    KeyOf <- OneKey
    Workers = {w1}
    NoWorker = NoWorker
    PoolSizes = {1}
    BatchSizes = {2}
    MaxAttempts = 2
    DeadLetterMax = 1
    Persistent = FALSE
    StartAlone = TRUE
    MaxEnqueues = 1
    MaxGen = 1
    MaxGeneration = 0
    MaxCrashes = 0
SYMMETRY Symmetry
INVARIANTS
    NoJobStranded
    DrainedMeansSettled
    DeadListExact
    AttemptsWithinBudget
    ClosedIsQuiet
PROPERTIES
    LifecycleRefined
