SPECIFICATION Spec
CONSTANTS
    Ids = {j1, j2}
    StableIds = {}
    Keys = {k1}
    KeyOf <- OneKey
    Workers = {w1, w2, w3}
    NoWorker = NoWorker
    PoolSizes = {1, 2}
    BatchSizes = {2}
    MaxAttempts = 1
    DeadLetterMax = 1
    Persistent = TRUE
    StartAlone = TRUE
    MaxEnqueues = 1
    MaxGen = 0
    MaxGeneration = 1
    MaxCrashes = 1
SYMMETRY Symmetry
INVARIANTS
    NoJobStranded
    PoolHasItsSize
PROPERTIES
    ReplayLosesNothing
