SPECIFICATION Spec
CONSTANTS
    Ids = {j1}
    StableIds = {j1}
    Keys = {k1}
    KeyOf <- OneKey
    Workers = {w1, w2}
    NoWorker = NoWorker
    PoolSizes = {2}
    BatchSizes = {2}
    MaxAttempts = 1
    DeadLetterMax = 2
    Persistent = FALSE
    StartAlone = TRUE
    MaxEnqueues = 2
    MaxGen = 1
    MaxGeneration = 0
    MaxCrashes = 0
INVARIANTS
    ResultsFenced
