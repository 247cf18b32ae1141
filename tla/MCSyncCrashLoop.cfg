SPECIFICATION Spec
CONSTANTS
    Ids = {j1}
    StableIds = {}
    Keys = {k1}
    KeyOf <- OneKey
    Workers = {w1}
    NoWorker = NoWorker
    PoolSizes = {1}
    BatchSizes = {1}
    MaxAttempts = 1
    DeadLetterMax = 2
    Persistent = TRUE
    StartAlone = TRUE
    MaxEnqueues = 1
    MaxGen = 0
    MaxGeneration = 0
    MaxCrashes = 1
INVARIANTS
    CallsWithinBudget
