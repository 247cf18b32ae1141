SPECIFICATION FairSpec
CONSTANTS
    Ids = {j1}
    StableIds = {}
    Keys = {k1}
    KeyOf <- OneKey
    Workers = {w1}
    NoWorker = NoWorker
    PoolSizes = {1}
    BatchSizes = {2}
    MaxAttempts = 1
    DeadLetterMax = 2
    Persistent = FALSE
    StartAlone = FALSE
    MaxEnqueues = 1
    MaxGen = 0
    MaxGeneration = 0
    MaxCrashes = 0
CHECK_DEADLOCK FALSE
PROPERTIES
    CloseReturns
