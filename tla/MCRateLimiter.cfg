SPECIFICATION LimiterFairSpec
CONSTANTS
    Callers = {w1, w2}
    Unit = 3
    Rates = {0, 1, 2, 4}
    Bursts = {1, 2}
    BatchSizes = {1}
    WindowLength = 3
INVARIANTS
    RateKept
PROPERTIES
    WaitersServed
