\* A publisher that hangs is what PublishReturns reports.
SPECIFICATION StreamFairSpec
CHECK_DEADLOCK FALSE
CONSTANTS
    p1 = p1
    p2 = p2
    null = null
    Publishers = {p1, p2}
    RingCapacity = 2
    ClientBuffer = 1
    ControlBuffer = 1
    NoSeq = null
    MaxEvents = 4
    MaxConns = 2
    MaxRestarts = 1
INVARIANTS
    StreamComplete
    ResumeComplete
PROPERTIES
    PublishReturns
