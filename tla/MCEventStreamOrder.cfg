CONSTANTS
    p1 = p1
    p2 = p2
    null = null
    Publishers = {p1, p2}
    RingCapacity = 2
    ClientBuffer = 2
    ControlBuffer = 1
    NoSeq = null
    MaxEvents = 3
    MaxConns = 2
    MaxRestarts = 0
SPECIFICATION StreamSpec
INVARIANTS ResumeCatchesUp
