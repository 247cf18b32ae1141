SPECIFICATION Spec
CONSTANTS
    Procs = {p1, p2}
    Users = {u1}
    Kinds = {"reset", "delete"}
    None = None
    CrashLimit = 2
    MaxSups = 2
    MaxPid = 3
    MaxMishaps = 2
INVARIANTS OneChild InHand
CONSTRAINT Whole
CHECK_DEADLOCK FALSE
