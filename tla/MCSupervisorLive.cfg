SPECIFICATION FairSpec
CONSTANTS
    Procs = {p1}
    Users = {u1}
    Kinds = {"reset", "delete"}
    None = None
    CrashLimit = 2
    MaxSups = 2
    MaxPid = 3
    MaxMishaps = 2
PROPERTY EverythingIsAnswered
CONSTRAINT Whole
CHECK_DEADLOCK FALSE
