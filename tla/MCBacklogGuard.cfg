SPECIFICATION Spec
CONSTANTS
    Processes = {server, cli}
    Titles = {1}
    Seeds = {{}}
    SeedWrites = 0
    Blocks = {}
    Arrivals = {}
    MaxNumber = 3
    MaxWrites = 2
    MaxPulls = 0
    MaxFailures = 0
INVARIANT NothingIsOverwritten
CHECK_DEADLOCK FALSE
