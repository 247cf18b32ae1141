SPECIFICATION RSpec
CONSTANTS
    server = server
    Processes = {server, cli}
    Doctor = cli
    Titles = {1, 2}
    Blocks <- MCBlocks
    Seeds <- MCSeeds
    Arrivals <- MCArrivals
    SeedWrites = 4
    MaxNumber = 4
    MaxWrites = 6
    MaxPulls = 1
    MaxFailures = 1
INVARIANTS
    NoClashOfItsOwn
    NoOwnLoss
    RenumberIsAtomic
    OldIdsResolve
CHECK_DEADLOCK FALSE
CONSTRAINT Faults
