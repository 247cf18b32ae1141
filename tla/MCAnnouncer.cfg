\* The bounded run ends once MaxTurns changes were announced; a deadlock on
\* the way there is what the liveness property reports.
SPECIFICATION FairSpec
CHECK_DEADLOCK FALSE
CONSTANTS
    Procs = {p1, p2, p3}
    MaxTurns = 4
    MaxJobs = 2
PROPERTIES
    HeardInOrder
    EveryChangeHeard
