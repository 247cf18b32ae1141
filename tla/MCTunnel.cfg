\* The bounded run ends when its generations are used up.
SPECIFICATION FairSpec
CHECK_DEADLOCK FALSE
CONSTANTS
    Callers = {c1, c2}
    NoOne = NoOne
    Indexes = {0}
    EventBuffer = 1
    MaxGen = 3
    MaxEvents = 2
INVARIANTS
    NothingOutOfHand
    SettledTruth
PROPERTIES
    DeathReported
