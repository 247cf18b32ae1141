SPECIFICATION JournalSpec
CONSTANTS
    Callbacks = {c1, c2}
    Closer = Closer
    NoOne = NoOne
    Torn = Torn
    MaxChanges = 2
    MaxCrashes = 0
INVARIANTS
    CleanShutdown
