SPECIFICATION JournalFairSpec
CONSTANTS
    Callbacks = {c1, c2}
    Closer = Closer
    NoOne = NoOne
    Torn = Torn
    MaxChanges = 3
    MaxCrashes = 1
INVARIANTS
    JournalReadable
    NoChangeForgotten
PROPERTIES
    ChangeReachesDisk
