\* A Close that hangs is what EditsAreCommitted and FlushCommits report.
SPECIFICATION FairSpec
CHECK_DEADLOCK FALSE
CONSTANTS
    e1 = e1
    e2 = e2
    e3 = e3
    a = a
    b = b
    repo = repo
    Edits = {e1, e2, e3}
    Keys = {a, b}
    KeyOf <- KeysOf
    Repos = {repo}
    RepoOf <- OneRepo
    Callbacks = {t1}
    Callers = {c1, c2}
    Closers = {c1}
    NoOne = NoOne
INVARIANTS
    OneCommitPerRepo
    CloseIsQuiet
PROPERTIES
    FlushCommits
    DebounceHonoured
    EditsAreCommitted
