SPECIFICATION Spec
CONSTANTS
    e1 = e1
    e2 = e2
    e3 = e3
    a = a
    b = b
    repo = repo
    Edits = {e1}
    Keys = {a, b}
    KeyOf <- KeysOf
    Repos = {repo}
    RepoOf <- OneRepo
    Callbacks = {t1, t2}
    Callers = {c1, c2}
    Closers = {c1, c2}
    NoOne = NoOne
INVARIANTS
    CloseIsQuiet
