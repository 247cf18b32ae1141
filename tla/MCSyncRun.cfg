SPECIFICATION FairSpec
CHECK_DEADLOCK FALSE
CONSTANTS
    Edits = {e1, e2}
    Before = {e1}
    Others = {o1}
    Runs = {tab, cli}
    Tabs = {tab}
    Users = {user}
    Paths = {p}
    Asks <- MCAsks
    tab = tab
    cli = cli
    Backends = {"system", "go-git"}
    MaxRetries = 1
    MaxRuns = 1
    MaxCalls = 2
    Merge = Merge
INVARIANTS NothingLost ReportsAreTrue
PROPERTIES RunsEnd
