\* Two runs of one issue, one command at a time, failing anywhere.
SPECIFICATION Spec
CONSTANTS
    r1 = r1
    r2 = r2
    f1 = f1
    f2 = f2
    Procs <- MCProcs
    Runs <- MCRuns
    Paths <- MCPaths
    Changed <- MCChanged
    Branches <- MCBranches
    Base = "main"
    Derived <- MCDerived
    MaxEdits = 1
    MaxBaseMoves = 1
    MaxPullRequests = 2
SYMMETRY Interchange
INVARIANTS
    TypeOK
    PullRequestCarriesTheRun
    OnePullRequestPerRun
PROPERTIES
    DeliveryKept
    CommitIsOfTheRun
    RecordedPullRequestIsKept
