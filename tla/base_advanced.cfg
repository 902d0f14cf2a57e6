\* The code does not keep PublicationCanProceed.
SPECIFICATION Spec
CONSTANTS
    r1 = r1
    r2 = r2
    f1 = f1
    f2 = f2
    Procs <- MCProcs
    Runs <- MCOneRun
    Paths <- MCOnePath
    Changed <- MCChangedByOne
    Branches <- MCBranches
    Base = "main"
    Derived <- MCDerivedByOne
    MaxEdits = 0
    MaxBaseMoves = 1
    MaxPullRequests = 1
INVARIANTS
    PublicationCanProceed
