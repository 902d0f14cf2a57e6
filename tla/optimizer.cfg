SPECIFICATION Spec
CONSTANTS
    b1 = b1
    o1 = o1
    Cases <- MCCases
    Members <- MCMembers
    Listed <- MCNone
    Expects <- MCExpects
    Weight <- MCWeight
    Unit = 2
    Required <- MCRequired
    MaxDrop <- MCMaxDrop
    FailOnNew = TRUE
    Runs <- MCRuns
    Workspaces <- MCOpts
    Opts <- MCOpts
    Observations <- MCObservations
    Baselines <- MCBaselines
    Paths <- MCPaths
    Configs <- MCConfigs
    Overlapping = FALSE
INVARIANTS
    TypeOK
    KeptIsImprovement
    EvidenceIsOfTheRecord
    WorkspaceIsReclaimed
PROPERTIES
    GateHolds
    FinishedRunsAreKept
    VerdictIsFinal
