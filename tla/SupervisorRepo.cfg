CONSTANTS
    p1 = p1
    p2 = p2
    t1 = t1
    a = a
    NoTask = NoTask
    Procs <- MCOneProc
    Tasks <- MCTasks
    Paths <- MCPaths
    NumChecks = 1
    Limits = {3}
    MaxNoChange = 2
    HasBudget = TRUE
    RequireRepoChange = TRUE
    MaxRuns = 1
    MaxCancels = 1
    MaxRecovers = 0
    MaxEdits = 2
SPECIFICATION FairSpec
CHECK_DEADLOCK FALSE
INVARIANTS
    AcceptedWorkChangedTheRepo
PROPERTIES
    RunEnds
