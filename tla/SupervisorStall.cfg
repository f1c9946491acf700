CONSTANTS
    p1 = p1
    p2 = p2
    t1 = t1
    a = a
    NoTask = NoTask
    Procs <- MCOneProc
    Tasks <- MCTasks
    Paths <- MCPaths
    NumChecks = 1
    Limits = {3}
    MaxNoChange = 2
    HasBudget = FALSE
    RequireRepoChange = FALSE
    MaxRuns = 1
    MaxCancels = 0
    MaxRecovers = 0
    MaxEdits = 2
SPECIFICATION Spec
CHECK_DEADLOCK FALSE
INVARIANTS
    StalledMeansNoChange
