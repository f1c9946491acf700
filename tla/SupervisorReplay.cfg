CONSTANTS
    p1 = p1
    p2 = p2
    t1 = t1
    a = a
    NoTask = NoTask
    Procs <- MCOneProc
    Tasks <- MCTasks
    Paths <- MCNoPaths
    NumChecks = 1
    Limits = {1}
    MaxNoChange = 0
    HasBudget = FALSE
    RequireRepoChange = FALSE
    MaxRuns = 2
    MaxCancels = 0
    MaxRecovers = 0
    MaxEdits = 0
SPECIFICATION Spec
CHECK_DEADLOCK FALSE
INVARIANTS
    EveryAgentCallIsLogged
