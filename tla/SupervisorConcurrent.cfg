CONSTANTS
    p1 = p1
    p2 = p2
    t1 = t1
    a = a
    NoTask = NoTask
    Procs <- MCTwoProcs
    Tasks <- MCTasks
    Paths <- MCNoPaths
    NumChecks = 1
    Limits = {1}
    MaxNoChange = 0
    HasBudget = FALSE
    RequireRepoChange = FALSE
    MaxRuns = 2
    MaxCancels = 1
    MaxRecovers = 1
    MaxEdits = 0
SPECIFICATION Spec
CHECK_DEADLOCK FALSE
INVARIANTS
    DoneOnlyAfterVerification
    NoRowForStoppedAgent
    CompletionInv
PROPERTIES
    ImplementsGate
