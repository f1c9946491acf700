CONSTANTS
    e1 = e1
    e2 = e2
    o1 = o1
    Executors <- MCExecutors
    Operators <- MCOperators
    Overrides <- MCOverrides
    MaxNodes = 3
    MaxItems = 2
    Batches <- MCBatches
    MaxRuns = 2
    MaxReplans = 2
    MaxCommands = 3
SPECIFICATION Spec
SYMMETRY MCSymmetry
CHECK_DEADLOCK FALSE
INVARIANTS
    TypeOK
    Acyclic
    StartsFollowDependencies
    RepairsMatchReplans
