CONSTANTS
    r1 = r1
    r2 = r2
    s1 = s1
    s2 = s2
    a = a
    b = b
    Runners <- MCRunners
    Texts <- MCTexts
    Plans <- MCPlans
    Worktrees = 2
    Named <- MCNamed
    Syncers <- MCSyncers
    BatchSize = 2
    MaxRows = 2
    MaxTasks = 2
    MaxBegins = 2
    MaxSyncs = 2
    MaxCommands = 2
    MaxUses = 4
SPECIFICATION Spec
SYMMETRY MCSymmetry
CHECK_DEADLOCK FALSE
INVARIANTS
    TypeOK
    DoneIsAccountedFor
    NodesFollowItems
    DeadLettersAreDead
    WorktreesAreExclusive
    QueuedOncePerPlan
