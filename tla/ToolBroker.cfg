CONSTANTS
    b1 = b1
    b2 = b2
    w1 = w1
    NoWork = NoWork
    Brokers <- MCBrokers
    Works <- MCWorks
    Classes <- MCClasses
    Policies <- MCPolicies
    MaxCalls = 3
    MaxRequests = 2
    MaxDepth = 1
    MaxEdits = 1
    MaxDecisions = 1
    MaxSweeps = 1
SPECIFICATION Spec
SYMMETRY MCSymmetry
CHECK_DEADLOCK FALSE
INVARIANTS
    TypeOK
    Authorised
    EffectOnce
    RequestsAreLinked
PROPERTIES
    ImplementsLedger
