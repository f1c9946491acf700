CONSTANTS
    w1 = w1
    w2 = w2
    w3 = w3
    k1 = k1
    k2 = k2
    NoKey = NoKey
    Nobody = Nobody
    Procs <- MCProcs
    Olds <- MCOlds
    Writers <- MCWriters
    Keys <- MCKeys
    MaxAppends = 4
    MaxOpens = 3
    Workers <- MCWorkers
    NoOwner = NoOwner
    Ttl = 2
    MaxTime = 5
SPECIFICATION ServicesSpec
CHECK_DEADLOCK FALSE
INVARIANT
    OldStoresOpen
