SPECIFICATION Spec
CONSTANTS
    t1 = t1
    t2 = t2
    r1 = r1
    r2 = r2
    r3 = r3
    Threads <- TwoThreads
    Reqs <- TwoReqs
    MaxCalls = 2
    Kinds <- BothKinds
    Rcodes <- TwoRcodes
    Discipline = "settled"
    BadArgs = TRUE
CHECK_DEADLOCK FALSE
SYMMETRY Symmetric
INVARIANTS TypeOK WaiterOutlivesHandler
PROPERTY ImplementsBlockingCall
