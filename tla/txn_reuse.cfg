SPECIFICATION Spec
CONSTANTS
    t1 = t1
    t2 = t2
    r1 = r1
    r2 = r2
    r3 = r3
    Threads <- OneThread
    Reqs <- TwoReqs
    MaxCalls = 2
    Kinds <- TransactionOnly
    Rcodes <- CompleteOnly
    Discipline = "serial"
    BadArgs = FALSE
CHECK_DEADLOCK FALSE
INVARIANT OwnResponse
