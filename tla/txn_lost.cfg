SPECIFICATION Spec
CONSTANTS
    t1 = t1
    t2 = t2
    r1 = r1
    r2 = r2
    r3 = r3
    Threads <- TwoThreads
    Reqs <- TwoReqs
    MaxCalls = 1
    Kinds <- TransactionOnly
    Rcodes <- CompleteOnly
    Discipline = "settled"
    BadArgs = FALSE
CHECK_DEADLOCK FALSE
PROPERTY DroppedOnlyInvalidated
