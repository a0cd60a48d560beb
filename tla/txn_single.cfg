SPECIFICATION FairSpec
CONSTANTS
    t1 = t1
    t2 = t2
    r1 = r1
    r2 = r2
    r3 = r3
    Threads <- OneThread
    Reqs <- ThreeReqs
    MaxCalls = 3
    Kinds <- TransactionOnly
    Rcodes <- ThreeRcodes
    Discipline = "settled"
    BadArgs = TRUE
CHECK_DEADLOCK FALSE
INVARIANT VerdictStands
PROPERTIES DroppedOnlyInvalidated InvalidatedNotProcessed CallReturns DispatcherReturns
