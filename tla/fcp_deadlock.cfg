SPECIFICATION FairSpec
CONSTANTS
    t1 = t1
    t2 = t2
    Threads <- OneThread
    Code <- SameCode
    MaxCalls <- OneCall
    MaxGeneration = 0
    Sizes <- OneSize
    Capacity = 1
    CommandFails = TRUE
    Unbinds = FALSE
CHECK_DEADLOCK FALSE
PROPERTY AvcReturns
