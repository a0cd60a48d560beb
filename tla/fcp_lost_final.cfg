SPECIFICATION Spec
CONSTANTS
    t1 = t1
    t2 = t2
    Threads <- OneThread
    Code <- SameCode
    MaxCalls <- OneCall
    MaxGeneration = 0
    Sizes <- TwoSizes
    Capacity = 2
    CommandFails = FALSE
    Unbinds = FALSE
CHECK_DEADLOCK FALSE
INVARIANT AnsweredNotTimeout
