SPECIFICATION Spec
CONSTANTS
    t1 = t1
    t2 = t2
    Threads <- TwoThreads
    Code <- TwoCodes
    MaxCalls <- TwoCalls
    MaxGeneration = 0
    Sizes <- OneSize
    Capacity = 1
    CommandFails = FALSE
    Unbinds = FALSE
CHECK_DEADLOCK FALSE
INVARIANTS TypeOK WaitersLive TrueMeansFinalResponse
