SPECIFICATION Spec
CONSTANTS
    t1 = t1
    t2 = t2
    Threads <- OneThread
    Code <- SameCode
    MaxCalls <- TwoCalls
    MaxGeneration = 2
    Sizes <- TwoSizes
    Capacity = 1
    CommandFails = TRUE
    Unbinds = TRUE
CHECK_DEADLOCK FALSE
INVARIANTS TrueMeansFinalResponse AbortedOnlyByReset
