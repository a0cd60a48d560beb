SPECIFICATION FairSpec
CONSTANTS
    n1 = n1
    n2 = n2
    NoNode = NoNode
    Nodes <- TwoNodes
    Handles <- ThreeHandles
    Widths <- TwoWidths
    MaxWidth = 2
    MaxRequests = 2
    MaxReserves = 2
    Rcodes <- OneRcode
    Abis <- AllAbis
    Drains = TRUE
CHECK_DEADLOCK FALSE
INVARIANTS TypeOK FrameFits AnswersOwnData RangeIsKnown
PROPERTY EventuallyAnswered
