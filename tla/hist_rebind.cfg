SPECIFICATION Spec
CONSTANTS
    n1 = n1
    n2 = n2
    Nodes <- TwoNodes
    Ids <- TwoIds
    Records = 2
    MaxGeneration = 3
    MaxQueue = 2
CHECK_DEADLOCK FALSE
SYMMETRY Symmetric
INVARIANTS TypeOK EmittedFromTarget RingInOrder
PROPERTY CurrentResponseTaken
