SPECIFICATION FairSpec
CONSTANTS
    s1 = s1
    s2 = s2
    t1 = t1
    Sources <- TwoSources
    Threads <- OneThread
    MaxGeneration = 3
CHECK_DEADLOCK FALSE
INVARIANTS TypeOK ImageOfGeneration NodeIdNotOlder BusUpdateCurrent
PROPERTIES Converges DisconnectionNoticed
