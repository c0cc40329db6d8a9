SPECIFICATION FairSpec
CONSTANTS
    Keys = {k1, k2}
    Readers = {r1}
    Ticker = ticker
    Closer = closer
    MaxSessions = 1
    MaxBorn = 3
PROPERTIES
    DeadFlowsLeave
    EvictionEnds
CHECK_DEADLOCK FALSE
