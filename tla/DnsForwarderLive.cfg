SPECIFICATION FairSpec
CONSTANTS
    Ids = {i1}
    Questions = {a}
    MaxPending = 1
    MaxQueries = 3
PROPERTIES
    ForwardReturns
    WaitEnds
CHECK_DEADLOCK FALSE
