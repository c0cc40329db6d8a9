SPECIFICATION FairSpec
CONSTANTS
    SeqMod = 16
    ClientIsn = 14
    Issn = 13
    ClientBytes = 1
    ServerBytes = 3
    MaxSegment = 2
    SendMss = 2
    Windows = {0, 1, 2}
    ReasmCap = 2
    ReasmEntriesCap = 1
    SendCap = 2
    Rto = 2
    MaxRetries = 1
    TimeWait = 1
    IdleTimeout = 5
    UpstreamMayOverflow = FALSE
    EarlyUpstream = FALSE
    StrayPackets = TRUE
INVARIANTS
    TypeOK
    SendBuffer
    FinAfterData
    StatePairing
    EndsHonestly
PROPERTIES
    WindowRespected
    ImplementsRelay
    SilentFlowEnds
    FlightResolved
