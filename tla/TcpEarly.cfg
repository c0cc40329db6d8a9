SPECIFICATION Spec
CONSTANTS
    SeqMod = 16
    ClientIsn = 14
    Issn = 13
    ClientBytes = 0
    ServerBytes = 4
    MaxSegment = 3
    SendMss = 2
    Windows = {0, 1, 3}
    ReasmCap = 2
    ReasmEntriesCap = 1
    SendCap = 3
    Rto = 2
    MaxRetries = 1
    TimeWait = 1
    IdleTimeout = 5
    UpstreamMayOverflow = FALSE
    EarlyUpstream = TRUE
    StrayPackets = FALSE
INVARIANTS
    SendBuffer
