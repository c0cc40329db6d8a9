SPECIFICATION Spec
CONSTANTS
    SeqMod = 32
    ClientIsn = 29
    Issn = 30
    ClientBytes = 6
    ServerBytes = 0
    MaxSegment = 3
    SendMss = 2
    Windows = {1}
    ReasmCap = 4
    ReasmEntriesCap = 2
    SendCap = 2
    Rto = 1
    MaxRetries = 0
    TimeWait = 1
    IdleTimeout = 0
    UpstreamMayOverflow = TRUE
    EarlyUpstream = FALSE
    StrayPackets = TRUE
INVARIANTS
    UpstreamStream
    ReassemblySound
