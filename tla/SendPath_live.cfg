SPECIFICATION FairSpec
CONSTANTS
    MSS = 1
    SendBuf = 2
    PeerBuf = 2
    MaxRetrans = 2
    MaxProbes = 1
    SkipSampleGate = FALSE
    TsEnabled = FALSE
    SackEnabled = TRUE
    DataNoMem = TRUE
    HdrNoMem = FALSE
    XmitCap = 3
    MaxSent = 2
    MaxRequest = 2
    MaxAcks = 1
PROPERTIES
    FlightResolves
    RefusalResolves
