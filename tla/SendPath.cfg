SPECIFICATION Spec
CONSTANTS
    MSS = 1
    SendBuf = 2
    PeerBuf = 2
    MaxRetrans = 2
    MaxProbes = 1
    SkipSampleGate = FALSE
    TsEnabled = FALSE
    SackEnabled = TRUE
    DataNoMem = TRUE
    HdrNoMem = TRUE
    XmitCap = 3
    MaxSent = 3
    MaxRequest = 2
    MaxAcks = 1
INVARIANTS
    FlightTiled
    RtoCoversFlight
    RefsMatch
    WindowRespected
PROPERTIES
    TimeoutIsForUnackedData
