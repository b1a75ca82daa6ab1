SPECIFICATION Spec
CONSTANTS
    MinRto = 8
    InitialRto = 8
    MaxRto = 32
    Space = 128
    Iss = 126
    Clock0 = 120
    PeerClock0 = 104
    MaxSegs = 3
    Grain = 8
    MaxNow = 32
    MaxNet = 2
    MaxSample = 56
    SynRtts = {0, 4}
    ColdSrtt = 8
    Expiry = 24
    ReoFloor = 8
    WcDelAck = 8
    BoardSize = 2
    MaxProbes = 1
    SkipSampleGate = FALSE
    RecentProbes = 2
INVARIANTS
    BoardTrue
    NewestPasses
    EstimateSound
    SamplesReal
CHECK_DEADLOCK FALSE
