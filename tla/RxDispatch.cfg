SPECIFICATION Spec
CONSTANTS
    NumMbufs = 3
    Frames <- MCFrames
    Burst = 2
    RingDepth = 1
    LocalIp = local
    GatewayIp = gateway
    OtherIps = {second}
    ListenIps = {local}
    FlipMtus = {0, 4}
    MinMtu = 2
    MaxFrames = 2
INVARIANTS
    FrameRefsExact
    FramesAccounted
    DamageContained
    LearnedSound
