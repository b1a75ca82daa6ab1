SPECIFICATION PFairSpec
CONSTANTS
    Slots = 2
    Tuples = {t1}
    TsEnabled = TRUE
    SynRetries = 1
    MaxConns = 2
    Ports = {80}
    Peers = {p1}
INVARIANTS
    TableConsistent
    TimersOwned
    WaitIsTimed
    OneEnd
    ListenSlotSound
PROPERTIES
    HandshakeResolves
