SPECIFICATION Spec
CONSTANTS
    RecvBuf = 5
    U16Max = 7
    Scaled = TRUE
    MaxBlocks = 2
    Chains = FALSE
    SoftCap = 2
    StreamLen = 6
    MaxLen = 3
    MaxEvents = 2
    Mbufs = 3
INVARIANTS
    ReorderShape
    RefsExact
    ViewStable
    NoRenege
PROPERTIES
    Implements
