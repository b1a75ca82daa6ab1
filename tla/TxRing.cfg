SPECIFICATION Spec
CONSTANTS
    DataMbufs = {d1, d2, d3}
    HdrMbufs = {h1, h2}
    RingSize = 2
INVARIANTS
    RefsExact
    BurstSound
