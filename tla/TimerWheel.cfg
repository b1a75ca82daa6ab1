SPECIFICATION Spec
CONSTANTS
    TICK = 2
    LEVELS = 2
    BUCKETS = 3
    MaxNow = 21
    MaxTimers = 2
    Delays = {0, 3, 9, 19}
    Gaps = {1, 15}
INVARIANTS
    SlotAccounting
    OneOutcome
    NeverOverdue
    AtMostATickEarly
