SPECIFICATION Spec
CONSTANTS
    BurstBytes <- MCBurstBytes
    WriteBytes <- MCWriteBytes
    Counts <- MCCounts
    Commands <- MCCommands
    Slots = {1, 2}
    Window = 2
    Space = 3
    WarmRounds = 1
    Rounds = 3
    Bursts = 2
    TxBound = 4
    Patience = 2
INVARIANTS ReportTrue SocketsReturned
PROPERTY GridFinishes
