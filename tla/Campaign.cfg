SPECIFICATION Spec
CONSTANTS
    Matrix <- MCMatrix
    SmokeSet <- MCSmokeSet
    Commands <- MCCommands
    Checks = {isolcpus}
    Handles = {1, 2, 3, 4}
    Patience = 2
    Batches = 2
INVARIANTS EchoTrue NetemContained VerdictTrue
