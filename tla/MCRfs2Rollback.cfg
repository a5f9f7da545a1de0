SPECIFICATION Spec
CONSTANTS
    Files = {f1}
    Values = {1, 2}
    NBlocks = 6
    GenLimit = 4
    OpFaults = {}
    LateFaults = FALSE
    IoFaults = FALSE
    MaxCrashes = 2
    Batch = 6
PROPERTY LiveNeverOverwritten
CHECK_DEADLOCK FALSE
