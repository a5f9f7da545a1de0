SPECIFICATION Spec
CONSTANTS
    Files = {f1, f2}
    Values = {1}
    NBlocks = 9
    GenLimit = 3
    OpFaults = {"data", "leaf"}
    LateFaults = FALSE
    IoFaults = TRUE
    MaxCrashes = 1
    Batch = 2
SYMMETRY FileSymmetry
CHECK_DEADLOCK FALSE
INVARIANT Rfs2TypeOK
 
INVARIANT LiveSetsExact
PROPERTY LiveNeverOverwritten
PROPERTY ImplementsVolume
