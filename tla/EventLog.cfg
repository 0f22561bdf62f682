CONSTANTS
    Processes = {"watch"}
    Goroutines = {1, 2}
    RotateLines = 1
    VolumeFails = TRUE
    Earlier = 0
    MaxLines = 4
SPECIFICATION FairSpec
INVARIANTS
    TypeOK
    FileInOrder
    HolderRuns
PROPERTIES
    LogReturns
