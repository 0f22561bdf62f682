CONSTANTS
    Processes = {"watch", "boot"}
    Goroutines = {1}
    RotateLines = 1
    VolumeFails = FALSE
    Earlier = 2
    MaxLines = 4
SPECIFICATION Spec
PROPERTY RotationKeepsHistory
