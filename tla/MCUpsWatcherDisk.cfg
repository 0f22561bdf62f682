CONSTANTS
    Role = "peer"
    CfgConfirmOB = 2
    CfgSilentSecs = 1
    Statuses <- MCOddStatuses
    Services = {s1}
    TestMode = FALSE
    Crashes = TRUE
    PowerLoss = TRUE
    Reboots = TRUE
    DockerFaults = TRUE
    DiskFaults = TRUE
SPECIFICATION Spec
INVARIANTS
    TypeOK
    LatchMatchesRun
PROPERTIES
    FlagClearedWhenReleased
