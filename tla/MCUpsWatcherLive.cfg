CONSTANTS
    Role = "peer"
    CfgConfirmOB = 2
    CfgSilentSecs = 1
    Statuses <- MCOddStatuses
    Services = {}
    TestMode = FALSE
    Crashes = TRUE
    PowerLoss = TRUE
    Reboots = TRUE
    DockerFaults = TRUE
    DiskFaults = FALSE
SPECIFICATION FairSpec
INVARIANTS
    DrainMarked
PROPERTIES
    ImplementsNodeDrain
    MainsRelease
    LowBatteryPowersOff
