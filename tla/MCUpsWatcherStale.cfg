CONSTANTS
    Role = "peer"
    CfgConfirmOB = 1
    CfgSilentSecs = 1
    Statuses <- MCStatuses
    Services = {}
    TestMode = FALSE
    Crashes = FALSE
    PowerLoss = FALSE
    Reboots = TRUE
    DockerFaults = FALSE
    DiskFaults = FALSE
SPECIFICATION Spec
INVARIANTS
    DrainedRunStaysDrained
