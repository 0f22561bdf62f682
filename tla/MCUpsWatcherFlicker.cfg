CONSTANTS
    Role = "peer"
    CfgConfirmOB = 1
    CfgSilentSecs = 1
    Statuses <- MCStatuses
    Services = {s1}
    TestMode = FALSE
    Crashes = FALSE
    PowerLoss = FALSE
    Reboots = FALSE
    DockerFaults = FALSE
    DiskFaults = FALSE
SPECIFICATION Spec
PROPERTIES
    ReadyMeansRehomed
