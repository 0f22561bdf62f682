CONSTANTS
    Role = "survivor"
    CfgConfirmOB = 0
    CfgSilentSecs = 0
    Statuses <- MCStatuses
    RemediationTicks = 3
    GapSteps = 2
    Credentials = TRUE
    DialTimeout = 1
    DefaultTimeout = 2
SPECIFICATION NasSpec
INVARIANTS
    NasTypeOK
    RegularBursts
    WindowsBounded
    ProbeBounded
PROPERTY MonitorSamples
