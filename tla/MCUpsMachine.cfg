CONSTANTS
    Role = "peer"
    CfgConfirmOB = 2
    CfgSilentSecs = 3
    Statuses <- MCStatuses
    Gaps <- MCGaps
    MaxProbes = 6
SPECIFICATION Spec
INVARIANTS
    TypeOK
    DrainsOnConfirm
    UndrainsCloseDrains
    ShutdownsJustified
    OutagesReported
