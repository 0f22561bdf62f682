CONSTANTS
    Role = "survivor"
    CfgConfirmOB = 0
    CfgSilentSecs = 0
    Statuses <- MCHighStatuses
    RemediationTicks = 3
    GapSteps = 3
SPECIFICATION Spec
PROPERTY EveryReturnBursts
