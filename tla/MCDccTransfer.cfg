SPECIFICATION Spec
CONSTANTS
    Transfers = {1, 2}
    Configs <- MCConfigs
    Mod = 4
    Block = 2
    Window = 3
    MaxUser = 2
    MaxThrottles = 1
    MaxSplits = 1
INVARIANTS FileIntact AlwaysResumable OneWriter
PROPERTY TransferEnds
CHECK_DEADLOCK FALSE
