SPECIFICATION Spec
CONSTANTS
    Transfers = {1}
    Configs <- MCAllConfigs
    Mod = 4
    Block = 2
    Window = 3
    MaxUser = 2
    MaxThrottles = 1
    MaxSplits = 1
PROPERTY SenderGoesOn
CHECK_DEADLOCK FALSE
