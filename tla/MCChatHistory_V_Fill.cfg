SPECIFICATION Spec
CONSTANTS
    Channels = {1}
    Dialogs = {}
    Budget = 1
    MaxConn = 1
    MaxWire = 2
    Features = {"replay", "fill"}
INVARIANT NoStalledCatchup
CHECK_DEADLOCK FALSE
