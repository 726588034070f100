SPECIFICATION Spec
CONSTANTS
    Channels = {1, 2, 3}
    Dialogs = {}
    Budget = 1
    MaxConn = 1
    MaxWire = 2
    Features = {"fail"}
INVARIANT NoStalledCatchup
CHECK_DEADLOCK FALSE
