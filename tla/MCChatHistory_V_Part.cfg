SPECIFICATION Spec
CONSTANTS
    Channels = {1, 2}
    Dialogs = {}
    Budget = 2
    MaxConn = 1
    MaxWire = 2
    Features = {"part"}
INVARIANT SlotsMatchWaiters
CHECK_DEADLOCK FALSE
