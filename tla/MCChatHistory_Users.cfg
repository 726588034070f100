SPECIFICATION Spec
CONSTANTS
    Channels = {1}
    Dialogs = {2}
    Budget = 1
    MaxConn = 2
    MaxWire = 2
    Features = {"older", "part", "close", "latejoin", "targets", "reconnect", "nomsgid"}
INVARIANT QueueAccounted
CHECK_DEADLOCK FALSE
