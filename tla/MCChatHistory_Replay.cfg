SPECIFICATION Spec
CONSTANTS
    Channels = {1}
    Dialogs = {}
    Budget = 1
    MaxConn = 1
    MaxWire = 2
    Features = {"replay", "quote", "chunk", "fill", "fail"}
PROPERTY ReplayLeavesQueue
