SPECIFICATION FairSpec
CONSTANTS
    Channels = {1, 2}
    Dialogs = {}
    Budget = 2
    MaxConn = 2
    MaxWire = 2
    Features = {"chunk", "fail", "switch", "drop"}
INVARIANTS SlotsMatchWaiters QueueAccounted OneBeforeAtATime
PROPERTIES BeforeAfterLatest CatchupEnds
CHECK_DEADLOCK FALSE
