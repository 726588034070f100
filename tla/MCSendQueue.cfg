SPECIFICATION Spec
CONSTANTS
    Kinds = {"say", "history"}
    Sizes = {20}
    BurstBytes = 20
    SEND_WINDOW = 3
    STALE_LABEL_TIMEOUT = 0
    STALE_BATCH_TIMEOUT = 1
    ClockStep = 1
    MaxLines = 3
    MaxConns = 2
    MaxEvents = 1
INVARIANTS QueueKept FloodBound
PROPERTIES QueueDrains LabelsEnd
CHECK_DEADLOCK FALSE
