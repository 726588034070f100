SPECIFICATION Spec
CONSTANTS
    Kinds = {"say"}
    Sizes = {20}
    BurstBytes = 20
    SEND_WINDOW = 3
    STALE_LABEL_TIMEOUT = 4
    STALE_BATCH_TIMEOUT = 8
    ClockStep = 1
    MaxLines = 5
    MaxConns = 1
    MaxEvents = 0
INVARIANT QueuedIsPending
CHECK_DEADLOCK FALSE
