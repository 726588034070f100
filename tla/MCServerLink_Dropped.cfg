SPECIFICATION Spec
CONSTANTS
    Configs <- MCConfigs
    TimerIds <- MCTimerIds
    MaxOverlaps = 0
    MaxFaults = 0
INVARIANT NoneDropped
CHECK_DEADLOCK FALSE
