SPECIFICATION Spec
CONSTANTS
    Configs <- MCConfigs
    TimerIds <- MCTimerIds
    MaxOverlaps = 2
    MaxFaults = 0
INVARIANT StaysAway
CHECK_DEADLOCK FALSE
