SPECIFICATION Spec
CONSTANTS
    Configs <- MCConfigs
    TimerIds <- MCTimerIds
    MaxOverlaps = 0
    MaxFaults = 1
INVARIANT NoStrayKill
CHECK_DEADLOCK FALSE
