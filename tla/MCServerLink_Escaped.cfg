SPECIFICATION Spec
CONSTANTS
    Configs <- MCConfigs
    TimerIds <- MCTimerIds
    MaxOverlaps = 2
    MaxFaults = 0
INVARIANT TimersHeld
CHECK_DEADLOCK FALSE
