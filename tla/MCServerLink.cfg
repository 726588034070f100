SPECIFICATION Spec
CONSTANTS
    Configs <- MCConfigs
    TimerIds <- MCTimerIds
    MaxOverlaps = 2
    MaxFaults = 1
INVARIANTS OneOwner ChildReaped TimerTagged DownStaysDown
PROPERTIES AttemptEnds RetryBegins
CHECK_DEADLOCK FALSE
