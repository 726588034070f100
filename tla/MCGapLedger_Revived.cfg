SPECIFICATION Spec
CONSTANTS
    MaxTime = 4
    MaxGaps = 2
    MaxAttempts = 1
INVARIANT ResetsKeepDisjoint
