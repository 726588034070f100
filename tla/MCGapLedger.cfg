SPECIFICATION Spec
CONSTANTS
    MaxTime = 4
    MaxGaps = 2
    MaxAttempts = 1
CONSTRAINT OneException
INVARIANTS TypeOK LiveGapsApart AnchorsSpanHole
PROPERTY WitnessedHolesKept
