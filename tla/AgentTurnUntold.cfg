SPECIFICATION Spec
CONSTANTS
    Keys = {k}
    MaxRounds = 3
    MaxGuestRuns = 1
    MaxRecoveries = 1
    MaxBatch = 2
    MaxLive = 2
INVARIANTS
    EveryWriteIsTold
CHECK_DEADLOCK FALSE
