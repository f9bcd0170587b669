SPECIFICATION SessionRunsSpec
CONSTANTS
    Invocations = {i1, i2}
    Tools = {t1, t2}
    Jobs = {j1, j2}
    Nobody = Nobody
    MaxJobs = 1
    MaxRuns = 2
    MaxUses = 2
    PipeSize = 2
    Requests = {r1, r2, r3}
    Pair = {r1, r2}
    Seeded = Seeded
    NoRequest = NoRequest
    MaxTurns = 1
    Extra = 1
    MaxFaults = 1
INVARIANTS
    JobNotForgotten
    RowsTellTheRuns
    RepliesAreOwn
    LaunchNotForgotten
    TurnBudget
PROPERTIES
    ForeignRowUntouched
    CursorOutlivesJob
SYMMETRY IdSymmetry
CHECK_DEADLOCK FALSE
