SPECIFICATION LiveSpec
CONSTANTS
    Requests = {q1, q2}
    Jobs = {j1}
    Seeded = Seeded
    NoRequest = NoRequest
    MaxTurns = 1
    Extra = 1
    MaxJobs = 1
    MaxFaults = 1
    r1 = r1
    r2 = r2
    r3 = r3
    k1 = k1
    e1 = e1
    e2 = e2
    t1 = t1
    t2 = t2
    o1 = o1
    c1 = c1
    i1 = i1
    p1 = p1
    p2 = p2
    Nothing = Nothing
PROPERTIES
    EveryLeaseServed
    OwnAnswerSettles
    EveryTurnEnds
    RunsEnd
    WorkflowTerminates
CHECK_DEADLOCK FALSE
