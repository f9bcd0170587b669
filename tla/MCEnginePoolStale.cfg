SPECIFICATION Spec
CONSTANTS
    Requests = {r1, r2}
    Keys = {k1, k2}
    Entries = {e1, e2, e3}
    NoEntry = NoEntry
    NoRequest = NoRequest
    Capacity = 1
    IdleTTL = 1
    MaxClock = 1
    MaxTurns = 1
INVARIANTS
    RemembersNewestTurn
SYMMETRY IdSymmetry
