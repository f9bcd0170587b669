SPECIFICATION Spec
CONSTANTS
    Requests = {r1, r2, r3}
    Keys = {k1, k2, k3}
    Entries = {e1, e2, e3, e4}
    NoEntry = NoEntry
    NoRequest = NoRequest
    Capacity = 2
    IdleTTL = 1
    MaxClock = 1
    MaxTurns = 1
INVARIANTS
    RecencyOrder
    RemembersUnlessChurned
PROPERTIES
    ImplementsSessionTurns
SYMMETRY IdSymmetry
