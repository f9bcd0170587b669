SPECIFICATION Spec
CONSTANTS
    Callers = {a1}
    Life = 3
    Skew = 1
    Timeout = 1
    Horizon = 4
    MaxGrants = 2
    MaxTokens = 3
    MaxFaults = 1
    MaxCalls = 1
INVARIANTS
    ReauthorizationWorks
CHECK_DEADLOCK FALSE
