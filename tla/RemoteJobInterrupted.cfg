SPECIFICATION Spec
CONSTANTS
    Window = 2
    MaxLog = 4
    MaxFaults = 2
INVARIANTS
    InterruptedLeftNoRecord
CHECK_DEADLOCK FALSE
