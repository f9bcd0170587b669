SPECIFICATION Spec
CONSTANTS
    Names = {"", "u", "v", "yes", "result", "completion", "display", "aborted"}
    Users <- MCUsers
    Scripts <- MCScripts
    Foreign <- MCForeign
    MaxTurns = 3
    MaxFaults = 0
    MsgCap = 5
    TotalCap = 10
    RawTurn = 30
    Replay = 12
    Request = 20
    RowCost = 1
INVARIANTS
    EvidenceIsOwn
CHECK_DEADLOCK FALSE
