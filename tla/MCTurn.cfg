SPECIFICATION TurnSpec
CONSTANTS
    Keys = {k}
    MaxRounds = 2
    MaxGuestRuns = 1
    MaxRecoveries = 1
    MaxBatch = 2
    MaxLive = 2
    KnownChunks = {1, 2}
    KnownQueries = {q1, q2}
    KnownSize <- MCSize
    ReadBudget = 2
    MaxSearches = 2
    MaxKnownIds = 2
    KnownWindow = 1
    MaxKnownPrior = 2
    KnownTurns = 3
    KnownReplies <- MCSearchReplies
    HistoryNames = {"", "u", "yes", "long", "result", "completion", "display", "aborted"}
    HistoryUsers <- MCUsers
    HistoryScripts <- MCScripts
    HistoryForeign <- MCForeign
    HistoryTurns = 3
    MaxHistoryFaults = 1
    MsgCap = 5
    TotalCap = 10
    RawTurn = 30
    Replay = 12
    Request = 15
    RowCost = 1
INVARIANTS
    OutcomeIsTold
    ReplaysAreCurrent
    ConversationIsLegal
    KnowledgeIsGrounded
    MemoryIsSound
CHECK_DEADLOCK FALSE
