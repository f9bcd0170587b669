SPECIFICATION ActionsSpec
CONSTANTS
    c1 = c1
    c2 = c2
    Calls = {k1, k2}
    CallRequests <- MCCallRequests
    CallTimeout = 1
    RefreshBefore = 1
    Lifetimes = {2}
    CallHorizon = 2
    Instances = {1, 2, 3}
    Accounts <- MCAccounts
    Tiers <- MCTiers
    Reads <- MCReads
    Proposals <- MCProposals
    DiskOf <- MCDiskOf
    Required <- MCRequired
    Collectable = {"zone", "image"}
    Ttl = 1
    PageSize = 1
    TargetPages = 3
    TargetHorizon = 2
    MaxChanges = 2
    MaxOps = 3
    OrderRows <- MCRows
    OrderPods = {2}
    OrderImages <- MCImages
    OrderNames = {"near", "far"}
    OrderRelated <- MCRelated
    OrderRequests <- MCRequests
    OrderSells <- MCSells
    OrderProbes <- MCProbes
    OrderCapacities <- MCCapacities
    StockModels = {"g1", "g2"}
    StockZones = {1, 2}
    StockPods = {2}
    StockRequests <- MCStockRequests
    StockCatalogs <- MCStockCatalogs
    StockZoneLists <- MCZoneLists
    StockInventories <- MCInventories
    StockMaxPages = 3
    StockPages = 2
    NoValue = NoValue
    Definitions <- MCDefinitions
    Choices <- MCChoices
    MaxEdits = 3
INVARIANTS
    ExecutesWhatWasConfirmed
    CardIsFresh
    SuccessMeansWritten
    SentAsAgreed
    OneFlight
    CardsDecideTheDraft
    NoInventedShortage
    TargetIsEvidenced
SYMMETRY CallSymmetry
CHECK_DEADLOCK FALSE
