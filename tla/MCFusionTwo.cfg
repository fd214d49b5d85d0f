CONSTANTS
    NItems = 1
    Quantities = {1}
    Orders <- NoOrders
    Reports <- NoReports
    MaxCount = 20
    MaxSessions = 2
    MaxScans = 1
    PowerCuts = 0
    Backlog = 1
    Lossy <- CompletionLine
    Customers = {"c1", "c2"}
    PickSets <- OneOrTwo
    Grace = 1
    Window = 2
    WireDelay = 1
    Prompt = TRUE
    EmptySessions = FALSE
    MayEnd = FALSE
    Losses = 0
    Repeats = 0
    Resets = 0
SPECIFICATION FusionSpec
INVARIANTS
    VerdictIsRight
    CreditedWasSold
CHECK_DEADLOCK FALSE
