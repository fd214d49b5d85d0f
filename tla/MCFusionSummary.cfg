CONSTANTS
    NItems = 1
    Quantities = {1}
    Orders <- NoOrders
    Reports <- NoReports
    MaxCount = 20
    MaxSessions = 2
    MaxScans = 1
    PowerCuts = 0
    Backlog = 2
    Lossy <- ProgressLines
    Customers = {"c1"}
    PickSets <- AlwaysOne
    Grace = 1
    Window = 2
    WireDelay = 0
    Prompt = TRUE
    EmptySessions = FALSE
    MayEnd = FALSE
    Losses = 0
    Repeats = 0
    Resets = 0
SPECIFICATION FusionSpec
INVARIANTS
    VerdictIsRight
CHECK_DEADLOCK FALSE
