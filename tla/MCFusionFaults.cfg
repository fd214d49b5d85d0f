CONSTANTS
    NItems = 1
    Quantities = {1}
    Orders <- NoOrders
    Reports <- NoReports
    MaxCount = 20
    MaxSessions = 1
    MaxScans = 0
    PowerCuts = 0
    Backlog = 1
    Lossy <- NoLines
    Customers = {"c1"}
    PickSets <- AlwaysOne
    Grace = 1
    Window = 1
    WireDelay = 0
    Prompt = FALSE
    EmptySessions = TRUE
    MayEnd = TRUE
    Losses = 1
    Repeats = 1
    Resets = 1
SPECIFICATION FairFusionSpec
INVARIANTS
    OneVerdictPerCustomer
PROPERTIES
    ExitIsSettled
CHECK_DEADLOCK FALSE
