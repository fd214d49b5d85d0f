CONSTANTS
    NItems = 2
    Quantities = {1, 2}
    Orders <- BothOrFirst
    Reports <- OneEach
    MaxCount = 2
    MaxOrders = 1
    MaxScans = 1
    MaxBought = 0
    PowerLosses = 1
SPECIFICATION LoopSpec
INVARIANTS
    LampTellsTheTruth
    ServoPointsAtNext
    DashboardAgrees
