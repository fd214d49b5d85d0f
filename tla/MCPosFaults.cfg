CONSTANTS
    NItems = 2
    Quantities = {1}
    Orders <- OneOrder
    Reports <- NoReports
    MaxCount = 12
    MaxSessions = 3
    MaxScans = 1
    Backlog = 2
    PowerCuts = 1
    Lossy <- FaultLines
SPECIFICATION SessionSpec
INVARIANTS
    NoSpuriousBatch
    PaidWasScanned
CHECK_DEADLOCK FALSE
