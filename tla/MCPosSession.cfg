CONSTANTS
    NItems = 2
    Quantities = {1}
    Orders <- NoOrders
    Reports <- NoReports
    MaxCount = 12
    MaxSessions = 3
    MaxScans = 2
    Backlog = 3
    PowerCuts = 0
    Lossy <- ProgressLines
SPECIFICATION SessionSpec
INVARIANTS
    BooksMatchSales
PROPERTIES
    ImplementsRegister
CHECK_DEADLOCK FALSE
