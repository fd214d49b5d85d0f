CONSTANTS
    NItems = 2
    Quantities = {1}
    Orders <- MCOrders
    Reports <- MCReports
    MaxCount = 1
SPECIFICATION Spec
INVARIANTS
    TypeOK
    GreenMeansMatch
    CompleteMeansMatch
    InventoryCoversPicks
    GreenSessionSettled
