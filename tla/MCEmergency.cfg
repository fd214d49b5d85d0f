CONSTANTS
    Customers = {c1}
    Retries = 1
    MaxJobs = 3
SPECIFICATION Spec
INVARIANTS
    TypeOK
    DeliveredMeansAccepted
    AcceptedWithinAttempts
PROPERTIES
    ImplementsHandoff
CHECK_DEADLOCK FALSE
